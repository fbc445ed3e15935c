--------------------------- MODULE SyncStreamProofs ---------------------------
(***************************************************************************)
(* Proofs about SyncStream, for every value of its constants.              *)
(***************************************************************************)
EXTENDS SyncStream, PostgresCompactorProofs

(***************************************************************************)
(* The rows of a query: finitely many, and ordered by bucket and op id.    *)
(***************************************************************************)
RowsOK(R) ==
  /\ IsFiniteSet(R) /\ R \subseteq Buckets \X Op
  /\ \A p, q \in R : p[1] = q[1] /\ p[2].op_id = q[2].op_id => p = q

Earlier(R, p) == {q \in R : Before(q, p)}

FirstOf(R, n) == {p \in R : Cardinality(Earlier(R, p)) < n}

LEMMA RowFields ==
  ASSUME NEW R, RowsOK(R), NEW p \in R
  PROVE  /\ p[1] \in Buckets /\ p[1] \in Nat /\ p[2] \in Op /\ p[2].op_id \in Nat /\ p = <<p[1], p[2]>>
         /\ Earlier(R, p) \subseteq R /\ IsFiniteSet(Earlier(R, p)) /\ Cardinality(Earlier(R, p)) \in Nat
<1>1. p[1] \in Buckets /\ p[2] \in Op /\ p = <<p[1], p[2]>>
  BY DEF RowsOK
<1>2. p[1] \in Nat /\ p[2].op_id \in Nat
  BY <1>1, OpFields, BucketsAssumption
<1>3. Earlier(R, p) \in SUBSET R
  BY DEF Earlier
<1>4. IsFiniteSet(Earlier(R, p)) /\ Cardinality(Earlier(R, p)) \in Nat
  BY <1>3, FS_Subset, FS_CardinalityType DEF RowsOK
<1> QED BY <1>1, <1>2, <1>3, <1>4

LEMMA RowOrder ==
  ASSUME NEW R, RowsOK(R), NEW p \in R, NEW q \in R
  PROVE  /\ p = q \/ Before(p, q) \/ Before(q, p)
         /\ ~(Before(p, q) /\ Before(q, p)) /\ ~Before(p, p)
         /\ \A s \in R : Before(p, q) /\ Before(q, s) => Before(p, s)
<1>1. \A s \in R : s[1] \in Nat /\ s[2].op_id \in Nat
  BY RowFields
<1>2. p[1] = q[1] /\ p[2].op_id = q[2].op_id => p = q
  BY DEF RowsOK
<1> QED BY <1>1, <1>2 DEF Before

LEMMA RowsSubset ==
  ASSUME NEW R, RowsOK(R), NEW S \in SUBSET R
  PROVE  RowsOK(S)
BY FS_Subset DEF RowsOK

LEMMA FirstExists ==
  ASSUME NEW R, RowsOK(R), R # {}
  PROVE  \E p \in R : \A q \in R : ~Before(q, p)
<1> DEFINE P == {T \in SUBSET R : T = {} \/ \E p \in T : \A q \in T : ~Before(q, p)}
<1>1. ASSUME NEW T \in SUBSET R, \A U \in SUBSET T : U # T => U \in P
      PROVE  T \in P
  <2>1. CASE T # {}
    <3>1. PICK x \in T : TRUE
      BY <2>1
    <3>2. T \ {x} \in P
      BY <1>1, <3>1
    <3>3. CASE T \ {x} = {}
      BY <3>1, <3>3, RowOrder
    <3>4. CASE T \ {x} # {}
      <4>1. PICK p \in T \ {x} : \A q \in T \ {x} : ~Before(q, p)
        BY <3>2, <3>4
      <4>2. CASE ~Before(x, p)
        BY <4>1, <4>2
      <4>3. CASE Before(x, p)
        <5>1. \A q \in T \ {x} : ~Before(q, x)
          BY <3>1, <4>1, <4>3, RowOrder
        <5> QED BY <3>1, <5>1, RowOrder
      <4> QED BY <4>2, <4>3
    <3> QED BY <3>3, <3>4
  <2> QED BY <2>1
<1>2. \A T \in SUBSET R : T \in P
  <2> HIDE DEF P
  <2>1. \A T \in SUBSET R : (\A U \in SUBSET T : U # T => U \in P) => T \in P
    BY <1>1
  <2> QED BY <2>1, SubsetInduction DEF RowsOK
<1> QED BY <1>2

(* The first n rows are an initial segment, and n of them unless there are fewer. *)
LEMMA FirstClosed ==
  ASSUME NEW R, RowsOK(R), NEW n \in Nat, NEW p \in FirstOf(R, n), NEW q \in R, Before(q, p)
  PROVE  q \in FirstOf(R, n)
<1>1. p \in R /\ Cardinality(Earlier(R, p)) < n
  BY DEF FirstOf
<1>2. Earlier(R, q) \subseteq Earlier(R, p)
  BY <1>1, RowOrder DEF Earlier
<1>3. Cardinality(Earlier(R, q)) <= Cardinality(Earlier(R, p))
  BY <1>1, <1>2, RowFields, FS_Subset
<1> QED BY <1>1, <1>3, RowFields DEF FirstOf

LEMMA FirstAll ==
  ASSUME NEW R, RowsOK(R), NEW n \in Nat
  PROVE  FirstOf(R, n) = R \/ Cardinality(FirstOf(R, n)) = n
<1> DEFINE P == {m \in Nat : FirstOf(R, m) = R \/ Cardinality(FirstOf(R, m)) = m}
<1>1. 0 \in P
  <2>1. \A p \in R : ~(Cardinality(Earlier(R, p)) < 0)
    BY RowFields
  <2>2. FirstOf(R, 0) = {}
    BY <2>1 DEF FirstOf
  <2> QED BY <2>2, FS_EmptySet
<1>2. ASSUME NEW m \in Nat, m \in P PROVE m + 1 \in P
  <2> DEFINE F == FirstOf(R, m)
  <2>1. F \in SUBSET R /\ F \subseteq FirstOf(R, m + 1) /\ FirstOf(R, m + 1) \subseteq R
    <3>1. \A p \in R : Cardinality(Earlier(R, p)) < m => Cardinality(Earlier(R, p)) < m + 1
      BY RowFields
    <3> QED BY <3>1 DEF FirstOf
  <2>2. CASE F = R
    BY <2>1, <2>2
  <2>3. CASE F # R
    <3>1. Cardinality(F) = m /\ IsFiniteSet(F)
      BY <1>2, <2>1, <2>3, FS_Subset DEF RowsOK
    <3>2. RowsOK(R \ F) /\ R \ F # {}
      BY <2>1, <2>3, RowsSubset
    <3>3. PICK x \in R \ F : \A q \in R \ F : ~Before(q, x)
      BY <3>2, FirstExists
    <3>4. \A p \in F, q \in R \ F : Before(p, q)
      <4> SUFFICES ASSUME NEW p \in F, NEW q \in R \ F PROVE Before(p, q)
        OBVIOUS
      <4>1. ~Before(q, p)
        BY FirstClosed
      <4> QED BY <2>1, <4>1, RowOrder
    <3>5. Earlier(R, x) = F
      BY <2>1, <3>3, <3>4 DEF Earlier
    <3>6. x \in FirstOf(R, m + 1)
      BY <3>1, <3>3, <3>5 DEF FirstOf
    <3>7. ASSUME NEW p \in R \ F, p # x PROVE p \notin FirstOf(R, m + 1)
      <4>1. Before(x, p)
        BY <3>3, <3>7, RowOrder
      <4>2. F \cup {x} \in SUBSET Earlier(R, p)
        BY <2>1, <3>3, <3>4, <4>1 DEF Earlier
      <4>3. Cardinality(F \cup {x}) = m + 1
        BY <3>1, <3>3, FS_AddElement
      <4>4. IsFiniteSet(Earlier(R, p)) /\ Cardinality(Earlier(R, p)) \in Nat
        BY RowFields
      <4>5. m + 1 <= Cardinality(Earlier(R, p))
        BY <4>2, <4>3, <4>4, FS_Subset
      <4> QED BY <4>4, <4>5 DEF FirstOf
    <3>8. FirstOf(R, m + 1) = F \cup {x}
      <4> HIDE DEF F
      <4> QED BY <2>1, <3>3, <3>6, <3>7
    <3>9. Cardinality(FirstOf(R, m + 1)) = m + 1
      BY <3>1, <3>3, <3>8, FS_AddElement
    <3> QED BY <3>9
  <2> QED BY <2>2, <2>3
<1>3. n \in P
  <2> HIDE DEF P
  <2> QED BY <1>1, <1>2, NatSetInduction
<1> QED BY <1>3

-----------------------------------------------------------------------------
Checksums == [checksum : Nat, count : Nat]

Line ==
  [checkpoint : Nat, full : BOOLEAN, sums : Partial(Checksums), updated : SUBSET Buckets, removed : SUBSET Buckets,
   fetch : SUBSET Buckets]

ConnState ==
  [step : {"closed", "idle", "batch", "sending"}, after : Partial(Nat), builder : {"off", "watching", "building", "ready"},
   watched : Nat \cup {-1}, next : Line, line : Line, lastChecksums : Partial(Checksums), hasSent : BOOLEAN,
   positions : Partial(Nat), pending : SUBSET Buckets, todo : SUBSET Buckets, rows : SUBSET (Buckets \X Op),
   isFull : BOOLEAN, hasMore : BOOLEAN, invalidated : BOOLEAN, synced : Nat, aborted : BOOLEAN]

BucketState == [position : Nat, reduced : Reduced]

ClientState ==
  [target : Partial(Checksums), checkpoint : Nat, data : Partial(BucketState),
   applied : Partial([checkpoint : Nat, content : SUBSET (Rows \X Values)]), isComplete : BOOLEAN]

(* The buckets of the user, when k is the last checkpoint. *)
BucketsOK(B, k) ==
  /\ k \in Nat
  /\ DOMAIN B \subseteq 0..k /\ {0, k} \subseteq DOMAIN B
  /\ \A j \in DOMAIN B : B[j] \in BucketSets

(***************************************************************************)
(* State q of the connection and C of the client, when B are the user's    *)
(* buckets: what the server believes the client to have is what it has.    *)
(***************************************************************************)
PositionAt(C, b) == Get(C.data, b, NoData).position

FirstOK(q, C) ==
  /\ q.step \in {"closed", "idle"} /\ q.pending = {} /\ DOMAIN q.lastChecksums = {}
  /\ q.step = "idle" => /\ DOMAIN q.positions = DOMAIN C.data /\ q.after = q.positions
                        /\ \A b \in DOMAIN C.data : q.positions[b] = C.data[b].position

SentOK(q, C, B) ==
  /\ q.step # "closed"
  /\ C.target = q.lastChecksums /\ C.checkpoint = q.line.checkpoint
  /\ q.line.checkpoint \in DOMAIN B /\ DOMAIN q.lastChecksums = B[q.line.checkpoint]
  /\ DOMAIN C.data \subseteq DOMAIN q.lastChecksums
  /\ DOMAIN q.positions = DOMAIN q.lastChecksums
  /\ \A b \in DOMAIN q.lastChecksums : q.positions[b] = PositionAt(C, b)
  /\ q.pending \subseteq DOMAIN q.lastChecksums /\ q.todo \subseteq DOMAIN q.lastChecksums

IsUpdated(b, old, new) == b \in DOMAIN old => old[b] # new[b]

NextOK(q, B) ==
  LET sums == q.next.sums
  IN  /\ q.next.checkpoint = q.watched /\ q.next.full = ~q.hasSent
      /\ DOMAIN sums = B[q.watched]
      /\ q.next.updated = {b \in DOMAIN sums : IsUpdated(b, q.lastChecksums, sums)}
      /\ q.next.removed = DOMAIN q.lastChecksums \ DOMAIN sums
      /\ q.next.fetch \subseteq DOMAIN sums

Current(q) == {b \in q.todo : \A d \in q.todo : Priority[b] <= Priority[d]}

StreamOK(q, C, B) ==
  /\ q \in ConnState /\ C \in ClientState
  /\ q.step = "closed" => q = Closed
  /\ q.watched \in DOMAIN B \cup {-1}
  /\ q.builder \in {"building", "ready"} => q.watched \in DOMAIN B
  /\ q.builder = "ready" => NextOK(q, B)
  /\ ~q.hasSent => FirstOK(q, C)
  /\ q.hasSent => SentOK(q, C, B)
  /\ RowsOK(q.rows) /\ (q.step # "sending" => q.rows = {})
  /\ \A p \in q.rows : p[1] \in Current(q)

StreamInv ==
  /\ CompactInv
  /\ BucketsOK(bucketsAt, checkpoint)
  /\ StreamOK(conn, client, bucketsAt)
  /\ disconnects \in 0..MaxDisconnects

LEMMA ConnFields ==
  ASSUME NEW q \in ConnState
  PROVE  /\ q.step \in {"closed", "idle", "batch", "sending"} /\ q.after \in Partial(Nat)
         /\ q.builder \in {"off", "watching", "building", "ready"} /\ q.watched \in Nat \cup {-1}
         /\ q.next \in Line /\ q.line \in Line /\ q.lastChecksums \in Partial(Checksums) /\ q.hasSent \in BOOLEAN
         /\ q.positions \in Partial(Nat) /\ q.pending \in SUBSET Buckets /\ q.todo \in SUBSET Buckets
         /\ q.rows \in SUBSET (Buckets \X Op) /\ q.isFull \in BOOLEAN /\ q.hasMore \in BOOLEAN
         /\ q.invalidated \in BOOLEAN /\ q.synced \in Nat /\ q.aborted \in BOOLEAN
BY DEF ConnState

LEMMA LineFields ==
  ASSUME NEW l \in Line
  PROVE  /\ l.checkpoint \in Nat /\ l.full \in BOOLEAN /\ l.sums \in Partial(Checksums)
         /\ l.updated \in SUBSET Buckets /\ l.removed \in SUBSET Buckets /\ l.fetch \in SUBSET Buckets
BY DEF Line

LEMMA ClientFields ==
  ASSUME NEW C \in ClientState
  PROVE  /\ C.target \in Partial(Checksums) /\ C.checkpoint \in Nat /\ C.data \in Partial(BucketState)
         /\ C.applied \in Partial([checkpoint : Nat, content : SUBSET (Rows \X Values)]) /\ C.isComplete \in BOOLEAN
BY DEF ClientState

LEMMA GetIs ==
  ASSUME NEW f, NEW b, NEW d
  PROVE  Get(f, b, d) = IF b \in DOMAIN f THEN f[b] ELSE d
BY DEF Get

LEMMA EmptyBucketIs == EmptyBucket \in Reduced /\ NoData \in BucketState /\ NoData.position = 0 /\ NoData.reduced = EmptyBucket
<1>1. EmptyBucket \in Reduced
  BY EmptyIs
<1> HIDE DEF EmptyBucket
<1> QED BY <1>1 DEF NoData, BucketState

LEMMA DataAt ==
  ASSUME NEW C \in ClientState, NEW b
  PROVE  /\ Get(C.data, b, NoData) \in BucketState /\ PositionAt(C, b) \in Nat
         /\ Get(C.data, b, NoData).reduced \in Reduced
         /\ b \in DOMAIN C.data => b \in Buckets /\ C.data[b] \in BucketState /\ C.data[b].position \in Nat
<1>1. C.data \in Partial(BucketState)
  BY ClientFields
<1>2. b \in DOMAIN C.data => b \in Buckets /\ C.data[b] \in BucketState
  BY <1>1, PartialFields
<1>3. Get(C.data, b, NoData) \in BucketState
  BY <1>2, EmptyBucketIs DEF Get
<1> HIDE DEF Get
<1> QED BY <1>2, <1>3 DEF PositionAt, BucketState

LEMMA NoLineIs == NoLine \in Line
BY EmptyFunction DEF NoLine, Line

LEMMA ClosedIs ==
  /\ Closed \in ConnState /\ Closed.step = "closed" /\ Closed.builder = "off" /\ Closed.watched = -1
  /\ Closed.hasSent = FALSE /\ Closed.pending = {} /\ DOMAIN Closed.lastChecksums = {} /\ Closed.rows = {} /\ Closed.todo = {}
  /\ Closed.after = << >> /\ Closed.positions = << >>
<1>1. NoLine \in Line /\ << >> \in Partial(Nat) /\ << >> \in Partial(Checksums) /\ DOMAIN << >> = {}
  BY NoLineIs, EmptyFunction
<1> HIDE DEF NoLine
<1> QED BY <1>1 DEF Closed, ConnState

LEMMA NoRowsOK == RowsOK({})
BY FS_EmptySet DEF RowsOK

(* Whatever the client has, when no connection is open. *)
LEMMA ClosedOK ==
  ASSUME NEW C \in ClientState, NEW B
  PROVE  StreamOK(Closed, C, B)
<1>1. FirstOK(Closed, C)
  BY ClosedIs DEF FirstOK
<1> QED BY <1>1, ClosedIs, NoRowsOK DEF StreamOK

LEMMA StreamInit_Inv ==
  ASSUME Init
  PROVE  StreamInv
<1>1. CompactInv /\ checkpoint = 0
  BY CompactInit_Inv DEF Init, CompactInit
<1>2. BucketsOK(bucketsAt, checkpoint)
  BY <1>1 DEF Init, BucketsOK
<1>3. client = [target |-> << >>, checkpoint |-> 0, data |-> << >>, applied |-> << >>, isComplete |-> FALSE] /\ conn = Closed
  BY DEF Init
<1>4. client \in ClientState
  BY <1>3, EmptyFunction DEF ClientState
<1>5. StreamOK(conn, client, bucketsAt)
  BY <1>3, <1>4, ClosedOK
<1>6. disconnects \in 0..MaxDisconnects
  BY StreamLimitsAssumption DEF Init
<1> QED BY <1>1, <1>2, <1>5, <1>6 DEF StreamInv

-----------------------------------------------------------------------------
(***************************************************************************)
(* What stays true of the stream when the server only moves on in its loop *)
(* or waits for the next checkpoint, and when a checkpoint is committed.   *)
(***************************************************************************)
LEMMA StreamMoves ==
  ASSUME NEW B, NEW q, NEW C, StreamOK(q, C, B), q.step # "closed",
         NEW r \in ConnState, NEW D \in ClientState,
         D.target = C.target, D.checkpoint = C.checkpoint, D.data = C.data,
         r.step # "closed", q.hasSent \/ r.step = q.step,
         r.after = q.after, r.line = q.line, r.lastChecksums = q.lastChecksums, r.hasSent = q.hasSent,
         r.positions = q.positions, r.pending = q.pending, r.todo \subseteq q.todo,
         r.watched \in DOMAIN B \cup {-1},
         r.builder \in {"building", "ready"} => r.watched \in DOMAIN B,
         r.builder = "ready" => NextOK(r, B),
         RowsOK(r.rows), r.step # "sending" => r.rows = {}, \A p \in r.rows : p[1] \in Current(r)
  PROVE  StreamOK(r, D, B)
<1>1. CASE q.hasSent
  <2>1. SentOK(q, C, B)
    BY <1>1 DEF StreamOK
  <2>2. SentOK(r, D, B)
    BY <2>1 DEF SentOK, PositionAt
  <2> QED BY <1>1, <2>2 DEF StreamOK
<1>2. CASE ~q.hasSent
  <2>1. FirstOK(q, C)
    BY <1>2 DEF StreamOK
  <2>2. FirstOK(r, D)
    BY <1>2, <2>1 DEF FirstOK
  <2> QED BY <1>2, <2>2 DEF StreamOK
<1> QED BY <1>1, <1>2

LEMMA StreamExtends ==
  ASSUME NEW B, NEW q, NEW C, StreamOK(q, C, B), NEW A, DOMAIN B \subseteq DOMAIN A, \A j \in DOMAIN B : A[j] = B[j]
  PROVE  StreamOK(q, C, A)
<1>1. q.hasSent => SentOK(q, C, A)
  BY DEF StreamOK, SentOK
<1>2. q.builder = "ready" => q.watched \in DOMAIN B
  BY DEF StreamOK
<1>3. q.builder = "ready" => NextOK(q, A)
  BY <1>2 DEF StreamOK, NextOK
<1> QED BY <1>1, <1>3 DEF StreamOK

LEMMA StreamFields ==
  ASSUME StreamInv
  PROVE  /\ CompactInv /\ BucketsOK(bucketsAt, checkpoint) /\ StreamOK(conn, client, bucketsAt)
         /\ disconnects \in 0..MaxDisconnects /\ conn \in ConnState /\ client \in ClientState
         /\ op_id \in Nat /\ checkpoint \in Nat /\ checkpoint <= op_id
BY DEF StreamInv, StreamOK, CompactInv, StorageOK

(* Steps of the connection and the client leave the storage alone. *)
LEMMA StreamStep ==
  ASSUME StreamInv, UNCHANGED <<compactVars, bucketsAt>>, StreamOK(conn', client', bucketsAt),
         disconnects' \in 0..MaxDisconnects
  PROVE  StreamInv'
<1>1. CompactInv'
  BY StreamFields DEF compactVars, storageVars, CompactInv, StorageOK, CompactorOK
<1>2. bucketsAt' = bucketsAt /\ checkpoint' = checkpoint
  BY DEF compactVars, storageVars
<1>3. BucketsOK(bucketsAt', checkpoint') /\ StreamOK(conn', client', bucketsAt')
  BY <1>2, StreamFields
<1> QED BY <1>1, <1>3 DEF StreamInv

LEMMA Storage_Inv ==
  ASSUME StreamInv, StorageNext
  PROVE  StreamInv'
<1>1. CASE op_id < MaxOp /\ Flush /\ UNCHANGED streamVars
  <2>1. CompactInv' /\ checkpoint' = checkpoint
    BY <1>1, Flush_Inv, StreamFields DEF Flush
  <2> QED BY <1>1, <2>1 DEF StreamInv, streamVars
<1>2. CASE \E c \in Compactors : CompactStep(c) /\ UNCHANGED streamVars
  <2>1. PICK c \in Compactors : CompactStep(c)
    BY <1>2
  <2>2. CompactNext
    BY <2>1 DEF CompactNext
  <2>3. CompactInv'
    BY <2>2, CompactNext_Inv, StreamFields
  <2>4. checkpoint' = checkpoint
    BY <2>1 DEF CompactStep, StartCompact, CompactSingleBucket, ScanOp, FlushMoves, EndScan, ClearBucket, StopCompact, storageVars
  <2> QED BY <1>2, <2>3, <2>4 DEF StreamInv, streamVars
<1>3. CASE CommitParameters
  <2>1. CompactInv' /\ checkpoint' = op_id /\ checkpoint' \in Nat /\ checkpoint <= checkpoint'
        /\ UNCHANGED <<conn, client, disconnects>>
    BY <1>3, Commit_Inv, StreamFields DEF Commit, CommitParameters
  <2>2. PICK buckets \in BucketSets :
          bucketsAt' = [k \in DOMAIN bucketsAt \cup {checkpoint'} |-> IF k = checkpoint' THEN buckets ELSE bucketsAt[k]]
    BY <1>3 DEF CommitParameters
  <2>3. checkpoint \notin DOMAIN bucketsAt \/ checkpoint < checkpoint'
    BY <1>3, StreamFields DEF CommitParameters, Commit
  <2>4. BucketsOK(bucketsAt, checkpoint)
    BY StreamFields
  <2>5. \A j \in DOMAIN bucketsAt : j \in Nat /\ j <= checkpoint /\ j # checkpoint'
    BY <2>1, <2>3, <2>4 DEF BucketsOK
  <2> DEFINE n == checkpoint'
  <2>6. n \in Nat /\ checkpoint \in Nat /\ checkpoint <= n
    BY <2>1, StreamFields
  <2> HIDE DEF n
  <2>7. bucketsAt' = [k \in DOMAIN bucketsAt \cup {n} |-> IF k = n THEN buckets ELSE bucketsAt[k]]
    BY <2>2 DEF n
  <2>8. DOMAIN bucketsAt' = DOMAIN bucketsAt \cup {n} /\ bucketsAt'[n] = buckets
        /\ \A j \in DOMAIN bucketsAt : bucketsAt'[j] = bucketsAt[j]
    BY <2>5, <2>7 DEF n
  <2>9. BucketsOK(bucketsAt', n)
    <3>1. DOMAIN bucketsAt' \subseteq 0..n
      BY <2>5, <2>6, <2>8
    <3> QED BY <2>4, <2>6, <2>8, <3>1 DEF BucketsOK
  <2>10. StreamOK(conn, client, bucketsAt')
    BY <2>8, StreamExtends, StreamFields
  <2> QED BY <2>1, <2>9, <2>10, StreamFields DEF StreamInv, n
<1> QED BY <1>1, <1>2, <1>3 DEF StorageNext

-----------------------------------------------------------------------------
LEMMA Connect_Inv ==
  ASSUME StreamInv, Connect
  PROVE  StreamInv'
<1> DEFINE after == [b \in DOMAIN client.data |-> client.data[b].position]
<1>1. after \in Partial(Nat) /\ DOMAIN after = DOMAIN client.data /\ \A b \in DOMAIN client.data : after[b] = client.data[b].position
  <2>1. DOMAIN client.data \in SUBSET Buckets /\ \A b \in DOMAIN client.data : client.data[b].position \in Nat
    BY StreamFields, ClientFields, PartialFields, DataAt
  <2>2. after \in [DOMAIN client.data -> Nat]
    BY <2>1
  <2> QED BY <2>1, <2>2, PartialIs
<1> HIDE DEF after
<1>2. conn' = [Closed EXCEPT !.step = "idle", !.after = after, !.positions = after]
      /\ client' = [client EXCEPT !.target = << >>] /\ UNCHANGED <<compactVars, bucketsAt, disconnects>>
  BY DEF Connect, after
<1>3. client' \in ClientState /\ client'.data = client.data
  BY <1>2, StreamFields, EmptyFunction DEF ClientState
<1>4. conn' \in ConnState /\ conn'.step = "idle" /\ conn'.after = after /\ conn'.positions = after
      /\ conn'.builder = "off" /\ conn'.watched = -1
      /\ conn'.hasSent = FALSE /\ conn'.pending = {} /\ DOMAIN conn'.lastChecksums = {} /\ conn'.rows = {}
  <2> HIDE DEF Closed
  <2> QED BY <1>1, <1>2, ClosedIs DEF ConnState
<1>5. FirstOK(conn', client')
  BY <1>1, <1>3, <1>4 DEF FirstOK
<1>6. StreamOK(conn', client', bucketsAt)
  BY <1>3, <1>4, <1>5, NoRowsOK DEF StreamOK
<1> QED BY <1>2, <1>6, StreamFields, StreamStep

LEMMA Disconnect_Inv ==
  ASSUME StreamInv, Disconnect
  PROVE  StreamInv'
<1>1. conn' = Closed /\ client' = client /\ UNCHANGED <<compactVars, bucketsAt>>
  BY DEF Disconnect
<1>2. disconnects' \in 0..MaxDisconnects
  BY StreamFields, StreamLimitsAssumption DEF Disconnect
<1> QED BY <1>1, <1>2, ClosedOK, StreamFields, StreamStep

(* A wait that the server starts or that the watcher ends. *)
LEMMA Waits_Inv ==
  ASSUME StreamInv, StartBuilder \/ WatchCheckpoint
  PROVE  StreamInv'
<1>0. StreamOK(conn, client, bucketsAt) /\ BucketsOK(bucketsAt, checkpoint)
  BY StreamFields
<1>1. UNCHANGED <<compactVars, bucketsAt, client, disconnects>>
  BY DEF StartBuilder, WatchCheckpoint
<1>2. conn.step # "closed"
  BY <1>0, ClosedIs DEF StartBuilder, WatchCheckpoint, StreamOK
<1>3. PICK w \in DOMAIN bucketsAt \cup {-1}, x \in {"watching", "building"} :
        /\ conn' = [conn EXCEPT !.builder = x, !.watched = w]
        /\ x = "building" => w \in DOMAIN bucketsAt
  <2>1. CASE StartBuilder
    <3>1. conn' = [conn EXCEPT !.builder = "watching", !.watched = conn.watched]
      BY <2>1, StreamFields DEF StartBuilder, ConnState
    <3>2. conn.watched \in DOMAIN bucketsAt \cup {-1}
      BY <1>0 DEF StreamOK
    <3> QED BY <3>1, <3>2
  <2>2. CASE WatchCheckpoint
    <3>1. Watchable \subseteq DOMAIN bucketsAt
      BY <1>0 DEF Watchable, BucketsOK
    <3> QED BY <2>2, <3>1 DEF WatchCheckpoint
  <2> QED BY <2>1, <2>2
<1>4. w \in Nat \cup {-1}
  BY <1>0 DEF BucketsOK
<1>5. conn' \in ConnState
  BY <1>3, <1>4, StreamFields DEF ConnState
<1>6. conn'.step = conn.step /\ conn'.after = conn.after /\ conn'.line = conn.line /\ conn'.lastChecksums = conn.lastChecksums
      /\ conn'.hasSent = conn.hasSent /\ conn'.positions = conn.positions /\ conn'.pending = conn.pending
      /\ conn'.todo = conn.todo /\ conn'.rows = conn.rows /\ conn'.builder = x /\ conn'.watched = w
  BY <1>3, StreamFields DEF ConnState
<1>7. StreamOK(conn', client, bucketsAt)
  <2>1. RowsOK(conn.rows) /\ (conn.step # "sending" => conn.rows = {}) /\ \A p \in conn.rows : p[1] \in Current(conn)
    BY <1>0 DEF StreamOK
  <2>2. Current(conn') = Current(conn)
    BY <1>6 DEF Current
  <2>3. client \in ClientState
    BY StreamFields
  <2> QED BY <1>0, <1>2, <1>3, <1>5, <1>6, <2>1, <2>2, <2>3, StreamMoves
<1> QED BY <1>1, <1>7, StreamFields, StreamStep

-----------------------------------------------------------------------------
(***************************************************************************)
(* The line that is built for the checkpoint of the watcher.               *)
(***************************************************************************)
BuiltSums == [b \in bucketsAt[conn.watched] |-> Checksum(b, conn.watched)]

Changed == {b \in DOMAIN BuiltSums : IsUpdated(b, conn.lastChecksums, BuiltSums)}

BuiltLine ==
  [checkpoint |-> conn.watched, full |-> ~conn.hasSent, sums |-> BuiltSums, updated |-> Changed,
   removed |-> Removed(BuiltSums), fetch |-> Fetch(Changed, BuiltSums)]

LEMMA ChecksumIs ==
  ASSUME CompactInv, NEW b \in Buckets, NEW k
  PROVE  LET ops == Between(bucket_data[b], 0, k)
         IN  /\ Checksum(b, k) \in Checksums
             /\ Checksum(b, k).checksum = SumChecksums(ops) /\ Checksum(b, k).count = Cardinality(ops)
<1> DEFINE ops == Between(bucket_data[b], 0, k)
<1>1. IsFiniteSet(ops) /\ ops \subseteq Op
  BY BucketIsOps, BetweenIs DEF CompactInv
<1>2. SumChecksums(ops) \in Nat /\ Cardinality(ops) \in Nat
  BY <1>1, SumType, FS_CardinalityType
<1>3. Checksum(b, k) = [checksum |-> SumChecksums(ops), count |-> Cardinality(ops)]
  BY DEF Checksum
<1> HIDE DEF ops
<1>4. Checksum(b, k) \in Checksums /\ Checksum(b, k).checksum = SumChecksums(ops) /\ Checksum(b, k).count = Cardinality(ops)
  BY <1>2, <1>3 DEF Checksums
<1> QED BY <1>4 DEF ops

LEMMA BuiltIs ==
  ASSUME StreamInv, conn.builder = "building"
  PROVE  /\ conn.step # "closed" /\ conn.watched \in DOMAIN bucketsAt /\ conn.watched \in Nat
         /\ BuiltSums \in Partial(Checksums) /\ DOMAIN BuiltSums = bucketsAt[conn.watched]
         /\ \A b \in bucketsAt[conn.watched] : b \in Buckets /\ BuiltSums[b] = Checksum(b, conn.watched)
         /\ BuiltLine \in Line
<1>0. StreamOK(conn, client, bucketsAt) /\ BucketsOK(bucketsAt, checkpoint) /\ conn \in ConnState /\ CompactInv
  BY StreamFields
<1>1. conn.step # "closed"
  BY <1>0, ClosedIs DEF StreamOK
<1>2. conn.watched \in DOMAIN bucketsAt
  BY <1>0 DEF StreamOK
<1>3. conn.watched \in Nat /\ bucketsAt[conn.watched] \in SUBSET Buckets
  BY <1>0, <1>2, BucketsAssumption DEF BucketsOK
<1>4. \A b \in bucketsAt[conn.watched] : Checksum(b, conn.watched) \in Checksums
  BY <1>0, <1>3, ChecksumIs
<1>5. BuiltSums \in [bucketsAt[conn.watched] -> Checksums]
  BY <1>4 DEF BuiltSums
<1>6. BuiltSums \in Partial(Checksums) /\ DOMAIN BuiltSums = bucketsAt[conn.watched]
  BY <1>3, <1>5, PartialIs
<1>7. conn.lastChecksums \in Partial(Checksums) /\ conn.hasSent \in BOOLEAN /\ conn.pending \in SUBSET Buckets
  BY <1>0, ConnFields
<1>8. DOMAIN conn.lastChecksums \in SUBSET Buckets
  BY <1>7, PartialFields
<1>9. Changed \in SUBSET Buckets /\ Removed(BuiltSums) \in SUBSET Buckets /\ Fetch(Changed, BuiltSums) \in SUBSET Buckets
  BY <1>3, <1>6, <1>7, <1>8 DEF Changed, Removed, Fetch
<1>10. BuiltLine \in Line
  <2> HIDE DEF BuiltSums, Changed
  <2> QED BY <1>3, <1>6, <1>7, <1>9 DEF BuiltLine, Line
<1>11. \A b \in bucketsAt[conn.watched] : b \in Buckets /\ BuiltSums[b] = Checksum(b, conn.watched)
  BY <1>3 DEF BuiltSums
<1> QED BY <1>1, <1>2, <1>3, <1>6, <1>10, <1>11

LEMMA BuildLineIs ==
  ASSUME StreamInv, BuildLine
  PROVE  /\ conn.builder = "building" /\ conn' \in ConnState
         /\ conn'.step = conn.step /\ conn'.after = conn.after /\ conn'.line = conn.line
         /\ conn'.lastChecksums = conn.lastChecksums
         /\ conn'.hasSent = conn.hasSent /\ conn'.positions = conn.positions /\ conn'.pending = conn.pending
         /\ conn'.todo = conn.todo /\ conn'.rows = conn.rows /\ conn'.watched = conn.watched
         /\ conn'.isFull = conn.isFull /\ conn'.hasMore = conn.hasMore /\ conn'.invalidated = conn.invalidated
         /\ \/ conn'.builder = "watching" /\ conn.hasSent /\ Changed = {} /\ Removed(BuiltSums) = {}
            \/ conn'.builder = "ready" /\ conn'.next = BuiltLine
<1>1. conn.builder = "building" /\ conn \in ConnState
  BY StreamFields DEF BuildLine
<1>2. conn' = IF conn.hasSent /\ Changed = {} /\ Removed(BuiltSums) = {} THEN [conn EXCEPT !.builder = "watching"]
              ELSE [conn EXCEPT !.builder = "ready", !.aborted = InLine, !.next = BuiltLine]
  BY DEF BuildLine, Changed, BuiltSums, BuiltLine, IsUpdated
<1>3. BuiltLine \in Line /\ InLine \in BOOLEAN
  BY <1>1, BuiltIs DEF InLine
<1> HIDE DEF BuiltLine, InLine, Changed, BuiltSums
<1>4. CASE conn' = [conn EXCEPT !.builder = "watching"] /\ conn.hasSent /\ Changed = {} /\ Removed(BuiltSums) = {}
  <2>1. conn' \in ConnState
    BY <1>1, <1>4 DEF ConnState
  <2> QED BY <1>1, <1>4, <2>1 DEF ConnState
<1>5. CASE conn' = [conn EXCEPT !.builder = "ready", !.aborted = InLine, !.next = BuiltLine]
  <2>1. conn' \in ConnState
    BY <1>1, <1>3, <1>5 DEF ConnState
  <2> QED BY <1>1, <1>5, <2>1 DEF ConnState
<1> QED BY <1>2, <1>4, <1>5

LEMMA BuildLine_Inv ==
  ASSUME StreamInv, BuildLine
  PROVE  StreamInv'
<1>0. StreamOK(conn, client, bucketsAt) /\ BucketsOK(bucketsAt, checkpoint) /\ client \in ClientState
  BY StreamFields
<1>1. UNCHANGED <<compactVars, bucketsAt, client, disconnects>>
  BY DEF BuildLine
<1>2. /\ conn.builder = "building" /\ conn' \in ConnState
      /\ conn'.step = conn.step /\ conn'.after = conn.after /\ conn'.line = conn.line
      /\ conn'.lastChecksums = conn.lastChecksums
      /\ conn'.hasSent = conn.hasSent /\ conn'.positions = conn.positions /\ conn'.pending = conn.pending
      /\ conn'.todo = conn.todo /\ conn'.rows = conn.rows /\ conn'.watched = conn.watched
      /\ conn'.builder \in {"watching", "ready"}
      /\ conn'.builder = "ready" => conn'.next = BuiltLine
  BY BuildLineIs
<1>3. /\ conn.step # "closed" /\ conn.watched \in DOMAIN bucketsAt
      /\ DOMAIN BuiltSums = bucketsAt[conn.watched]
  BY <1>2, BuiltIs
<1>4. conn'.builder = "ready" => NextOK(conn', bucketsAt)
  <2> SUFFICES ASSUME conn'.builder = "ready" PROVE NextOK(conn', bucketsAt)
    OBVIOUS
  <2>1. BuiltLine.checkpoint = conn.watched /\ BuiltLine.full = ~conn.hasSent /\ BuiltLine.sums = BuiltSums
        /\ BuiltLine.updated = Changed /\ BuiltLine.removed = Removed(BuiltSums) /\ BuiltLine.fetch = Fetch(Changed, BuiltSums)
    BY DEF BuiltLine
  <2>2. Fetch(Changed, BuiltSums) \subseteq DOMAIN BuiltSums
    BY DEF Fetch, Changed
  <2>3. Changed = {b \in DOMAIN BuiltSums : IsUpdated(b, conn.lastChecksums, BuiltSums)}
        /\ Removed(BuiltSums) = DOMAIN conn.lastChecksums \ DOMAIN BuiltSums
    BY DEF Changed, Removed
  <2> HIDE DEF BuiltLine, BuiltSums, Changed
  <2>4. conn'.next = BuiltLine
    BY <1>2
  <2> QED BY <1>2, <1>3, <2>1, <2>2, <2>3, <2>4 DEF NextOK
<1>5. StreamOK(conn', client, bucketsAt)
  <2>1. RowsOK(conn.rows) /\ (conn.step # "sending" => conn.rows = {}) /\ \A p \in conn.rows : p[1] \in Current(conn)
    BY <1>0 DEF StreamOK
  <2>2. Current(conn') = Current(conn)
    BY <1>2 DEF Current
  <2> QED BY <1>0, <1>2, <1>3, <1>4, <2>1, <2>2, StreamMoves
<1> QED BY <1>1, <1>5, StreamFields, StreamStep

-----------------------------------------------------------------------------
(* The client keeps the buckets of the line, and ends up with its checksums. *)
LEMMA SendLineIs ==
  ASSUME StreamInv, SendLine
  PROVE  LET line == conn.next
         IN  /\ NextOK(conn, bucketsAt) /\ line \in Line /\ conn.watched \in DOMAIN bucketsAt
             /\ conn.step = "idle" /\ conn.rows = {}
             /\ conn' \in ConnState /\ conn'.step = "batch" /\ conn'.builder = "off" /\ conn'.line = line
             /\ conn'.watched = conn.watched /\ conn'.after = conn.after
             /\ conn'.lastChecksums = line.sums /\ conn'.hasSent
             /\ DOMAIN conn'.positions = DOMAIN line.sums
             /\ \A b \in DOMAIN line.sums : conn'.positions[b] = Get(conn.positions, b, 0)
             /\ conn'.pending = line.fetch /\ conn'.todo = line.fetch /\ conn'.rows = {}
             /\ client' \in ClientState /\ client'.checkpoint = line.checkpoint /\ client'.target = line.sums
             /\ DOMAIN client'.data = DOMAIN client.data \cap DOMAIN line.sums
             /\ \A b \in DOMAIN client'.data : client'.data[b] = client.data[b]
             /\ client'.applied = client.applied /\ client'.isComplete = client.isComplete
<1> DEFINE line == conn.next
<1>0. StreamOK(conn, client, bucketsAt) /\ client \in ClientState /\ conn \in ConnState
  BY StreamFields
<1>1. NextOK(conn, bucketsAt) /\ conn.watched \in DOMAIN bucketsAt /\ conn.rows = {} /\ conn.step = "idle"
  BY <1>0 DEF StreamOK, SendLine
<1>2. line \in Line /\ line.sums \in Partial(Checksums) /\ line.fetch \in SUBSET Buckets /\ line.checkpoint \in Nat
      /\ line.full \in BOOLEAN
  BY <1>0, ConnFields, LineFields
<1>3. DOMAIN line.sums \in SUBSET Buckets /\ \A b \in DOMAIN line.sums : line.sums[b] \in Checksums
  BY <1>2, PartialFields
<1>4. conn' = [conn EXCEPT
              !.step = "batch", !.builder = "off", !.next = NoLine, !.line = line,
              !.lastChecksums = line.sums, !.hasSent = TRUE, !.positions = Positions(line.sums),
              !.pending = line.fetch, !.todo = line.fetch, !.synced = 0, !.aborted = FALSE]
  BY DEF SendLine
<1>5. /\ Positions(line.sums) \in Partial(Nat) /\ DOMAIN Positions(line.sums) = DOMAIN line.sums
      /\ \A b \in DOMAIN line.sums : Positions(line.sums)[b] = Get(conn.positions, b, 0)
  <2>1. \A b \in DOMAIN conn.positions : conn.positions[b] \in Nat
    BY <1>0, ConnFields, PartialFields
  <2>2. \A b \in DOMAIN line.sums : Get(conn.positions, b, 0) \in Nat
    BY <2>1 DEF Get
  <2> HIDE DEF Get
  <2>3. Positions(line.sums) \in [DOMAIN line.sums -> Nat]
    BY <2>2 DEF Positions
  <2>4. \A b \in DOMAIN line.sums : Positions(line.sums)[b] = Get(conn.positions, b, 0)
    BY DEF Positions
  <2> QED BY <1>3, <2>3, <2>4, PartialIs
<1> HIDE DEF line
<1>6. conn' \in ConnState /\ conn'.step = "batch" /\ conn'.builder = "off" /\ conn'.line = line
      /\ conn'.watched = conn.watched /\ conn'.after = conn.after
      /\ conn'.lastChecksums = line.sums /\ conn'.hasSent /\ conn'.positions = Positions(line.sums)
      /\ conn'.pending = line.fetch /\ conn'.todo = line.fetch /\ conn'.rows = {}
  <2> DEFINE p == Positions(line.sums)
  <2>1. p \in Partial(Nat) /\ NoLine \in Line
    BY <1>5, NoLineIs
  <2> HIDE DEF p, NoLine
  <2>2. conn' = [conn EXCEPT
              !.step = "batch", !.builder = "off", !.next = NoLine, !.line = line,
              !.lastChecksums = line.sums, !.hasSent = TRUE, !.positions = p,
              !.pending = line.fetch, !.todo = line.fetch, !.synced = 0, !.aborted = FALSE]
    BY <1>4 DEF p
  <2>3. conn' \in ConnState
    BY <1>0, <1>2, <2>1, <2>2 DEF ConnState
  <2>4. conn'.positions = p
    BY <1>0, <2>2 DEF ConnState
  <2>5. conn'.step = "batch" /\ conn'.builder = "off" /\ conn'.line = line
        /\ conn'.watched = conn.watched /\ conn'.after = conn.after /\ conn'.lastChecksums = line.sums
        /\ conn'.pending = line.fetch /\ conn'.todo = line.fetch /\ conn'.rows = conn.rows
    BY <1>0, <2>2 DEF ConnState
  <2>6. conn'.hasSent = TRUE
    BY <1>0, <2>2 DEF ConnState
  <2> QED BY <1>1, <2>3, <2>4, <2>5, <2>6 DEF p
<1> DEFINE buckets == IF line.full THEN DOMAIN line.sums ELSE (DOMAIN client.target \ line.removed) \cup line.updated
           target == [b \in buckets |-> IF line.full \/ b \in line.updated THEN line.sums[b] ELSE client.target[b]]
           data == [b \in DOMAIN client.data \cap buckets |-> client.data[b]]
<1>7. client' = [client EXCEPT !.target = target, !.checkpoint = line.checkpoint, !.data = data]
  BY DEF SendLine, ReceiveLine, line
<1>8. buckets = DOMAIN line.sums /\ \A b \in DOMAIN line.sums :
        line.full \/ b \in line.updated \/ client.target[b] = line.sums[b]
  <2>1. CASE line.full
    BY <2>1
  <2>2. CASE ~line.full
    <3>1. conn.hasSent
      BY <1>1, <2>2 DEF NextOK, line
    <3>2. SentOK(conn, client, bucketsAt)
      BY <1>0, <3>1 DEF StreamOK
    <3>3. client.target = conn.lastChecksums
      BY <3>2 DEF SentOK
    <3>4. line.updated = {b \in DOMAIN line.sums : IsUpdated(b, conn.lastChecksums, line.sums)}
          /\ line.removed = DOMAIN conn.lastChecksums \ DOMAIN line.sums
      BY <1>1 DEF NextOK, line
    <3> QED BY <2>2, <3>3, <3>4 DEF IsUpdated
  <2> QED BY <2>1, <2>2
<1>9. target = line.sums
  <2>1. target = [b \in DOMAIN line.sums |-> line.sums[b]]
    BY <1>8
  <2>2. line.sums \in [DOMAIN line.sums -> Checksums]
    BY <1>2, PartialFields
  <2> QED BY <2>1, <2>2
<1>10. data \in Partial(BucketState) /\ DOMAIN data = DOMAIN client.data \cap DOMAIN line.sums
       /\ \A b \in DOMAIN data : data[b] = client.data[b]
  <2>1. \A b \in DOMAIN client.data : b \in Buckets /\ client.data[b] \in BucketState
    BY <1>0, DataAt
  <2>2. DOMAIN client.data \cap DOMAIN line.sums \in SUBSET Buckets
    BY <1>3
  <2>3. data \in [DOMAIN client.data \cap DOMAIN line.sums -> BucketState]
    BY <1>8, <2>1
  <2>4. \A b \in DOMAIN data : data[b] = client.data[b]
    BY <1>8
  <2> HIDE DEF data
  <2> QED BY <2>2, <2>3, <2>4, PartialIs
<1>11. client' \in ClientState /\ client'.checkpoint = line.checkpoint /\ client'.target = line.sums /\ client'.data = data
       /\ client'.applied = client.applied /\ client'.isComplete = client.isComplete
  <2> HIDE DEF data, target
  <2>1. client' = [client EXCEPT !.target = line.sums, !.checkpoint = line.checkpoint, !.data = data]
    BY <1>7, <1>9
  <2> QED BY <1>0, <1>2, <1>10, <2>1 DEF ClientState
<1> HIDE DEF data
<1> QED BY <1>1, <1>2, <1>5, <1>6, <1>10, <1>11 DEF line

LEMMA SendLine_Inv ==
  ASSUME StreamInv, SendLine
  PROVE  StreamInv'
<1> DEFINE line == conn.next
<1>0. StreamOK(conn, client, bucketsAt) /\ client \in ClientState /\ conn \in ConnState
  BY StreamFields
<1>1. UNCHANGED <<compactVars, bucketsAt, disconnects>>
  BY DEF SendLine
<1>2.        /\ NextOK(conn, bucketsAt) /\ line \in Line /\ conn.watched \in DOMAIN bucketsAt
             /\ conn' \in ConnState /\ conn'.step = "batch" /\ conn'.builder = "off" /\ conn'.line = line
             /\ conn'.watched = conn.watched
             /\ conn'.lastChecksums = line.sums /\ conn'.hasSent
             /\ DOMAIN conn'.positions = DOMAIN line.sums
             /\ \A b \in DOMAIN line.sums : conn'.positions[b] = Get(conn.positions, b, 0)
             /\ conn'.pending = line.fetch /\ conn'.todo = line.fetch /\ conn'.rows = {}
             /\ client' \in ClientState /\ client'.checkpoint = line.checkpoint /\ client'.target = line.sums
             /\ DOMAIN client'.data = DOMAIN client.data \cap DOMAIN line.sums
             /\ \A b \in DOMAIN client'.data : client'.data[b] = client.data[b]
  BY SendLineIs
<1> HIDE DEF line
<1>3. line.checkpoint = conn.watched /\ DOMAIN line.sums = bucketsAt[conn.watched] /\ line.fetch \subseteq DOMAIN line.sums
  BY <1>2 DEF NextOK, line
<1>4. \A b \in DOMAIN line.sums : Get(conn.positions, b, 0) = PositionAt(client, b)
  <2>1. CASE conn.hasSent
    <3>1. SentOK(conn, client, bucketsAt)
      BY <1>0, <2>1 DEF StreamOK
    <3> QED BY <3>1, EmptyBucketIs DEF SentOK, Get, PositionAt
  <2>2. CASE ~conn.hasSent
    <3>1. FirstOK(conn, client) /\ conn.step = "idle"
      BY <1>0, <2>2 DEF StreamOK, SendLine
    <3> QED BY <3>1, EmptyBucketIs DEF FirstOK, Get, PositionAt
  <2> QED BY <2>1, <2>2
<1>5. \A b \in DOMAIN line.sums : PositionAt(client, b) = PositionAt(client', b)
  BY <1>2 DEF PositionAt, Get
<1>6. SentOK(conn', client', bucketsAt)
  <2> HIDE DEF PositionAt, Get
  <2> QED BY <1>2, <1>3, <1>4, <1>5 DEF SentOK
<1>7. StreamOK(conn', client', bucketsAt)
  BY <1>2, <1>6, NoRowsOK DEF StreamOK
<1> QED BY <1>1, <1>7, StreamFields, StreamStep

-----------------------------------------------------------------------------
(***************************************************************************)
(* A batch: the first rows of what is left to download, and a data line of *)
(* it: the first rows of its first bucket.                                 *)
(***************************************************************************)
InQuery(p) ==
  /\ p[1] \in Current(conn) /\ p[1] \in DOMAIN conn.positions
  /\ p[2] \in Between(bucket_data[p[1]], conn.positions[p[1]], conn.line.checkpoint)

LeftRows == {p \in Buckets \X Op : InQuery(p)}

LEMMA LineBuckets ==
  ASSUME StreamInv, conn.step \in {"batch", "sending"}
  PROVE  /\ conn.hasSent /\ SentOK(conn, client, bucketsAt)
         /\ IsFiniteSet(conn.todo) /\ conn.todo \subseteq Buckets /\ conn.todo \subseteq DOMAIN conn.positions
<1>0. StreamOK(conn, client, bucketsAt) /\ BucketsOK(bucketsAt, checkpoint) /\ conn \in ConnState
  BY StreamFields
<1>1. conn.hasSent
  BY <1>0 DEF StreamOK, FirstOK
<1>2. SentOK(conn, client, bucketsAt)
  BY <1>0, <1>1 DEF StreamOK
<1>3. bucketsAt[conn.line.checkpoint] \in BucketSets
  BY <1>0, <1>2 DEF SentOK, BucketsOK
<1>4. conn.todo \in SUBSET bucketsAt[conn.line.checkpoint] /\ conn.todo \subseteq DOMAIN conn.positions
  BY <1>2 DEF SentOK
<1>5. IsFiniteSet(conn.todo) /\ conn.todo \subseteq Buckets
  BY <1>3, <1>4, BucketsAssumption, FS_Subset
<1> QED BY <1>1, <1>2, <1>4, <1>5

LEMMA LeftOK ==
  ASSUME StreamInv, conn.step \in {"batch", "sending"}
  PROVE  RowsOK(LeftRows)
<1>0. StorageOK /\ op_id \in Nat
  BY StreamFields DEF CompactInv
<1>1. \A p \in LeftRows : p = <<p[1], p[2]>> /\ p[1] \in Buckets /\ p[1] \in conn.todo /\ p[2] \in bucket_data[p[1]]
  BY DEF LeftRows, InQuery, Current, Between
<1>2. \A b \in Buckets : bucket_data[b] \subseteq Op /\ OwnIds(bucket_data[b], op_id)
  BY <1>0, BucketIsOps DEF StorageOK
<1>3. \A p \in LeftRows : p[2] \in Op /\ p[2].op_id \in 0..op_id
  BY <1>0, <1>1, <1>2, OpFields DEF OwnIds
<1>4. \A p, q \in LeftRows : p[1] = q[1] /\ p[2].op_id = q[2].op_id => p = q
  BY <1>1, <1>2 DEF OwnIds
<1> DEFINE f == [p \in LeftRows |-> <<p[1], p[2].op_id>>]
           T == conn.todo \X (0..op_id)
<1>5. f \in [LeftRows -> T]
  BY <1>1, <1>3
<1>6. \A p, q \in LeftRows : f[p] = f[q] => p = q
  <2> SUFFICES ASSUME NEW p \in LeftRows, NEW q \in LeftRows, f[p] = f[q] PROVE p = q
    OBVIOUS
  <2>1. <<p[1], p[2].op_id>> = <<q[1], q[2].op_id>>
    OBVIOUS
  <2> QED BY <1>4, <2>1
<1>7. IsFiniteSet(T)
  <2>1. IsFiniteSet(0..op_id)
    BY <1>0, FS_Interval
  <2> QED BY <2>1, LineBuckets, FS_Product
<1>8. f \in Injection(LeftRows, T)
  <2> HIDE DEF f, T
  <2> QED BY <1>5, <1>6 DEF Injection, IsInjective
<1>9. IsFiniteSet(LeftRows)
  <2> HIDE DEF f, T
  <2> QED BY <1>7, <1>8, FS_Injection
<1>10. LeftRows \subseteq Buckets \X Op
  BY DEF LeftRows
<1> QED BY <1>4, <1>9, <1>10 DEF RowsOK

LEMMA QueryIs ==
  ASSUME StreamInv, conn.step \in {"batch", "sending"}, NEW limit
  PROVE  QueryRows(limit) = FirstOf(LeftRows, limit)
<1> DEFINE all == UNION {{<<b, o>> : o \in Between(bucket_data[b], conn.positions[b], conn.line.checkpoint)} :
                      b \in CurrentBuckets \cap DOMAIN conn.positions}
<1>1. CurrentBuckets = Current(conn)
  BY DEF CurrentBuckets, Current
<1>2. \A b \in CurrentBuckets : b \in Buckets /\ bucket_data[b] \subseteq Op
  BY LineBuckets, BucketIsOps, StreamFields DEF CurrentBuckets, CompactInv
<1>3. all \subseteq LeftRows
  <2> SUFFICES ASSUME NEW b \in CurrentBuckets \cap DOMAIN conn.positions,
                      NEW o \in Between(bucket_data[b], conn.positions[b], conn.line.checkpoint)
               PROVE  <<b, o>> \in LeftRows
    OBVIOUS
  <2>1. b \in Buckets /\ o \in Op
    BY <1>2 DEF Between
  <2> QED BY <1>1, <2>1 DEF LeftRows, InQuery
<1>4. LeftRows \subseteq all
  <2> SUFFICES ASSUME NEW p \in LeftRows PROVE p \in all
    OBVIOUS
  <2>1. p = <<p[1], p[2]>> /\ p[1] \in CurrentBuckets \cap DOMAIN conn.positions
        /\ p[2] \in Between(bucket_data[p[1]], conn.positions[p[1]], conn.line.checkpoint)
    BY <1>1 DEF LeftRows, InQuery
  <2> QED BY <2>1
<1>5. QueryRows(limit) = {p \in all : Cardinality({q \in all : Before(q, p)}) < limit}
  BY DEF QueryRows
<1> HIDE DEF all
<1>6. all = LeftRows
  BY <1>3, <1>4
<1> QED BY <1>5, <1>6 DEF FirstOf, Earlier

LEMMA StartBatchIs ==
  ASSUME StreamInv, StartBatch
  PROVE  LET rows == FirstOf(LeftRows, BatchLimit)
         IN  /\ conn' \in ConnState /\ conn'.step = "sending" /\ conn'.builder = conn.builder
             /\ conn'.next = conn.next /\ conn'.line = conn.line
             /\ conn'.watched = conn.watched /\ conn'.after = conn.after
             /\ conn'.lastChecksums = conn.lastChecksums /\ conn'.hasSent = conn.hasSent
             /\ conn'.positions = conn.positions /\ conn'.pending = conn.pending /\ conn'.todo = conn.todo
             /\ conn'.rows = rows /\ RowsOK(rows) /\ rows \subseteq LeftRows
             /\ conn'.isFull = (Cardinality(rows) = BatchLimit)
             /\ conn'.hasMore = FALSE /\ conn'.invalidated = FALSE
<1> DEFINE rows == FirstOf(LeftRows, BatchLimit)
<1>1. conn.step = "batch" /\ conn \in ConnState
  BY StreamFields DEF StartBatch
<1>2. rows \in SUBSET LeftRows
  BY DEF FirstOf
<1>3. RowsOK(rows) /\ rows \in SUBSET (Buckets \X Op)
  BY <1>1, <1>2, LeftOK, RowsSubset DEF RowsOK
<1> DEFINE full == (Cardinality(rows) = BatchLimit)
<1>4. conn' = [conn EXCEPT !.step = "sending", !.rows = rows, !.isFull = full, !.hasMore = FALSE, !.invalidated = FALSE]
  BY <1>1, QueryIs DEF StartBatch
<1>5. full \in BOOLEAN
  OBVIOUS
<1> HIDE DEF rows, full
<1>6. conn' \in ConnState
  BY <1>1, <1>3, <1>4, <1>5 DEF ConnState
<1>7. /\ conn'.step = "sending" /\ conn'.builder = conn.builder
      /\ conn'.next = conn.next /\ conn'.line = conn.line
      /\ conn'.watched = conn.watched /\ conn'.after = conn.after
      /\ conn'.lastChecksums = conn.lastChecksums
      /\ conn'.positions = conn.positions /\ conn'.pending = conn.pending /\ conn'.todo = conn.todo
      /\ conn'.rows = rows
  BY <1>1, <1>4 DEF ConnState
<1>8. conn'.hasSent = conn.hasSent /\ conn'.isFull = full /\ conn'.hasMore = FALSE /\ conn'.invalidated = FALSE
  BY <1>1, <1>4 DEF ConnState
<1> QED BY <1>2, <1>3, <1>6, <1>7, <1>8 DEF rows, full

(* Whether the wait goes on, or a line is ready, does not depend on where the loop is. *)
LEMMA NextSame ==
  ASSUME NEW B, NEW q, NextOK(q, B), NEW r, r.next = q.next, r.watched = q.watched, r.hasSent = q.hasSent,
         r.lastChecksums = q.lastChecksums
  PROVE  NextOK(r, B)
BY DEF NextOK

LEMMA StartBatch_Inv ==
  ASSUME StreamInv, StartBatch
  PROVE  StreamInv'
<1>0. StreamOK(conn, client, bucketsAt) /\ client \in ClientState
  BY StreamFields
<1>1. UNCHANGED <<compactVars, bucketsAt, client, disconnects>> /\ conn.step = "batch"
  BY DEF StartBatch
<1>2.        /\ conn' \in ConnState /\ conn'.step = "sending" /\ conn'.builder = conn.builder
             /\ conn'.next = conn.next /\ conn'.line = conn.line
             /\ conn'.watched = conn.watched /\ conn'.after = conn.after
             /\ conn'.lastChecksums = conn.lastChecksums /\ conn'.hasSent = conn.hasSent
             /\ conn'.positions = conn.positions /\ conn'.pending = conn.pending /\ conn'.todo = conn.todo
             /\ RowsOK(conn'.rows) /\ conn'.rows \subseteq LeftRows
  BY StartBatchIs
<1>3. conn.hasSent
  BY <1>1, LineBuckets
<1>4. conn.builder = "ready" => NextOK(conn', bucketsAt)
  BY <1>0, <1>2, NextSame DEF StreamOK
<1>5. \A p \in conn'.rows : p[1] \in Current(conn')
  BY <1>2 DEF LeftRows, InQuery, Current
<1>6. /\ conn.watched \in DOMAIN bucketsAt \cup {-1}
      /\ conn.builder \in {"building", "ready"} => conn.watched \in DOMAIN bucketsAt
  BY <1>0 DEF StreamOK
<1>7. StreamOK(conn', client, bucketsAt)
  BY <1>0, <1>1, <1>2, <1>3, <1>4, <1>5, <1>6, StreamMoves
<1> QED BY <1>1, <1>7, StreamFields, StreamStep

(* The loop goes on with another step, other buckets, and what the client has published. *)
LEMMA LoopMoves ==
  ASSUME StreamInv, conn.step \in {"batch", "sending"}, conn.rows = {},
         NEW step \in {"idle", "batch"}, NEW todo \in SUBSET conn.todo,
         conn' = [conn EXCEPT !.step = step, !.todo = todo],
         client' \in ClientState, client'.target = client.target, client'.checkpoint = client.checkpoint,
         client'.data = client.data, UNCHANGED <<compactVars, bucketsAt, disconnects>>
  PROVE  /\ StreamInv'
         /\ conn' \in ConnState /\ conn'.step = step /\ conn'.todo = todo /\ conn'.builder = conn.builder
         /\ conn'.next = conn.next /\ conn'.line = conn.line
         /\ conn'.watched = conn.watched /\ conn'.after = conn.after
         /\ conn'.lastChecksums = conn.lastChecksums /\ conn'.hasSent = conn.hasSent
         /\ conn'.positions = conn.positions /\ conn'.pending = conn.pending /\ conn'.rows = conn.rows
<1>0. StreamOK(conn, client, bucketsAt) /\ conn \in ConnState
  BY StreamFields
<1>1. todo \in SUBSET Buckets
  BY LineBuckets
<1>2. conn' \in ConnState
  BY <1>0, <1>1 DEF ConnState
<1>3. /\ conn'.step = step /\ conn'.todo = todo /\ conn'.builder = conn.builder
      /\ conn'.next = conn.next /\ conn'.line = conn.line
      /\ conn'.watched = conn.watched /\ conn'.after = conn.after
      /\ conn'.lastChecksums = conn.lastChecksums
      /\ conn'.positions = conn.positions /\ conn'.pending = conn.pending /\ conn'.rows = conn.rows
  BY <1>0 DEF ConnState
<1>4. conn'.hasSent = conn.hasSent /\ conn.hasSent
  BY <1>0, LineBuckets DEF ConnState
<1>5. conn.builder = "ready" => NextOK(conn', bucketsAt)
  BY <1>0, <1>3, <1>4, NextSame DEF StreamOK
<1>6. /\ conn.watched \in DOMAIN bucketsAt \cup {-1}
      /\ conn.builder \in {"building", "ready"} => conn.watched \in DOMAIN bucketsAt
  BY <1>0 DEF StreamOK
<1>7. StreamOK(conn', client', bucketsAt)
  <2>1. conn'.rows = {} /\ RowsOK(conn'.rows) /\ conn.step # "closed" /\ conn'.step # "closed"
    BY <1>3, NoRowsOK
  <2>2. conn'.watched \in DOMAIN bucketsAt \cup {-1} /\ conn'.todo \subseteq conn.todo
    BY <1>3, <1>6
  <2>3. /\ conn'.builder \in {"building", "ready"} => conn'.watched \in DOMAIN bucketsAt
        /\ conn'.builder = "ready" => NextOK(conn', bucketsAt)
    BY <1>3, <1>5, <1>6
  <2>4. \A p \in conn'.rows : p[1] \in Current(conn')
    BY <2>1
  <2> QED BY <1>0, <1>2, <1>3, <1>4, <2>1, <2>2, <2>3, <2>4, StreamMoves
<1>8. disconnects' \in 0..MaxDisconnects
  BY StreamFields
<1>9. StreamInv'
  BY <1>7, <1>8, StreamStep
<1> QED BY <1>2, <1>3, <1>4, <1>9

LEMMA Interrupt_Inv ==
  ASSUME StreamInv, Interrupt
  PROVE  StreamInv'
<1>1. conn.step = "batch" /\ UNCHANGED <<compactVars, bucketsAt, client, disconnects>> /\ conn \in ConnState
  BY StreamFields DEF Interrupt
<1>2. conn' = [conn EXCEPT !.step = "idle", !.todo = conn.todo]
  BY <1>1 DEF Interrupt, ConnState
<1>3. conn.rows = {} /\ client \in ClientState
  BY <1>1, StreamFields DEF StreamOK
<1> QED BY <1>1, <1>2, <1>3, LoopMoves

-----------------------------------------------------------------------------
(***************************************************************************)
(* A data line: the first rows of the first bucket.                        *)
(***************************************************************************)
FirstRow(R) == CHOOSE p \in R : \A q \in R : ~Before(q, p)

Chunk(R) == {p \in R : p[1] = FirstRow(R)[1] /\ Cardinality({q \in R : Before(q, p)}) < ChunkLimit}

ChunkOps(R) == {p[2] : p \in Chunk(R)}

LEMMA ChunkIs ==
  ASSUME NEW R, RowsOK(R), R # {}
  PROVE  LET b == FirstRow(R)[1]
             ops == ChunkOps(R)
         IN  /\ FirstRow(R) \in R /\ b \in Buckets
             /\ \A o : o \in ops <=> <<b, o>> \in Chunk(R)
             /\ Chunk(R) \subseteq R /\ \A p \in Chunk(R) : p[1] = b /\ p[2] \in ops
             /\ ops # {} /\ IsOps(ops) /\ Cardinality(ops) \in Nat
             /\ LastOp(ops) \in ops /\ LastOp(ops).op_id \in Nat
<1> DEFINE b == FirstRow(R)[1]
           ops == ChunkOps(R)
<1>1. FirstRow(R) \in R /\ \A q \in R : ~Before(q, FirstRow(R))
  <2>1. \E p \in R : \A q \in R : ~Before(q, p)
    BY FirstExists
  <2> QED BY <2>1 DEF FirstRow
<1>2. Chunk(R) \in SUBSET R /\ \A p \in Chunk(R) : p[1] = b /\ p[2] \in ops /\ p = <<b, p[2]>>
  <2>1. Chunk(R) \in SUBSET R /\ \A p \in Chunk(R) : p[1] = b /\ p[2] \in ops
    BY DEF Chunk, ChunkOps
  <2> HIDE DEF b, ops
  <2> QED BY <2>1, RowFields
<1>3. FirstRow(R) \in Chunk(R)
  <2>1. {q \in R : Before(q, FirstRow(R))} = {}
    BY <1>1
  <2>2. Cardinality({q \in R : Before(q, FirstRow(R))}) = 0
    BY <2>1, FS_EmptySet
  <2>3. 0 < ChunkLimit
    BY StreamLimitsAssumption
  <2> QED BY <1>1, <2>2, <2>3 DEF Chunk
<1>4. \A o \in ops : <<b, o>> \in Chunk(R)
  <2> SUFFICES ASSUME NEW o \in ops PROVE <<b, o>> \in Chunk(R)
    OBVIOUS
  <2>1. PICK p \in Chunk(R) : o = p[2]
    BY DEF ChunkOps
  <2> HIDE DEF b, ops
  <2> QED BY <1>2, <2>1
<1>5. \A o : <<b, o>> \in Chunk(R) => o \in ops
  <2> SUFFICES ASSUME NEW o, <<b, o>> \in Chunk(R) PROVE o \in ops
    OBVIOUS
  <2>1. <<b, o>>[2] = o
    OBVIOUS
  <2> QED BY <1>2, <2>1
<1> HIDE DEF b, ops
<1>6. ops \in SUBSET Op
  <2>1. \A o \in ops : o = <<b, o>>[2] /\ <<b, o>> \in R
    BY <1>2, <1>4
  <2> QED BY <2>1, RowFields
<1>7. \A o, p \in ops : o.op_id = p.op_id => o = p
  <2> SUFFICES ASSUME NEW o \in ops, NEW p \in ops, o.op_id = p.op_id PROVE o = p
    OBVIOUS
  <2>1. <<b, o>> \in R /\ <<b, p>> \in R
    BY <1>2, <1>4
  <2>2. <<b, o>>[1] = <<b, p>>[1] /\ <<b, o>>[2].op_id = <<b, p>>[2].op_id
    OBVIOUS
  <2>3. <<b, o>> = <<b, p>>
    BY <2>1, <2>2 DEF RowsOK
  <2> QED BY <2>3
<1>8. IsFiniteSet(ops)
  <2> DEFINE f == [o \in ops |-> <<b, o>>]
  <2>1. f \in [ops -> Chunk(R)] /\ \A o, p \in ops : f[o] = f[p] => o = p
    BY <1>4
  <2>2. f \in Injection(ops, Chunk(R))
    <3> HIDE DEF f
    <3> QED BY <2>1 DEF Injection, IsInjective
  <2>3. IsFiniteSet(Chunk(R))
    BY <1>2, FS_Subset DEF RowsOK
  <2> HIDE DEF f
  <2> QED BY <2>2, <2>3, FS_Injection
<1>9. IsOps(ops)
  BY <1>6, <1>7, <1>8 DEF IsOps
<1>10. ops # {}
  BY <1>2, <1>3
<1>11. LastOp(ops) \in ops
  BY <1>6, <1>8, <1>10, LastOpMax
<1>12. LastOp(ops).op_id \in Nat /\ Cardinality(ops) \in Nat
  BY <1>6, <1>8, <1>11, OpFields, FS_CardinalityType
<1>13. FirstRow(R)[1] \in Buckets
  BY <1>1, RowFields
<1> QED BY <1>1, <1>2, <1>4, <1>5, <1>9, <1>10, <1>11, <1>12, <1>13 DEF b, ops

LEMMA MinType ==
  ASSUME NEW m \in Nat, NEW n \in Nat
  PROVE  Min({m, n}) \in Nat
<1>1. \E x \in {m, n} : \A y \in {m, n} : x <= y
  BY SMT
<1>2. Min({m, n}) \in {m, n}
  BY <1>1 DEF Min
<1> QED BY <1>2

(* Rows of the bucket that this batch has not sent. *)
MoreRows ==
  LET rest == conn.rows \ Chunk(conn.rows)
  IN IF rest = {} THEN conn.isFull ELSE \E p \in rest : p[1] = FirstRow(conn.rows)[1]

Received(C, b, ops) ==
  [position |-> LastOp(ops).op_id, reduced |-> Reduce(Get(C.data, b, NoData).reduced, ops)]

Added(C, b, v) == [d \in DOMAIN C.data \cup {b} |-> IF d = b THEN v ELSE C.data[d]]

LEMMA DataAdd ==
  ASSUME NEW C \in ClientState, NEW b \in Buckets, NEW v \in BucketState
  PROVE  LET data == Added(C, b, v)
         IN  /\ data \in Partial(BucketState) /\ DOMAIN data = DOMAIN C.data \cup {b} /\ data[b] = v
             /\ \A x \in DOMAIN C.data : x # b => data[x] = C.data[x]
<1> DEFINE f == C.data
           data == Added(C, b, v)
<1>1. f \in Partial(BucketState)
  BY ClientFields
<1>2. DOMAIN f \in SUBSET Buckets /\ \A x \in DOMAIN f : f[x] \in BucketState
  BY <1>1, PartialFields
<1> DEFINE S == DOMAIN f \cup {b}
<1>3. S \in SUBSET Buckets /\ data \in [S -> BucketState]
  BY <1>2 DEF Added
<1>4. data[b] = v /\ \A x \in DOMAIN f : x # b => data[x] = f[x]
  BY DEF Added
<1>5. data \in Partial(BucketState) /\ DOMAIN data = S
  <2> HIDE DEF S, data
  <2> QED BY <1>3, PartialIs
<1> QED BY <1>4, <1>5

LEMMA SendChunkIs ==
  ASSUME StreamInv, SendChunk
  PROVE  LET b == FirstRow(conn.rows)[1]
             ops == ChunkOps(conn.rows)
             rest == conn.rows \ Chunk(conn.rows)
         IN  /\ conn.step = "sending" /\ conn.rows # {} /\ RowsOK(conn.rows) /\ b \in conn.todo
             /\ conn' \in ConnState
             /\ (conn'.step = "idle" /\ conn'.rows = {}) \/ (conn'.step = "sending" /\ conn'.rows = rest)
             /\ conn'.builder = conn.builder \/ (conn.builder = "off" /\ conn'.builder = "watching")
             /\ conn'.next = conn.next /\ conn'.line = conn.line
             /\ conn'.watched = conn.watched /\ conn'.after = conn.after
             /\ conn'.lastChecksums = conn.lastChecksums /\ conn'.hasSent = conn.hasSent
             /\ conn'.positions = [conn.positions EXCEPT ![b] = LastOp(ops).op_id]
             /\ conn'.pending = (IF MoreRows THEN conn.pending ELSE conn.pending \ {b})
             /\ conn'.todo = conn.todo /\ conn'.isFull = conn.isFull
             /\ conn'.hasMore = (conn.hasMore \/ MoreRows)
             /\ client' \in ClientState /\ client'.checkpoint = client.checkpoint /\ client'.target = client.target
             /\ DOMAIN client'.data = DOMAIN client.data \cup {b}
             /\ client'.data[b] = Received(client, b, ops)
             /\ \A x \in DOMAIN client.data : x # b => client'.data[x] = client.data[x]
             /\ client'.applied = client.applied /\ client'.isComplete = client.isComplete
<1> DEFINE b == FirstRow(conn.rows)[1]
           ops == ChunkOps(conn.rows)
           rest == conn.rows \ Chunk(conn.rows)
           synced == Min({RaceAfter, conn.synced + Cardinality(ops)})
           last == LastOp(ops).op_id
<1>0. StreamOK(conn, client, bucketsAt) /\ client \in ClientState /\ conn \in ConnState
  BY StreamFields
<1>1. conn.step = "sending" /\ conn.rows # {} /\ RowsOK(conn.rows)
  BY <1>0 DEF SendChunk, StreamOK
<1>2. FirstRow(conn.rows) \in conn.rows /\ b \in Buckets /\ IsOps(ops) /\ Cardinality(ops) \in Nat /\ last \in Nat
  BY <1>1, ChunkIs
<1>3. b \in conn.todo /\ b \in DOMAIN conn.positions
  <2>1. b \in Current(conn)
    BY <1>0, <1>2 DEF StreamOK
  <2> QED BY <1>1, <2>1, LineBuckets DEF Current
<1>4. synced \in Nat
  BY <1>0, <1>2, ConnFields, MinType, StreamLimitsAssumption
<1>5. MoreRows \in BOOLEAN /\ rest \in SUBSET (Buckets \X Op) /\ conn.isFull \in BOOLEAN
  BY <1>0, ConnFields DEF MoreRows
<1>6. conn' = [conn EXCEPT
              !.rows = IF conn.aborted THEN {} ELSE rest,
              !.step = IF conn.aborted THEN "idle" ELSE "sending",
              !.hasMore = @ \/ MoreRows,
              !.invalidated = @ \/ MaxTarget(ops) > conn.line.checkpoint,
              !.positions[b] = last,
              !.pending = IF MoreRows THEN @ ELSE @ \ {b},
              !.synced = synced,
              !.builder = IF synced >= RaceAfter /\ @ = "off" THEN "watching" ELSE @]
  BY DEF SendChunk, MoreRows, Chunk, ChunkOps, FirstRow
<1>7. ReceiveData(b, ops)
  BY DEF SendChunk, MoreRows, Chunk, ChunkOps, FirstRow
<1> HIDE DEF b, ops, rest, synced, last
<1> DEFINE rows == IF conn.aborted THEN {} ELSE rest
           step == IF conn.aborted THEN "idle" ELSE "sending"
           hasMore == conn.hasMore \/ MoreRows
           invalidated == conn.invalidated \/ MaxTarget(ops) > conn.line.checkpoint
           positions == [conn.positions EXCEPT ![b] = last]
           pending == IF MoreRows THEN conn.pending ELSE conn.pending \ {b}
           builder == IF synced >= RaceAfter /\ conn.builder = "off" THEN "watching" ELSE conn.builder
<1>8. conn' = [conn EXCEPT !.rows = rows, !.step = step, !.hasMore = hasMore, !.invalidated = invalidated,
              !.positions = positions, !.pending = pending, !.synced = synced, !.builder = builder]
  BY <1>6
<1>9. /\ rows \in SUBSET (Buckets \X Op) /\ step \in {"idle", "sending"} /\ hasMore \in BOOLEAN /\ invalidated \in BOOLEAN
      /\ pending \in SUBSET Buckets /\ builder \in {"off", "watching", "building", "ready"}
      /\ (step = "idle" /\ rows = {}) \/ (step = "sending" /\ rows = rest)
      /\ builder = conn.builder \/ (conn.builder = "off" /\ builder = "watching")
  BY <1>0, <1>5, ConnFields
<1>10. positions \in Partial(Nat)
  <2>1. conn.positions \in Partial(Nat)
    BY <1>0, ConnFields
  <2>2. DOMAIN conn.positions \in SUBSET Buckets /\ conn.positions \in [DOMAIN conn.positions -> Nat]
    BY <2>1, PartialFields
  <2>3. last \in Nat
    BY <1>2 DEF last
  <2>4. positions \in [DOMAIN conn.positions -> Nat]
    BY <1>3, <2>2, <2>3
  <2> QED BY <2>2, <2>4, PartialIs
<1> HIDE DEF rows, step, hasMore, invalidated, positions, pending, builder
<1>11. conn' \in ConnState
  BY <1>0, <1>4, <1>8, <1>9, <1>10, ZenonT(40) DEF ConnState
<1>12. /\ conn'.next = conn.next /\ conn'.line = conn.line
       /\ conn'.watched = conn.watched /\ conn'.after = conn.after
       /\ conn'.lastChecksums = conn.lastChecksums /\ conn'.todo = conn.todo
       /\ conn'.rows = rows /\ conn'.step = step /\ conn'.positions = positions /\ conn'.pending = pending
       /\ conn'.builder = builder
  BY <1>0, <1>8 DEF ConnState
<1>13. conn'.hasSent = conn.hasSent /\ conn'.isFull = conn.isFull /\ conn'.hasMore = hasMore
  BY <1>0, <1>8 DEF ConnState
<1> DEFINE data == Added(client, b, Received(client, b, ops))
<1>14. client' = [client EXCEPT !.data = data]
  BY <1>7 DEF ReceiveData, Received, Added
<1>15. Received(client, b, ops) \in BucketState
  <2>1. Get(client.data, b, NoData).reduced \in Reduced
    BY <1>0, DataAt
  <2>2. Reduce(Get(client.data, b, NoData).reduced, ops) \in Reduced
    BY <1>2, <2>1, ReduceStep DEF IsOps, ops
  <2>3. last \in Nat
    BY <1>2 DEF last
  <2> HIDE DEF Reduced
  <2> QED BY <2>2, <2>3 DEF Received, BucketState, last
<1>16. /\ data \in Partial(BucketState) /\ DOMAIN data = DOMAIN client.data \cup {b}
       /\ data[b] = Received(client, b, ops)
       /\ \A x \in DOMAIN client.data : x # b => data[x] = client.data[x]
  <2> HIDE DEF Received, Get
  <2> QED BY <1>0, <1>2, <1>15, DataAdd DEF b
<1> HIDE DEF data
<1>17. client' \in ClientState /\ client'.checkpoint = client.checkpoint /\ client'.target = client.target
       /\ client'.data = data /\ client'.applied = client.applied /\ client'.isComplete = client.isComplete
  BY <1>0, <1>14, <1>16 DEF ClientState
<1> QED
  <2>1. conn'.positions = [conn.positions EXCEPT ![b] = last] /\ conn'.hasMore = (conn.hasMore \/ MoreRows)
        /\ conn'.pending = (IF MoreRows THEN conn.pending ELSE conn.pending \ {b})
    BY <1>12, <1>13 DEF positions, pending, hasMore
  <2> QED BY <1>1, <1>3, <1>9, <1>11, <1>12, <1>13, <1>16, <1>17, <2>1 DEF b, ops, rest, last

LEMMA SendChunk_Inv ==
  ASSUME StreamInv, SendChunk
  PROVE  StreamInv'
<1> DEFINE b == FirstRow(conn.rows)[1]
           ops == ChunkOps(conn.rows)
           rest == conn.rows \ Chunk(conn.rows)
           last == LastOp(ops).op_id
<1>0. StreamOK(conn, client, bucketsAt)
  BY StreamFields
<1>1. UNCHANGED <<compactVars, bucketsAt, disconnects>>
  BY DEF SendChunk
<1>2.        /\ conn.step = "sending" /\ RowsOK(conn.rows) /\ b \in conn.todo
             /\ conn' \in ConnState
             /\ (conn'.step = "idle" /\ conn'.rows = {}) \/ (conn'.step = "sending" /\ conn'.rows = rest)
             /\ conn'.builder = conn.builder \/ (conn.builder = "off" /\ conn'.builder = "watching")
             /\ conn'.next = conn.next /\ conn'.line = conn.line
             /\ conn'.watched = conn.watched
             /\ conn'.lastChecksums = conn.lastChecksums /\ conn'.hasSent = conn.hasSent
             /\ conn'.positions = [conn.positions EXCEPT ![b] = last]
             /\ conn'.pending \subseteq conn.pending
             /\ conn'.todo = conn.todo
             /\ client' \in ClientState /\ client'.checkpoint = client.checkpoint /\ client'.target = client.target
             /\ DOMAIN client'.data = DOMAIN client.data \cup {b}
             /\ client'.data[b] = Received(client, b, ops)
             /\ \A x \in DOMAIN client.data : x # b => client'.data[x] = client.data[x]
  BY SendChunkIs
<1>3. SentOK(conn, client, bucketsAt) /\ conn.hasSent
  BY <1>2, LineBuckets
<1>4. Received(client, b, ops).position = last
  BY DEF Received
<1> HIDE DEF b, ops, last, rest
<1>5. /\ DOMAIN conn'.positions = DOMAIN conn.positions
      /\ \A x \in DOMAIN conn.positions : conn'.positions[x] = IF x = b THEN last ELSE conn.positions[x]
  BY <1>2
<1>6. \A x : PositionAt(client', x) = IF x = b THEN last ELSE PositionAt(client, x)
  BY <1>2, <1>4 DEF PositionAt, Get
<1>7. b \in DOMAIN conn.lastChecksums
  BY <1>2, <1>3 DEF SentOK
<1>8. SentOK(conn', client', bucketsAt)
  <2> HIDE DEF PositionAt
  <2> QED BY <1>2, <1>3, <1>5, <1>6, <1>7 DEF SentOK
<1>9. rest \in SUBSET conn.rows
  BY DEF rest
<1>10. RowsOK(conn'.rows) /\ (conn'.step # "sending" => conn'.rows = {}) /\ conn'.rows \subseteq conn.rows
  BY <1>2, <1>9, NoRowsOK, RowsSubset
<1>11. \A p \in conn'.rows : p[1] \in Current(conn')
  <2>1. Current(conn') = Current(conn)
    BY <1>2 DEF Current
  <2> QED BY <1>0, <1>10, <2>1 DEF StreamOK
<1>12. conn'.builder = "ready" => NextOK(conn', bucketsAt)
  BY <1>0, <1>2, NextSame DEF StreamOK
<1>13. StreamOK(conn', client', bucketsAt)
  <2>1. conn'.step # "closed" /\ conn'.hasSent
    BY <1>2, <1>3
  <2>2. /\ conn'.watched \in DOMAIN bucketsAt \cup {-1}
        /\ conn'.builder \in {"building", "ready"} => conn'.watched \in DOMAIN bucketsAt
    BY <1>0, <1>2 DEF StreamOK
  <2> QED BY <1>2, <1>8, <1>10, <1>11, <1>12, <2>1, <2>2 DEF StreamOK
<1> QED BY <1>1, <1>13, StreamFields, StreamStep

-----------------------------------------------------------------------------
(***************************************************************************)
(* The end of a batch, and the completion of a line.                       *)
(***************************************************************************)
Published == [checkpoint : Nat, content : SUBSET (Rows \X Values)]

LEMMA ShownIs ==
  ASSUME NEW b, client \in ClientState
  PROVE  Shown(b) \in Published /\ Shown(b).checkpoint = client.checkpoint
<1> DEFINE r == Get(client.data, b, NoData).reduced
<1>1. r \in Reduced
  BY DataAt
<1>2. r.puts \subseteq PutOp
  BY <1>1, ReducedFields
<1>3. Content(r) \in SUBSET (Rows \X Values)
  <2>1. \A p \in r.puts : p.row \in Rows /\ p.data \in Values
    BY <1>2 DEF PutOp
  <2> HIDE DEF r
  <2> QED BY <2>1 DEF Content
<1>4. client.checkpoint \in Nat
  BY ClientFields
<1>5. Shown(b) = [checkpoint |-> client.checkpoint, content |-> Content(r)]
  BY DEF Shown
<1> HIDE DEF r
<1> QED BY <1>3, <1>4, <1>5 DEF Published

(* What a valid completion publishes. *)
LEMMA AppliedIs ==
  ASSUME client \in ClientState, NEW buckets \in SUBSET Buckets, NEW isComplete \in BOOLEAN,
         client' = [client EXCEPT
              !.applied = IF isComplete THEN [b \in buckets |-> Shown(b)]
                          ELSE [b \in DOMAIN @ \cup buckets |-> IF b \in buckets THEN Shown(b) ELSE @[b]],
              !.isComplete = isComplete]
  PROVE  /\ client' \in ClientState /\ client'.target = client.target /\ client'.checkpoint = client.checkpoint
         /\ client'.data = client.data /\ client'.isComplete = isComplete
         /\ isComplete => client'.applied = [b \in buckets |-> Shown(b)]
         /\ \A b \in DOMAIN client'.applied :
              \/ b \in buckets /\ client'.applied[b] = Shown(b)
              \/ b \in DOMAIN client.applied /\ client'.applied[b] = client.applied[b]
<1> DEFINE all == [b \in buckets |-> Shown(b)]
           some == [b \in DOMAIN client.applied \cup buckets |-> IF b \in buckets THEN Shown(b) ELSE client.applied[b]]
           applied == IF isComplete THEN all ELSE some
<1>1. client.applied \in Partial(Published)
  BY ClientFields DEF Published
<1>2. DOMAIN client.applied \in SUBSET Buckets /\ \A b \in DOMAIN client.applied : client.applied[b] \in Published
  BY <1>1, PartialFields
<1>3. \A b \in buckets : Shown(b) \in Published
  BY ShownIs
<1> HIDE DEF Shown, Published
<1>4. all \in [buckets -> Published] /\ some \in [DOMAIN client.applied \cup buckets -> Published]
  BY <1>2, <1>3
<1>5. all \in Partial(Published) /\ some \in Partial(Published)
  <2> DEFINE S == DOMAIN client.applied \cup buckets
  <2>1. S \in SUBSET Buckets
    BY <1>2
  <2>2. some \in [S -> Published]
    BY <1>4
  <2> HIDE DEF all, some, S
  <2> QED BY <1>4, <2>1, <2>2, PartialIs
<1>6. \A b \in DOMAIN applied :
         \/ b \in buckets /\ applied[b] = Shown(b)
         \/ b \in DOMAIN client.applied /\ applied[b] = client.applied[b]
  OBVIOUS
<1>7. client' = [client EXCEPT !.applied = applied, !.isComplete = isComplete]
  OBVIOUS
<1>8. applied \in Partial(Published) /\ (isComplete => applied = all)
  BY <1>5
<1> HIDE DEF applied
<1>9. client' \in ClientState /\ client'.target = client.target /\ client'.checkpoint = client.checkpoint
      /\ client'.data = client.data /\ client'.applied = applied
  <2>1. client \in [target : Partial(Checksums), checkpoint : Nat, data : Partial(BucketState), applied : Partial(Published), isComplete : BOOLEAN]
    BY DEF ClientState, Published
  <2>2. client' \in [target : Partial(Checksums), checkpoint : Nat, data : Partial(BucketState), applied : Partial(Published), isComplete : BOOLEAN]
    BY <1>7, <1>8, <2>1
  <2>3. client' \in ClientState
    BY <2>2 DEF ClientState, Published
  <2> QED BY <1>7, <2>1, <2>3
<1>10. client'.isComplete = isComplete
  BY <1>7 DEF ClientState
<1> QED BY <1>6, <1>8, <1>9, <1>10

(* A completion that does not match drops buckets, and the connection. *)
LEMMA InvalidOK ==
  ASSUME StreamInv, NEW keep, keep \subseteq DOMAIN client.data,
         client' = [client EXCEPT !.data = [b \in keep |-> client.data[b]]], conn' = Closed,
         UNCHANGED <<compactVars, bucketsAt, disconnects>>
  PROVE  /\ StreamInv' /\ client' \in ClientState /\ DOMAIN client'.data \subseteq DOMAIN client.data
         /\ \A b \in DOMAIN client'.data : client'.data[b] = client.data[b]
         /\ client'.applied = client.applied /\ client'.isComplete = client.isComplete
<1> DEFINE data == [b \in keep |-> client.data[b]]
<1>0. client \in ClientState
  BY StreamFields
<1>1. keep \in SUBSET Buckets /\ \A b \in keep : client.data[b] \in BucketState
  BY <1>0, DataAt
<1>2. data \in [keep -> BucketState] /\ \A b \in keep : data[b] = client.data[b]
  BY <1>1
<1>3. client' = [client EXCEPT !.data = data]
  OBVIOUS
<1> HIDE DEF data
<1>4. data \in Partial(BucketState) /\ DOMAIN data = keep
  BY <1>1, <1>2, PartialIs
<1>5. client' \in ClientState /\ client'.data = data /\ client'.applied = client.applied /\ client'.isComplete = client.isComplete
  BY <1>0, <1>3, <1>4 DEF ClientState
<1>6. StreamOK(conn', client', bucketsAt)
  BY <1>5, ClosedOK
<1>7. StreamInv'
  BY <1>6, StreamFields, StreamStep
<1> QED BY <1>2, <1>4, <1>5, <1>7

LEMMA CompletedIs ==
  ASSUME StreamInv, conn.step = "sending"
  PROVE  /\ Completed \in SUBSET Buckets /\ Completed \subseteq DOMAIN conn.lastChecksums
         /\ IsLastPriority => Completed = bucketsAt[client.checkpoint]
         /\ DOMAIN client.target = DOMAIN conn.lastChecksums
<1>1. SentOK(conn, client, bucketsAt)
  BY LineBuckets
<1>2. DOMAIN client.target \in SUBSET Buckets
  BY StreamFields, ClientFields, PartialFields
<1>3. Completed \subseteq DOMAIN client.target /\ (IsLastPriority => Completed = DOMAIN client.target)
  BY DEF Completed
<1> QED BY <1>1, <1>2, <1>3 DEF SentOK

(***************************************************************************)
(* The end of a batch: another batch, or an unusable line, or a completion *)
(* that the client rejects, or one that it publishes.                      *)
(***************************************************************************)
LEMMA EndBatchIs ==
  ASSUME StreamInv, EndBatch
  PROVE  /\ conn.step = "sending" /\ conn.rows = {}
         /\ \/ /\ client' = client
               /\ conn' = [conn EXCEPT !.step = IF conn.hasMore THEN "batch" ELSE "idle", !.todo = conn.todo]
            \/ /\ ~conn.hasMore /\ IsUsable /\ conn' = Closed
               /\ \E keep : /\ keep \subseteq DOMAIN client.data
                            /\ client' = [client EXCEPT !.data = [b \in keep |-> client.data[b]]]
            \/ /\ ~conn.hasMore /\ IsUsable
               /\ client' = [client EXCEPT
                    !.applied = IF IsLastPriority THEN [b \in Completed |-> Shown(b)]
                                ELSE [b \in DOMAIN @ \cup Completed |-> IF b \in Completed THEN Shown(b) ELSE @[b]],
                    !.isComplete = IsLastPriority]
               /\ conn' = [conn EXCEPT !.step = IF IsLastPriority THEN "idle" ELSE "batch",
                                       !.todo = IF IsLastPriority THEN conn.todo ELSE conn.todo \ Current(conn)]
<1>0. conn \in ConnState /\ conn.step = "sending" /\ conn.rows = {}
  BY StreamFields DEF EndBatch
<1>1. \A s : [conn EXCEPT !.step = s] = [conn EXCEPT !.step = s, !.todo = conn.todo]
  BY <1>0 DEF ConnState
<1>2. CASE conn.hasMore
  BY <1>0, <1>1, <1>2 DEF EndBatch
<1>3. CASE ~conn.hasMore /\ ~IsUsable
  BY <1>0, <1>1, <1>3 DEF EndBatch
<1>4. CASE ~conn.hasMore /\ IsUsable
  <2>1. CASE IsLastPriority
    <3>1. ReceiveComplete(Completed, TRUE, [conn EXCEPT !.step = "idle", !.todo = conn.todo])
      BY <1>1, <1>4, <2>1 DEF EndBatch
    <3>2. CASE \A b \in Completed : IsValid(b)
      BY <1>0, <1>4, <2>1, <3>1, <3>2 DEF ReceiveComplete
    <3>3. CASE ~ \A b \in Completed : IsValid(b)
      <4>1. {d \in DOMAIN client.data : d \in Completed => IsValid(d)} \subseteq DOMAIN client.data
        OBVIOUS
      <4> QED BY <1>0, <1>4, <3>1, <3>3, <4>1 DEF ReceiveComplete
    <3> QED BY <3>2, <3>3
  <2>2. CASE ~IsLastPriority
    <3>1. ReceiveComplete(Completed, FALSE, [conn EXCEPT !.step = "batch", !.todo = conn.todo \ Current(conn)])
      BY <1>4, <2>2 DEF EndBatch, CurrentBuckets, Current
    <3>2. CASE \A b \in Completed : IsValid(b)
      <4>1. IsLastPriority = FALSE
        BY <2>2 DEF IsLastPriority
      <4>2. /\ client' = [client EXCEPT
                    !.applied = [b \in DOMAIN @ \cup Completed |-> IF b \in Completed THEN Shown(b) ELSE @[b]],
                    !.isComplete = FALSE]
            /\ conn' = [conn EXCEPT !.step = "batch", !.todo = conn.todo \ Current(conn)]
        BY <3>1, <3>2 DEF ReceiveComplete
      <4>3. /\ client' = [client EXCEPT
                    !.applied = IF IsLastPriority THEN [b \in Completed |-> Shown(b)]
                                ELSE [b \in DOMAIN @ \cup Completed |-> IF b \in Completed THEN Shown(b) ELSE @[b]],
                    !.isComplete = IsLastPriority]
            /\ conn' = [conn EXCEPT !.step = IF IsLastPriority THEN "idle" ELSE "batch",
                                    !.todo = IF IsLastPriority THEN conn.todo ELSE conn.todo \ Current(conn)]
        BY <4>1, <4>2, Zenon
      <4> QED BY <1>0, <1>4, <4>3
    <3>3. CASE ~ \A b \in Completed : IsValid(b)
      <4>1. {d \in DOMAIN client.data : d \in Completed => IsValid(d)} \subseteq DOMAIN client.data
        OBVIOUS
      <4> QED BY <1>0, <1>4, <3>1, <3>3, <4>1 DEF ReceiveComplete
    <3> QED BY <3>2, <3>3
  <2> QED BY <2>1, <2>2
<1> QED BY <1>2, <1>3, <1>4

LEMMA EndBatch_Inv ==
  ASSUME StreamInv, EndBatch
  PROVE  StreamInv'
<1>0. conn.step = "sending" /\ conn.rows = {} /\ UNCHANGED <<compactVars, bucketsAt, disconnects>>
      /\ client \in ClientState
  BY StreamFields DEF EndBatch
<1>1. CASE /\ client' = client
           /\ conn' = [conn EXCEPT !.step = IF conn.hasMore THEN "batch" ELSE "idle", !.todo = conn.todo]
  <2>1. PICK step \in {"idle", "batch"} : conn' = [conn EXCEPT !.step = step, !.todo = conn.todo]
    BY <1>1
  <2> QED BY <1>0, <1>1, <2>1, LoopMoves
<1>2. CASE \E keep : /\ keep \subseteq DOMAIN client.data /\ conn' = Closed
                     /\ client' = [client EXCEPT !.data = [b \in keep |-> client.data[b]]]
  BY <1>0, <1>2, InvalidOK
<1>3. CASE /\ client' = [client EXCEPT
                    !.applied = IF IsLastPriority THEN [b \in Completed |-> Shown(b)]
                                ELSE [b \in DOMAIN @ \cup Completed |-> IF b \in Completed THEN Shown(b) ELSE @[b]],
                    !.isComplete = IsLastPriority]
           /\ conn' = [conn EXCEPT !.step = IF IsLastPriority THEN "idle" ELSE "batch",
                                   !.todo = IF IsLastPriority THEN conn.todo ELSE conn.todo \ Current(conn)]
  <2>1. PICK step \in {"idle", "batch"}, todo \in SUBSET conn.todo : conn' = [conn EXCEPT !.step = step, !.todo = todo]
    BY <1>3
  <2>2. Completed \in SUBSET Buckets /\ IsLastPriority \in BOOLEAN
    BY <1>0, CompletedIs DEF IsLastPriority
  <2>3. client' \in ClientState /\ client'.target = client.target /\ client'.checkpoint = client.checkpoint
         /\ client'.data = client.data
    BY <1>0, <1>3, <2>2, AppliedIs
  <2> QED BY <1>0, <2>1, <2>3, LoopMoves
<1> QED BY <1>1, <1>2, <1>3, EndBatchIs

LEMMA StreamNext_Inv ==
  ASSUME StreamInv, [Next]_vars
  PROVE  StreamInv'
<1>1. CASE StorageNext
  BY <1>1, Storage_Inv
<1>2. CASE Connect \/ Disconnect
  BY <1>2, Connect_Inv, Disconnect_Inv
<1>3. CASE ServerNext
  BY <1>3, Waits_Inv, BuildLine_Inv, SendLine_Inv, StartBatch_Inv, Interrupt_Inv, SendChunk_Inv, EndBatch_Inv DEF ServerNext
<1>4. CASE UNCHANGED vars
  <2>1. UNCHANGED <<compactVars, bucketsAt>> /\ conn' = conn /\ client' = client /\ disconnects' = disconnects
    BY <1>4 DEF vars, streamVars
  <2> QED BY <2>1, StreamFields, StreamStep
<1> QED BY <1>1, <1>2, <1>3, <1>4 DEF Next

-----------------------------------------------------------------------------
LEMMA StreamInvariant == Spec => []StreamInv
<1>1. Init => StreamInv
  BY StreamInit_Inv
<1>2. StreamInv /\ [Next]_vars => StreamInv'
  BY StreamNext_Inv
<1> QED BY <1>1, <1>2, PTL DEF Spec

(***************************************************************************)
(* The state of the stream has its types, whatever is replicated and       *)
(* compacted and whenever connections break: a line is always in one of    *)
(* its four places, the watcher yields checkpoints that were committed,    *)
(* and a download is only ever pending for a bucket of the line.           *)
(***************************************************************************)
THEOREM SyncTypes == Spec => []SyncTypeOK
<1>1. StreamInv => SyncTypeOK
  <2> SUFFICES ASSUME StreamInv PROVE SyncTypeOK
    OBVIOUS
  <2>0. StreamOK(conn, client, bucketsAt) /\ BucketsOK(bucketsAt, checkpoint) /\ conn \in ConnState /\ client \in ClientState
    BY StreamFields
  <2>1. CompactTypeOK
    BY StreamFields, CompactTypesOf
  <2>2. /\ DOMAIN bucketsAt \subseteq 0..checkpoint /\ {0, checkpoint} \subseteq DOMAIN bucketsAt
        /\ \A k \in DOMAIN bucketsAt : bucketsAt[k] \in BucketSets
    BY <2>0 DEF BucketsOK
  <2>3. /\ conn.step \in {"closed", "idle", "batch", "sending"}
        /\ conn.builder \in {"off", "watching", "building", "ready"}
        /\ conn.todo \subseteq Buckets
    BY <2>0, ConnFields
  <2>4. conn.watched \in DOMAIN bucketsAt \cup {-1}
    BY <2>0 DEF StreamOK
  <2>5. conn.pending \subseteq DOMAIN conn.lastChecksums
    <3>1. CASE conn.hasSent
      BY <2>0, <3>1 DEF StreamOK, SentOK
    <3>2. CASE ~conn.hasSent
      BY <2>0, <3>2 DEF StreamOK, FirstOK
    <3> QED BY <3>1, <3>2
  <2>6. DOMAIN client.data \cup DOMAIN client.applied \cup DOMAIN client.target \subseteq Buckets
    BY <2>0, ClientFields, PartialFields
  <2> QED BY <2>1, <2>2, <2>3, <2>4, <2>5, <2>6, StreamFields DEF SyncTypeOK
<1> QED BY <1>1, StreamInvariant, PTL

(***************************************************************************)
(* The positions that the server keeps for the connection are always those *)
(* of the client: what it sends next is what the client is missing.        *)
(***************************************************************************)
THEOREM PositionsMatch == Spec => []PositionsAgree
<1>1. StreamInv => PositionsAgree
  <2> SUFFICES ASSUME StreamInv, conn.hasSent
               PROVE  conn.positions = [b \in DOMAIN conn.lastChecksums |-> Get(client.data, b, NoData).position]
    BY DEF PositionsAgree
  <2>1. SentOK(conn, client, bucketsAt)
    BY StreamFields DEF StreamOK
  <2>2. conn.positions \in [DOMAIN conn.positions -> Nat]
    BY StreamFields, ConnFields, PartialFields
  <2>3. DOMAIN conn.positions = DOMAIN conn.lastChecksums
        /\ \A b \in DOMAIN conn.lastChecksums : conn.positions[b] = Get(client.data, b, NoData).position
    BY <2>1 DEF SentOK, PositionAt
  <2> QED BY <2>2, <2>3
<1> QED BY <1>1, StreamInvariant, PTL

(* Only a completion publishes. *)
LEMMA PublishesAtEnd ==
  ASSUME StreamInv, [Next]_vars, client'.applied # client.applied
  PROVE  EndBatch
<1>0. client \in ClientState
  BY StreamFields
<1>1. CASE StorageNext \/ Disconnect \/ StartBuilder \/ WatchCheckpoint \/ BuildLine \/ StartBatch \/ Interrupt \/ UNCHANGED vars
  BY <1>1 DEF StorageNext, CommitParameters, Disconnect, StartBuilder, WatchCheckpoint, BuildLine, StartBatch,
              Interrupt, vars, streamVars
<1>2. CASE Connect
  BY <1>0, <1>2 DEF Connect, ClientState
<1>3. CASE SendLine
  BY <1>3, SendLineIs
<1>4. CASE SendChunk
  BY <1>4, SendChunkIs
<1> QED BY <1>1, <1>2, <1>3, <1>4 DEF Next, ServerNext

(***************************************************************************)
(* A full completion publishes all buckets of its checkpoint and no other, *)
(* and shows each of them as of that checkpoint.                           *)
(***************************************************************************)
THEOREM CompletesEverything == Spec => CompletesAll
<1>1. ASSUME StreamInv, [Next]_vars
      PROVE  client'.isComplete /\ client'.applied # client.applied =>
               /\ DOMAIN client'.applied = bucketsAt[client'.checkpoint]
               /\ \A b \in DOMAIN client'.applied : client'.applied[b].checkpoint = client'.checkpoint
  <2> SUFFICES ASSUME client'.isComplete, client'.applied # client.applied
               PROVE  /\ DOMAIN client'.applied = bucketsAt[client'.checkpoint]
                      /\ \A b \in DOMAIN client'.applied : client'.applied[b].checkpoint = client'.checkpoint
    OBVIOUS
  <2>0. client \in ClientState /\ conn \in ConnState
    BY <1>1, StreamFields
  <2>1. EndBatch
    BY <1>1, PublishesAtEnd
  <2>2. PICK keep : /\ client' # client
        /\ \/ keep \subseteq DOMAIN client.data /\ client' = [client EXCEPT !.data = [b \in keep |-> client.data[b]]]
           \/ client' = [client EXCEPT
                    !.applied = IF IsLastPriority THEN [b \in Completed |-> Shown(b)]
                                ELSE [b \in DOMAIN @ \cup Completed |-> IF b \in Completed THEN Shown(b) ELSE @[b]],
                    !.isComplete = IsLastPriority]
    BY <1>1, <2>1, EndBatchIs
  <2>3. client' = [client EXCEPT
                    !.applied = IF IsLastPriority THEN [b \in Completed |-> Shown(b)]
                                ELSE [b \in DOMAIN @ \cup Completed |-> IF b \in Completed THEN Shown(b) ELSE @[b]],
                    !.isComplete = IsLastPriority]
    BY <2>0, <2>2 DEF ClientState
  <2>4. /\ Completed \in SUBSET Buckets /\ IsLastPriority \in BOOLEAN
        /\ IsLastPriority => Completed = bucketsAt[client.checkpoint]
    BY <1>1, <2>1, CompletedIs DEF EndBatch, IsLastPriority
  <2>5. client'.checkpoint = client.checkpoint /\ client'.isComplete = IsLastPriority
        /\ (IsLastPriority => client'.applied = [b \in Completed |-> Shown(b)])
    BY <2>0, <2>3, <2>4, AppliedIs
  <2>6. IsLastPriority
    BY <2>5
  <2>7. \A b : Shown(b).checkpoint = client.checkpoint
    BY <2>0, ShownIs
  <2> HIDE DEF Shown
  <2> QED BY <2>4, <2>5, <2>6, <2>7
<1> QED BY <1>1, StreamInvariant, PTL DEF Spec, CompletesAll

-----------------------------------------------------------------------------
(***************************************************************************)
(* While nothing is compacted, D[b] are the operations of bucket b as they *)
(* were written, up to op id n. What a client has of a bucket is then what *)
(* the bucket was at the client's position.                                *)
(***************************************************************************)
IsWritten(D, n) ==
  n \in Nat /\ \A b \in Buckets : IsOps(D[b]) /\ D[b] \subseteq PutOp \cup RemoveOp /\ \A o \in D[b] : o.op_id <= n

StateAt(S, a) == Reduce(EmptyBucket, Between(S, 0, a))

DataOK(D, n, C) ==
  \A b \in DOMAIN C.data : C.data[b].position <= n /\ C.data[b].reduced = StateAt(D[b], C.data[b].position)

SumsOf(S, k) == [checksum |-> SumChecksums(Between(S, 0, k)), count |-> Cardinality(Between(S, 0, k))]

\* What the line of q still has to download of bucket b.
LeftAt(D, q, b) == Between(D[b], q.positions[b], q.line.checkpoint)

(***************************************************************************)
(* The checksums of the line are those of its checkpoint. A bucket that is *)
(* not pending has nothing left to download. A position past the           *)
(* checkpoint is one that the client connected with.                       *)
(***************************************************************************)
LineOK(D, q) ==
  /\ q.line.checkpoint <= q.watched
  /\ q.pending \subseteq q.line.fetch
  /\ \A b \in DOMAIN q.lastChecksums :
       /\ q.lastChecksums[b] = SumsOf(D[b], q.line.checkpoint)
       /\ q.positions[b] <= q.line.checkpoint \/ q.positions[b] = Get(q.after, b, 0)
       /\ b \notin q.pending => q.positions[b] <= q.line.checkpoint /\ LeftAt(D, q, b) = {}

\* A line that waits to be sent leaves out only what is unchanged and downloaded.
ReadyOK(D, q) ==
  \A b \in DOMAIN q.next.sums :
    /\ q.next.sums[b] = SumsOf(D[b], q.watched)
    /\ b \notin q.next.fetch =>
         q.hasSent /\ b \in DOMAIN q.lastChecksums /\ q.lastChecksums[b] = q.next.sums[b] /\ b \notin q.pending

\* Priorities that are done are complete.
TodoOK(D, q) == \A b \in DOMAIN q.lastChecksums \ q.todo : LeftAt(D, q, b) = {}

\* The rows of a batch are the first of what is left, and all of it unless the batch is full.
LeftOf(D, q) == {p \in Buckets \X Op : p[1] \in Current(q) /\ p[1] \in DOMAIN q.positions /\ p[2] \in LeftAt(D, q, p[1])}

BatchOK(D, q) ==
  /\ q.rows \subseteq LeftOf(D, q)
  /\ \A p \in q.rows, s \in LeftOf(D, q) : Before(s, p) => s \in q.rows
  /\ q.isFull \/ q.rows = LeftOf(D, q)
  /\ q.rows = {} /\ q.isFull => q.hasMore

DownloadOK(D, n, q, C) ==
  /\ DataOK(D, n, C)
  /\ q.hasSent => LineOK(D, q)
  /\ q.builder = "ready" => ReadyOK(D, q)
  /\ q.step \in {"batch", "sending"} => TodoOK(D, q)
  /\ q.step = "sending" => BatchOK(D, q)

NothingCompacted == compactions = 0 /\ bucket_data = log /\ \A c \in Compactors : compactors[c].step = "idle"

DownloadInv == StreamInv /\ NothingCompacted /\ DownloadOK(bucket_data, op_id, conn, client)

LEMMA DownloadFields ==
  ASSUME DownloadInv
  PROVE  /\ StreamInv /\ NothingCompacted /\ DownloadOK(bucket_data, op_id, conn, client)
         /\ IsWritten(bucket_data, op_id)
         /\ \A b \in Buckets : IsOps(bucket_data[b]) /\ bucket_data[b] = log[b] /\ bucket_data[b] \in SUBSET Op
<1>1. StorageOK /\ bucket_data = log
  BY StreamFields DEF DownloadInv, CompactInv, NothingCompacted
<1>2. \A b \in Buckets : IsOps(bucket_data[b]) /\ bucket_data[b] \in SUBSET Op
  BY <1>1, BucketIsOps
<1>3. IsWritten(bucket_data, op_id)
  BY <1>1, <1>2 DEF IsWritten, StorageOK, OwnIds
<1> QED BY <1>1, <1>2, <1>3 DEF DownloadInv

(* What is between two op ids. *)
LEMMA WrittenFields ==
  ASSUME NEW D, NEW n, IsWritten(D, n), NEW b \in Buckets
  PROVE  /\ n \in Nat /\ IsOps(D[b]) /\ D[b] \subseteq PutOp \cup RemoveOp /\ IsLogged(D[b], D[b])
         /\ \A o \in D[b] : o \in Op /\ o.op_id \in Nat /\ o.op_id > 0 /\ o.op_id <= n
         /\ \A o, p \in D[b] : o.op_id = p.op_id => o = p
<1>1. n \in Nat /\ IsOps(D[b]) /\ D[b] \subseteq PutOp \cup RemoveOp /\ \A o \in D[b] : o.op_id <= n
  BY DEF IsWritten
<1>2. IsLogged(D[b], D[b])
  BY <1>1 DEF IsLogged
<1> QED BY <1>1, <1>2, LoggedFields

LEMMA NothingAtFirst ==
  ASSUME NEW D, NEW n, IsWritten(D, n), NEW b \in Buckets
  PROVE  StateAt(D[b], 0) = EmptyBucket
<1>1. Between(D[b], 0, 0) = {}
  BY WrittenFields DEF Between
<1>2. EmptyBucket \in Reduced
  BY EmptyIs
<1>3. Reduce(EmptyBucket, {}) = EmptyBucket
  BY <1>2, FS_EmptySet, ReduceStep
<1> HIDE DEF EmptyBucket
<1> QED BY <1>1, <1>3 DEF StateAt

(* The client goes on from its position. *)
LEMMA GoesOn ==
  ASSUME NEW D, NEW n, IsWritten(D, n), NEW b \in Buckets, NEW a \in Nat, NEW k \in Nat, a <= k
  PROVE  Reduce(StateAt(D[b], a), Between(D[b], a, k)) = StateAt(D[b], k)
<1> DEFINE L == D[b]
<1>1. IsLogged(L, L) /\ \A o \in L : o.op \in {"PUT", "REMOVE"} /\ o.target_op = 0
  BY WrittenFields, LoggedFields
<1> HIDE DEF L
<1>2. LogOK(L, L)
  <2>1. KeepsWritten(L, L) /\ NothingMissing(L, L)
    BY DEF KeepsWritten, NothingMissing
  <2>2. MovesSuperseded(L, L) /\ ClearsStart(L, L) /\ TargetsWritten(L, L)
    BY <1>1 DEF MovesSuperseded, ClearsStart, TargetsWritten, Null
  <2> QED BY <2>1, <2>2 DEF LogOK
<1>3. IsCurrentRead(L, L, a, k)
  BY <1>1, <1>2 DEF IsCurrentRead, Between
<1> QED BY <1>3, ReadConverges DEF StateAt, L

(* The checksum that a client has of a bucket. *)
LEMMA ChecksumAt ==
  ASSUME NEW D, NEW n, IsWritten(D, n), NEW b \in Buckets, NEW a \in Nat
  PROVE  ReducedChecksum(StateAt(D[b], a)) = SumsOf(D[b], a).checksum
<1>1. IsLogged(D[b], D[b])
  BY WrittenFields
<1>2. ReducedChecksum(StateAt(D[b], a)) = SumChecksums(Between(D[b], 0, a))
  BY <1>1, ReduceLog DEF StateAt
<1>3. SumsOf(D[b], a).checksum = SumChecksums(Between(D[b], 0, a))
  BY DEF SumsOf
<1> QED BY <1>2, <1>3

(* A client with nothing left to download up to k has the bucket as of k. *)
LEMMA NothingLeft ==
  ASSUME NEW D, NEW n, IsWritten(D, n), NEW b \in Buckets, NEW a \in Nat, NEW k \in Nat, a <= k, Between(D[b], a, k) = {}
  PROVE  Between(D[b], 0, a) = Between(D[b], 0, k)
<1>1. \A o \in D[b] : o.op_id \in Nat /\ ~(a < o.op_id /\ o.op_id <= k)
  BY WrittenFields DEF Between
<1> QED BY <1>1 DEF Between

(* A bucket whose checksum and count are those of an earlier checkpoint has no new operations. *)
LEMMA SameSums ==
  ASSUME NEW D, NEW n, IsWritten(D, n), NEW b \in Buckets, NEW j \in Nat, NEW k \in Nat, j <= k,
         SumsOf(D[b], j) = SumsOf(D[b], k)
  PROVE  Between(D[b], 0, j) = Between(D[b], 0, k)
<1> DEFINE S == Between(D[b], 0, j)
           T == Between(D[b], 0, k)
<1>1. SumsOf(D[b], j).count = Cardinality(S) /\ SumsOf(D[b], k).count = Cardinality(T)
  BY DEF SumsOf
<1>2. S \in SUBSET T
  BY WrittenFields DEF Between
<1>3. IsFiniteSet(T)
  BY WrittenFields, BetweenIs
<1> HIDE DEF S, T
<1>4. Cardinality(S) = Cardinality(T)
  BY <1>1
<1>5. S = T
  BY <1>2, <1>3, <1>4, FS_Subset
<1> QED BY <1>5 DEF S, T

(* Nothing is left for the new line either, of a bucket that was downloaded and has not changed. *)
LEMMA StillNothingLeft ==
  ASSUME NEW D, NEW n, IsWritten(D, n), NEW b \in Buckets, NEW a \in Nat, NEW j \in Nat, NEW k \in Nat,
         a <= j, j <= k, Between(D[b], a, j) = {}, SumsOf(D[b], j) = SumsOf(D[b], k)
  PROVE  Between(D[b], a, k) = {}
<1>1. Between(D[b], 0, j) = Between(D[b], 0, k)
  BY SameSums
<1>2. \A o \in D[b] : o.op_id \in Nat /\ o.op_id > 0
  BY WrittenFields
<1>3. \A o \in D[b] : o.op_id <= k => o.op_id <= j
  BY <1>1, <1>2 DEF Between
<1>4. \A o \in D[b] : ~(a < o.op_id /\ o.op_id <= j)
  BY DEF Between
<1> QED BY <1>3, <1>4 DEF Between

-----------------------------------------------------------------------------
(* What is appended does not change what was there. *)
LEMMA AppendKeeps ==
  ASSUME NEW D, NEW n, IsWritten(D, n), NEW E, NEW m, IsWritten(E, m), n <= m,
         \A b \in Buckets : D[b] \subseteq E[b] /\ \A o \in E[b] : o.op_id <= n => o \in D[b],
         NEW q, NEW C, NEW B, NEW k, k <= n, BucketsOK(B, k), StreamOK(q, C, B), DownloadOK(D, n, q, C)
  PROVE  DownloadOK(E, m, q, C)
<1>0. n \in Nat /\ m \in Nat /\ k \in Nat
  BY DEF IsWritten, BucketsOK
<1>1. \A b \in Buckets, a \in Nat, j \in Nat : j <= n => Between(E[b], a, j) = Between(D[b], a, j)
  <2> SUFFICES ASSUME NEW b \in Buckets, NEW a \in Nat, NEW j \in Nat, j <= n PROVE Between(E[b], a, j) = Between(D[b], a, j)
    OBVIOUS
  <2>1. \A o \in E[b] : o.op_id \in Nat
    BY WrittenFields
  <2>2. \A o \in E[b] : o.op_id <= j => o.op_id <= n
    BY <1>0, <2>1
  <2>3. \A o \in E[b] : o.op_id <= j => o \in D[b]
    BY <2>2
  <2>4. D[b] \subseteq E[b]
    OBVIOUS
  <2> QED BY <2>3, <2>4 DEF Between
<1>2. \A b \in Buckets, j \in Nat : j <= n => SumsOf(E[b], j) = SumsOf(D[b], j) /\ StateAt(E[b], j) = StateAt(D[b], j)
  BY <1>1 DEF SumsOf, StateAt
<1>3. q \in ConnState /\ C \in ClientState
  BY DEF StreamOK
<1>4. q.watched \in DOMAIN B => q.watched \in Nat /\ q.watched <= n
  BY <1>0 DEF BucketsOK
<1>5. q.hasSent => /\ q.line.checkpoint \in Nat /\ q.line.checkpoint <= n
                   /\ DOMAIN q.lastChecksums \subseteq Buckets /\ DOMAIN q.positions = DOMAIN q.lastChecksums
                   /\ \A b \in DOMAIN q.positions : q.positions[b] \in Nat
  <2> SUFFICES ASSUME q.hasSent PROVE /\ q.line.checkpoint \in Nat /\ q.line.checkpoint <= n
                   /\ DOMAIN q.lastChecksums \subseteq Buckets /\ DOMAIN q.positions = DOMAIN q.lastChecksums
                   /\ \A b \in DOMAIN q.positions : q.positions[b] \in Nat
    OBVIOUS
  <2>1. SentOK(q, C, B)
    BY DEF StreamOK
  <2>2. q.line.checkpoint \in Nat /\ q.line.checkpoint <= n
    BY <1>0, <2>1 DEF SentOK, BucketsOK
  <2>3. DOMAIN q.lastChecksums \subseteq Buckets /\ \A b \in DOMAIN q.positions : q.positions[b] \in Nat
    BY <1>3, ConnFields, PartialFields
  <2> QED BY <2>1, <2>2, <2>3 DEF SentOK
<1>6. q.hasSent => \A b \in DOMAIN q.lastChecksums : LeftAt(E, q, b) = LeftAt(D, q, b)
  BY <1>1, <1>5 DEF LeftAt
<1>7. DataOK(E, m, C)
  <2> SUFFICES ASSUME NEW b \in DOMAIN C.data PROVE C.data[b].position <= m /\ C.data[b].reduced = StateAt(E[b], C.data[b].position)
    BY DEF DataOK
  <2>1. b \in Buckets /\ C.data[b].position \in Nat
    BY <1>3, DataAt
  <2>2. C.data[b].position <= n /\ C.data[b].reduced = StateAt(D[b], C.data[b].position)
    BY DEF DownloadOK, DataOK
  <2> QED BY <1>0, <1>2, <2>1, <2>2
<1>8. q.hasSent => LineOK(E, q)
  <2> SUFFICES ASSUME q.hasSent PROVE LineOK(E, q)
    OBVIOUS
  <2>1. LineOK(D, q)
    BY DEF DownloadOK
  <2> QED BY <1>2, <1>5, <1>6, <2>1 DEF LineOK
<1>9. q.builder = "ready" => ReadyOK(E, q)
  <2> SUFFICES ASSUME q.builder = "ready" PROVE ReadyOK(E, q)
    OBVIOUS
  <2>1. ReadyOK(D, q) /\ q.watched \in DOMAIN B
    BY DEF DownloadOK, StreamOK
  <2>2. DOMAIN q.next.sums \subseteq Buckets
    BY <1>3, ConnFields, LineFields, PartialFields
  <2> QED BY <1>2, <1>4, <2>1, <2>2 DEF ReadyOK
<1>10. q.step \in {"batch", "sending"} => q.hasSent
  BY DEF StreamOK, FirstOK
<1>11. q.step \in {"batch", "sending"} => TodoOK(E, q)
  BY <1>6, <1>10 DEF DownloadOK, TodoOK
<1>12. q.step = "sending" => BatchOK(E, q)
  <2> SUFFICES ASSUME q.step = "sending" PROVE BatchOK(E, q)
    OBVIOUS
  <2>1. DOMAIN q.positions = DOMAIN q.lastChecksums
    BY <1>5, <1>10
  <2>2. LeftOf(E, q) = LeftOf(D, q)
    BY <1>6, <1>10, <2>1 DEF LeftOf
  <2>3. BatchOK(D, q)
    BY DEF DownloadOK
  <2> QED BY <2>2, <2>3 DEF BatchOK
<1> QED BY <1>7, <1>8, <1>9, <1>11, <1>12 DEF DownloadOK

LEMMA Storage_Download ==
  ASSUME DownloadInv, StorageNext, MaxCompactions = 0
  PROVE  DownloadInv'
<1>0. StreamInv' /\ StreamInv /\ NothingCompacted /\ IsWritten(bucket_data, op_id) /\ DownloadOK(bucket_data, op_id, conn, client)
  BY Storage_Inv, DownloadFields
<1>1. ASSUME NEW c \in Compactors, CompactStep(c) PROVE FALSE
  <2>1. compactors[c].step = "idle" /\ ~(compactions < MaxCompactions)
    BY <1>0 DEF NothingCompacted
  <2>2. compactors[c].step # "idle" \/ compactions < MaxCompactions
    <3>1. CASE compactions < MaxCompactions /\ StartCompact(c)
      BY <3>1
    <3>2. CASE ScanOp(c) \/ FlushMoves(c) \/ EndScan(c) \/ ClearBucket(c)
      <4>1. compactors[c].step \in {"scan", "clear"}
        BY <3>2 DEF ScanOp, FlushMoves, EndScan, ClearBucket
      <4> QED BY <4>1
    <3>3. CASE \E b \in Buckets : CompactSingleBucket(c, b)
      <4>1. compactors[c].step = "next"
        BY <3>3 DEF CompactSingleBucket
      <4> QED BY <4>1
    <3>4. CASE StopCompact(c)
      BY <3>4 DEF StopCompact
    <3> QED BY <1>1, <3>1, <3>2, <3>3, <3>4 DEF CompactStep
  <2> QED BY <2>1, <2>2
<1>2. CASE op_id < MaxOp /\ Flush /\ UNCHANGED streamVars
  <2>1. PICK b \in Buckets, op \in PutOp \cup RemoveOp : AppendOp(b, op) /\ op.op_id = op_id + 1
    BY <1>0, <1>2, FlushIs, StreamFields
  <2>2. /\ op_id' = op_id + 1 /\ UNCHANGED <<checkpoint, compactors, compactions, bucketsAt, conn, client, disconnects>>
        /\ bucket_data' = [bucket_data EXCEPT ![b] = @ \cup {op}]
        /\ log' = [log EXCEPT ![b] = @ \cup {op}]
    BY <1>2, <2>1 DEF AppendOp, Flush, streamVars
  <2>3. NothingCompacted'
    BY <1>0, <2>2 DEF NothingCompacted
  <2>4. StorageOK /\ StorageOK'
    BY <1>0 DEF StreamInv, CompactInv
  <2>5. IsWritten(bucket_data', op_id')
    <3>1. op_id' \in Nat /\ \A d \in Buckets : bucket_data'[d] \subseteq PutOp \cup RemoveOp /\ OwnIds(bucket_data'[d], op_id')
      BY <2>3, <2>4 DEF NothingCompacted, StorageOK
    <3>2. \A d \in Buckets : bucket_data'[d] \subseteq Op
      BY <3>1 DEF Op
    <3>3. \A d \in Buckets : IsOps(bucket_data'[d])
      BY <3>1, <3>2, BoundedOps DEF OwnIds
    <3> QED BY <3>1, <3>3 DEF IsWritten, OwnIds
  <2>6. bucket_data \in [Buckets -> SUBSET Op] /\ op_id \in Nat
    BY <2>4 DEF StorageOK
  <2>7. \A d \in Buckets : bucket_data[d] \subseteq bucket_data'[d] /\ \A o \in bucket_data'[d] : o \in bucket_data[d] \/ o = op
    BY <2>2, <2>6
  <2>8. \A d \in Buckets : bucket_data[d] \subseteq bucket_data'[d] /\ \A o \in bucket_data'[d] : o.op_id <= op_id => o \in bucket_data[d]
    BY <2>1, <2>6, <2>7
  <2>9. op_id <= op_id' /\ checkpoint <= op_id /\ BucketsOK(bucketsAt, checkpoint) /\ StreamOK(conn, client, bucketsAt)
    BY <1>0, <2>2, <2>6, StreamFields
  <2>10. DownloadOK(bucket_data', op_id', conn, client)
    BY <1>0, <2>5, <2>8, <2>9, AppendKeeps
  <2> QED BY <1>0, <2>2, <2>3, <2>10 DEF DownloadInv
<1>3. CASE CommitParameters
  <2>1. UNCHANGED <<bucket_data, op_id, log, compactors, compactions, conn, client>>
    BY <1>3 DEF CommitParameters, Commit
  <2> QED BY <1>0, <2>1 DEF DownloadInv, NothingCompacted
<1> QED BY <1>1, <1>2, <1>3 DEF StorageNext

(* Steps that leave the storage alone. *)
LEMMA DownloadStep ==
  ASSUME DownloadInv, StreamInv', UNCHANGED <<compactVars, bucketsAt>>, DownloadOK(bucket_data, op_id, conn', client')
  PROVE  DownloadInv'
BY DownloadFields DEF DownloadInv, NothingCompacted, compactVars, storageVars

-----------------------------------------------------------------------------
LEMMA DataSame ==
  ASSUME NEW D, NEW n, NEW C, DataOK(D, n, C), NEW E, \A b \in DOMAIN E.data : b \in DOMAIN C.data /\ E.data[b] = C.data[b]
  PROVE  DataOK(D, n, E)
BY DEF DataOK

LEMMA LineSame ==
  ASSUME NEW D, NEW q \in ConnState, LineOK(D, q), NEW r \in ConnState, r.line = q.line, r.lastChecksums = q.lastChecksums,
         r.positions = q.positions, r.after = q.after, r.pending = q.pending, q.watched <= r.watched
  PROVE  LineOK(D, r)
<1>1. q.line.checkpoint \in Nat /\ q.watched \in Nat \cup {-1} /\ r.watched \in Nat \cup {-1}
  BY ConnFields, LineFields
<1>2. q.line.checkpoint <= r.watched
  BY <1>1 DEF LineOK
<1> QED BY <1>2 DEF LineOK, LeftAt

LEMMA ReadySame ==
  ASSUME NEW D, NEW q, ReadyOK(D, q), NEW r, r.next = q.next, r.hasSent = q.hasSent, r.watched = q.watched,
         r.lastChecksums = q.lastChecksums, r.pending \subseteq q.pending
  PROVE  ReadyOK(D, r)
BY DEF ReadyOK

LEMMA TodoSame ==
  ASSUME NEW D, NEW q, TodoOK(D, q), NEW r, r.line = q.line, r.lastChecksums = q.lastChecksums,
         r.positions = q.positions, r.todo = q.todo
  PROVE  TodoOK(D, r)
BY DEF TodoOK, LeftAt

LEMMA BatchSame ==
  ASSUME NEW D, NEW q, BatchOK(D, q), NEW r, r.line = q.line, r.positions = q.positions, r.todo = q.todo,
         r.rows = q.rows, r.isFull = q.isFull, r.hasMore = q.hasMore
  PROVE  BatchOK(D, r)
<1>1. LeftOf(D, r) = LeftOf(D, q)
  BY DEF LeftOf, LeftAt, Current
<1> QED BY <1>1 DEF BatchOK

LEMMA Connect_Download ==
  ASSUME DownloadInv, Connect
  PROVE  DownloadInv'
<1>1. StreamInv' /\ UNCHANGED <<compactVars, bucketsAt>>
  BY Connect_Inv, DownloadFields DEF Connect
<1>2. client'.data = client.data
  BY DownloadFields, StreamFields DEF Connect, ClientState
<1>3. conn'.step = "idle" /\ conn'.builder = "off" /\ conn'.hasSent = FALSE
  <2> HIDE DEF Closed
  <2>1. /\ conn' = [Closed EXCEPT !.step = "idle", !.after = [b \in DOMAIN client.data |-> client.data[b].position],
                      !.positions = [b \in DOMAIN client.data |-> client.data[b].position]]
    BY DEF Connect
  <2> QED BY <2>1, ClosedIs DEF ConnState
<1>4. DataOK(bucket_data, op_id, client')
  BY <1>2, DataSame, DownloadFields DEF DownloadOK
<1>5. DownloadOK(bucket_data, op_id, conn', client')
  BY <1>3, <1>4 DEF DownloadOK
<1> QED BY <1>1, <1>5, DownloadStep

LEMMA Close_Download ==
  ASSUME DownloadInv, StreamInv', UNCHANGED <<compactVars, bucketsAt>>, conn' = Closed,
         \A b \in DOMAIN client'.data : b \in DOMAIN client.data /\ client'.data[b] = client.data[b]
  PROVE  DownloadInv'
<1>1. DataOK(bucket_data, op_id, client')
  BY DataSame, DownloadFields DEF DownloadOK
<1>2. DownloadOK(bucket_data, op_id, conn', client')
  <2> HIDE DEF Closed
  <2> QED BY <1>1, ClosedIs DEF DownloadOK
<1> QED BY <1>2, DownloadStep

LEMMA Waits_Download ==
  ASSUME DownloadInv, StartBuilder \/ WatchCheckpoint
  PROVE  DownloadInv'
<1>0. StreamInv /\ StreamInv' /\ DownloadOK(bucket_data, op_id, conn, client) /\ conn \in ConnState
  BY Waits_Inv, DownloadFields, StreamFields
<1>1. UNCHANGED <<compactVars, bucketsAt, client, disconnects>>
  BY DEF StartBuilder, WatchCheckpoint
<1>2. conn' \in ConnState
  BY <1>0 DEF StreamInv, StreamOK
<1>3. conn.watched \in Int /\ (conn.watched \in DOMAIN bucketsAt => conn.watched <= checkpoint) /\ checkpoint \in Nat
      /\ conn.watched \in DOMAIN bucketsAt \cup {-1}
  BY <1>0, StreamFields, ConnFields DEF BucketsOK, StreamOK
<1>4. PICK w \in Int, x \in {"watching", "building"} : conn' = [conn EXCEPT !.builder = x, !.watched = w] /\ conn.watched <= w
  <2>1. CASE StartBuilder
    <3>1. conn' = [conn EXCEPT !.builder = "watching", !.watched = conn.watched]
      BY <1>0, <2>1 DEF StartBuilder, ConnState
    <3>2. conn.watched \in Int /\ conn.watched <= conn.watched
      BY <1>3
    <3> DEFINE w == conn.watched
    <3>3. conn' = [conn EXCEPT !.builder = "watching", !.watched = w] /\ conn.watched <= w /\ w \in Int
      BY <3>1, <3>2
    <3> HIDE DEF w
    <3> QED BY <3>3
  <2>2. CASE WatchCheckpoint
    <3>1. PICK k \in Watchable : conn' = [conn EXCEPT !.builder = "building", !.watched = k]
      BY <2>2 DEF WatchCheckpoint
    <3>2. k \in Int /\ conn.watched <= k
      BY <1>0, <1>3, StreamFields DEF Watchable, BucketsOK
    <3> QED BY <3>1, <3>2
  <2> QED BY <2>1, <2>2
<1>5. conn'.step = conn.step /\ conn'.after = conn.after /\ conn'.line = conn.line /\ conn'.lastChecksums = conn.lastChecksums
      /\ conn'.positions = conn.positions /\ conn'.pending = conn.pending
      /\ conn'.todo = conn.todo /\ conn'.rows = conn.rows /\ conn'.builder = x /\ conn'.watched = w
  BY <1>0, <1>4 DEF ConnState
<1>6. conn'.hasSent = conn.hasSent /\ conn'.isFull = conn.isFull /\ conn'.hasMore = conn.hasMore
  BY <1>0, <1>4 DEF ConnState
<1>7. conn.hasSent => LineOK(bucket_data, conn')
  <2>1. conn.hasSent => LineOK(bucket_data, conn)
    BY <1>0 DEF DownloadOK
  <2> QED BY <1>0, <1>2, <1>4, <1>5, <2>1, LineSame
<1>8. DataOK(bucket_data, op_id, client')
  BY <1>0, <1>1 DEF DownloadOK
<1>9. conn.step \in {"batch", "sending"} => TodoOK(bucket_data, conn')
  BY <1>0, <1>5, TodoSame DEF DownloadOK
<1>10. conn.step = "sending" => BatchOK(bucket_data, conn')
  BY <1>0, <1>5, <1>6, BatchSame DEF DownloadOK
<1>11. DownloadOK(bucket_data, op_id, conn', client')
  BY <1>5, <1>6, <1>7, <1>8, <1>9, <1>10 DEF DownloadOK
<1> QED BY <1>0, <1>1, <1>11, DownloadStep

LEMMA BuildLine_Download ==
  ASSUME DownloadInv, BuildLine
  PROVE  DownloadInv'
<1>0. StreamInv /\ StreamInv' /\ DownloadOK(bucket_data, op_id, conn, client) /\ conn \in ConnState
  BY BuildLine_Inv, DownloadFields, StreamFields
<1>1. UNCHANGED <<compactVars, bucketsAt, client, disconnects>>
  BY DEF BuildLine
<1>2.    /\ conn.builder = "building" /\ conn' \in ConnState
         /\ conn'.step = conn.step /\ conn'.after = conn.after /\ conn'.line = conn.line
         /\ conn'.lastChecksums = conn.lastChecksums
         /\ conn'.hasSent = conn.hasSent /\ conn'.positions = conn.positions /\ conn'.pending = conn.pending
         /\ conn'.todo = conn.todo /\ conn'.rows = conn.rows /\ conn'.watched = conn.watched
         /\ conn'.isFull = conn.isFull /\ conn'.hasMore = conn.hasMore
         /\ conn'.builder = "watching" \/ (conn'.builder = "ready" /\ conn'.next = BuiltLine)
  BY <1>0, BuildLineIs
<1>3. conn.watched <= conn'.watched
  BY <1>0, <1>2, ConnFields
<1>4. conn.hasSent => LineOK(bucket_data, conn')
  BY <1>0, <1>2, <1>3, LineSame DEF DownloadOK
<1>5. DataOK(bucket_data, op_id, client')
  BY <1>0, <1>1 DEF DownloadOK
<1>6. conn.step \in {"batch", "sending"} => TodoOK(bucket_data, conn')
  BY <1>0, <1>2, TodoSame DEF DownloadOK
<1>7. conn.step = "sending" => BatchOK(bucket_data, conn')
  BY <1>0, <1>2, BatchSame DEF DownloadOK
<1>8. conn'.builder = "ready" => ReadyOK(bucket_data, conn')
  <2> SUFFICES ASSUME conn'.builder = "ready" PROVE ReadyOK(bucket_data, conn')
    OBVIOUS
  <2>1. conn'.next = BuiltLine
    BY <1>2
  <2>2. /\ DOMAIN BuiltSums = bucketsAt[conn.watched] /\ conn.watched \in Nat
        /\ \A b \in bucketsAt[conn.watched] : b \in Buckets /\ BuiltSums[b] = Checksum(b, conn.watched)
    BY <1>0, <1>2, BuiltIs
  <2>3. \A b, k : Checksum(b, k) = SumsOf(bucket_data[b], k)
    BY DEF Checksum, SumsOf
  <2>4. BuiltLine.sums = BuiltSums /\ BuiltLine.fetch = Fetch(Changed, BuiltSums)
    BY DEF BuiltLine
  <2>5. \A b \in DOMAIN BuiltSums : b \notin Fetch(Changed, BuiltSums) =>
          conn.hasSent /\ b \in DOMAIN conn.lastChecksums /\ conn.lastChecksums[b] = BuiltSums[b] /\ b \notin conn.pending
    <3> SUFFICES ASSUME NEW b \in DOMAIN BuiltSums, b \notin Fetch(Changed, BuiltSums)
                 PROVE  conn.hasSent /\ b \in DOMAIN conn.lastChecksums /\ conn.lastChecksums[b] = BuiltSums[b] /\ b \notin conn.pending
      OBVIOUS
    <3>1. conn.hasSent /\ b \notin Changed /\ b \notin conn.pending
      <4> HIDE DEF BuiltSums, Changed
      <4>1. Fetch(Changed, BuiltSums) = IF conn.hasSent THEN Changed \cup (conn.pending \cap DOMAIN BuiltSums) ELSE DOMAIN BuiltSums
        BY DEF Fetch
      <4>2. conn.hasSent
        BY <4>1
      <4>3. Fetch(Changed, BuiltSums) = Changed \cup (conn.pending \cap DOMAIN BuiltSums)
        BY <4>1, <4>2
      <4> QED BY <4>2, <4>3
    <3>2. ~IsUpdated(b, conn.lastChecksums, BuiltSums)
      <4> HIDE DEF BuiltSums
      <4> QED BY <3>1 DEF Changed
    <3> HIDE DEF BuiltSums
    <3> QED BY <3>1, <3>2 DEF IsUpdated
  <2> HIDE DEF BuiltLine, BuiltSums, Changed, Fetch
  <2>6. \A b \in DOMAIN BuiltSums : BuiltSums[b] = SumsOf(bucket_data[b], conn.watched)
    BY <2>2, <2>3
  <2> QED BY <1>2, <2>1, <2>4, <2>5, <2>6 DEF ReadyOK
<1>9. DownloadOK(bucket_data, op_id, conn', client')
  BY <1>2, <1>4, <1>5, <1>6, <1>7, <1>8 DEF DownloadOK
<1> QED BY <1>0, <1>1, <1>9, DownloadStep

-----------------------------------------------------------------------------
(***************************************************************************)
(* The line that is sent leaves out only buckets with nothing to download, *)
(* whatever the line before it, that it may have interrupted, had left.    *)
(***************************************************************************)
LEMMA SendLine_Download ==
  ASSUME DownloadInv, SendLine
  PROVE  DownloadInv'
<1> DEFINE line == conn.next
           D == bucket_data
<1>0. StreamInv /\ StreamInv' /\ DownloadOK(bucket_data, op_id, conn, client) /\ conn \in ConnState
      /\ StreamOK(conn, client, bucketsAt) /\ BucketsOK(bucketsAt, checkpoint) /\ IsWritten(D, op_id)
  BY SendLine_Inv, DownloadFields, StreamFields
<1>1. UNCHANGED <<compactVars, bucketsAt>> /\ conn.builder = "ready"
  BY DEF SendLine
<1>2.        /\ NextOK(conn, bucketsAt) /\ line \in Line /\ conn.watched \in DOMAIN bucketsAt
             /\ conn.step = "idle"
             /\ conn' \in ConnState /\ conn'.step = "batch" /\ conn'.builder = "off" /\ conn'.line = line
             /\ conn'.watched = conn.watched /\ conn'.after = conn.after
             /\ conn'.lastChecksums = line.sums /\ conn'.hasSent
             /\ DOMAIN conn'.positions = DOMAIN line.sums
             /\ \A b \in DOMAIN line.sums : conn'.positions[b] = Get(conn.positions, b, 0)
             /\ conn'.pending = line.fetch /\ conn'.todo = line.fetch
             /\ DOMAIN client'.data = DOMAIN client.data \cap DOMAIN line.sums
             /\ \A b \in DOMAIN client'.data : client'.data[b] = client.data[b]
  BY <1>0, SendLineIs
<1>3. ReadyOK(D, conn)
  BY <1>0, <1>1 DEF DownloadOK
<1> HIDE DEF D
<1>4. line.checkpoint = conn.watched /\ conn.watched \in Nat
  BY <1>0, <1>2 DEF NextOK, BucketsOK
<1>5. \A b \in DOMAIN line.sums : line.sums[b] = SumsOf(D[b], conn.watched)
  BY <1>3 DEF ReadyOK
<1>6. ASSUME conn.hasSent
      PROVE  /\ LineOK(D, conn) /\ SentOK(conn, client, bucketsAt)
             /\ conn.line.checkpoint \in Nat /\ conn.line.checkpoint <= conn.watched
             /\ \A b \in DOMAIN conn.lastChecksums : b \in Buckets /\ b \in DOMAIN conn.positions /\ conn.positions[b] \in Nat
  <2>1. LineOK(D, conn) /\ SentOK(conn, client, bucketsAt)
    BY <1>0, <1>6 DEF DownloadOK, StreamOK, D
  <2>2. conn.line.checkpoint \in Nat /\ conn.line.checkpoint <= conn.watched
    BY <1>0, <2>1, ConnFields, LineFields DEF LineOK
  <2>3. \A b \in DOMAIN conn.lastChecksums : b \in Buckets /\ b \in DOMAIN conn.positions /\ conn.positions[b] \in Nat
    BY <1>0, <2>1, ConnFields, PartialFields DEF SentOK
  <2> QED BY <2>1, <2>2, <2>3
<1>7. ASSUME NEW b \in DOMAIN line.sums
      PROVE  conn'.positions[b] <= conn.watched \/ conn'.positions[b] = Get(conn.after, b, 0)
  <2>1. CASE conn.hasSent /\ b \in DOMAIN conn.lastChecksums
    <3>1. conn'.positions[b] = conn.positions[b]
      BY <1>2, <1>6, <1>7, <2>1 DEF Get
    <3>2. conn.positions[b] <= conn.line.checkpoint \/ conn.positions[b] = Get(conn.after, b, 0)
      BY <1>6, <2>1 DEF LineOK
    <3>3. conn.positions[b] \in Nat /\ conn.line.checkpoint \in Nat /\ conn.line.checkpoint <= conn.watched
      BY <1>6, <2>1
    <3> QED BY <1>4, <3>1, <3>2, <3>3
  <2>2. CASE conn.hasSent /\ b \notin DOMAIN conn.lastChecksums
    <3>1. DOMAIN conn.positions = DOMAIN conn.lastChecksums
      BY <1>6, <2>2 DEF SentOK
    <3>2. conn'.positions[b] = 0
      BY <1>2, <2>2, <3>1 DEF Get
    <3> QED BY <1>4, <3>2
  <2>3. CASE ~conn.hasSent
    <3>1. conn.after = conn.positions
      BY <1>0, <1>2, <2>3 DEF StreamOK, FirstOK
    <3> QED BY <1>2, <3>1
  <2> QED BY <2>1, <2>2, <2>3
<1>8. ASSUME NEW b \in DOMAIN line.sums, b \notin line.fetch
      PROVE  conn'.positions[b] <= conn.watched /\ Between(D[b], conn'.positions[b], conn.watched) = {}
  <2>1. conn.hasSent
    BY <1>3, <1>8 DEF ReadyOK
  <2>2. b \in DOMAIN conn.lastChecksums /\ conn.lastChecksums[b] = line.sums[b] /\ b \notin conn.pending
    BY <1>3, <1>8 DEF ReadyOK
  <2> DEFINE a == conn.positions[b]
             j == conn.line.checkpoint
  <2>3. conn'.positions[b] = a
    BY <1>2, <1>6, <1>8, <2>1, <2>2 DEF Get
  <2>4. a <= j /\ Between(D[b], a, j) = {} /\ SumsOf(D[b], j) = SumsOf(D[b], conn.watched)
    BY <1>5, <1>6, <2>1, <2>2 DEF LineOK, LeftAt
  <2>5. a \in Nat /\ j \in Nat /\ j <= conn.watched /\ b \in Buckets
    BY <1>6, <2>1, <2>2
  <2> HIDE DEF a, j
  <2>6. Between(D[b], a, conn.watched) = {}
    BY <1>0, <1>4, <2>4, <2>5, StillNothingLeft
  <2>7. a <= conn.watched
    BY <1>4, <2>4, <2>5
  <2> QED BY <2>3, <2>6, <2>7
<1>9. LineOK(D, conn')
  <2>1. conn'.line.checkpoint = conn.watched /\ conn'.line.checkpoint <= conn'.watched /\ conn'.pending \subseteq conn'.line.fetch
    BY <1>2, <1>4
  <2> HIDE DEF line
  <2>2. \A b \in DOMAIN conn'.lastChecksums : conn'.lastChecksums[b] = SumsOf(D[b], conn'.line.checkpoint)
    BY <1>2, <1>5, <2>1
  <2>3. \A b \in DOMAIN conn'.lastChecksums :
          conn'.positions[b] <= conn'.line.checkpoint \/ conn'.positions[b] = Get(conn'.after, b, 0)
    BY <1>2, <1>7, <2>1
  <2>4. \A b \in DOMAIN conn'.lastChecksums : b \notin conn'.pending =>
          conn'.positions[b] <= conn'.line.checkpoint /\ LeftAt(D, conn', b) = {}
    BY <1>2, <1>8, <2>1 DEF LeftAt
  <2> QED BY <2>1, <2>2, <2>3, <2>4 DEF LineOK
<1>10. TodoOK(D, conn')
  <2> HIDE DEF line
  <2> QED BY <1>2, <1>4, <1>8 DEF TodoOK, LeftAt
<1>11. DataOK(D, op_id, client')
  <2>1. \A b \in DOMAIN client'.data : b \in DOMAIN client.data /\ client'.data[b] = client.data[b]
    BY <1>2
  <2> QED BY <1>0, <2>1, DataSame DEF DownloadOK, D
<1>12. DownloadOK(bucket_data, op_id, conn', client')
  BY <1>2, <1>9, <1>10, <1>11 DEF DownloadOK, D
<1> QED BY <1>0, <1>1, <1>12, DownloadStep

LEMMA StartBatch_Download ==
  ASSUME DownloadInv, StartBatch
  PROVE  DownloadInv'
<1>0. StreamInv /\ StreamInv' /\ DownloadOK(bucket_data, op_id, conn, client) /\ conn \in ConnState
  BY StartBatch_Inv, DownloadFields, StreamFields
<1>1. UNCHANGED <<compactVars, bucketsAt, client, disconnects>> /\ conn.step = "batch"
  BY DEF StartBatch
<1> DEFINE rows == FirstOf(LeftRows, BatchLimit)
<1>2.        /\ conn' \in ConnState /\ conn'.step = "sending" /\ conn'.builder = conn.builder
             /\ conn'.next = conn.next /\ conn'.line = conn.line
             /\ conn'.watched = conn.watched /\ conn'.after = conn.after
             /\ conn'.lastChecksums = conn.lastChecksums /\ conn'.hasSent = conn.hasSent
             /\ conn'.positions = conn.positions /\ conn'.pending = conn.pending /\ conn'.todo = conn.todo
             /\ conn'.rows = rows /\ conn'.isFull = (Cardinality(rows) = BatchLimit)
  BY <1>0, StartBatchIs
<1>3. conn.watched <= conn'.watched
  BY <1>0, <1>2, ConnFields
<1>4. conn.hasSent => LineOK(bucket_data, conn')
  BY <1>0, <1>2, <1>3, LineSame DEF DownloadOK
<1>5. conn.builder = "ready" => ReadyOK(bucket_data, conn')
  BY <1>0, <1>2, ReadySame DEF DownloadOK
<1>6. TodoOK(bucket_data, conn')
  BY <1>0, <1>1, <1>2, TodoSame DEF DownloadOK
<1>7. BatchOK(bucket_data, conn')
  <2>1. LeftOf(bucket_data, conn') = LeftRows
    BY <1>2 DEF LeftOf, LeftAt, LeftRows, InQuery, Current
  <2>2. RowsOK(LeftRows) /\ BatchLimit \in Nat /\ BatchLimit # 0
    BY <1>0, <1>1, LeftOK, StreamLimitsAssumption
  <2>3. rows \subseteq LeftRows
    BY DEF FirstOf
  <2>4. \A p \in rows, s \in LeftRows : Before(s, p) => s \in rows
    BY <2>2, FirstClosed
  <2>5. rows = LeftRows \/ Cardinality(rows) = BatchLimit
    BY <2>2, FirstAll
  <2>6. rows = {} => Cardinality(rows) # BatchLimit
    BY <2>2, FS_EmptySet
  <2> HIDE DEF rows
  <2>7. conn'.rows = {} => conn'.isFull = FALSE
    BY <1>2, <2>6
  <2>8. conn'.isFull \/ conn'.rows = LeftRows
    BY <1>2, <2>5
  <2> QED BY <1>2, <2>1, <2>3, <2>4, <2>7, <2>8 DEF BatchOK
<1>8. DataOK(bucket_data, op_id, client')
  BY <1>0, <1>1 DEF DownloadOK
<1>9. DownloadOK(bucket_data, op_id, conn', client')
  BY <1>2, <1>4, <1>5, <1>6, <1>7, <1>8 DEF DownloadOK
<1> QED BY <1>0, <1>1, <1>9, DownloadStep

LEMMA LoopDownload ==
  ASSUME DownloadInv, conn.step \in {"batch", "sending"}, conn.rows = {},
         NEW step \in {"idle", "batch"}, NEW todo \in SUBSET conn.todo,
         conn' = [conn EXCEPT !.step = step, !.todo = todo],
         client' \in ClientState, client'.target = client.target, client'.checkpoint = client.checkpoint,
         client'.data = client.data, UNCHANGED <<compactVars, bucketsAt, disconnects>>,
         \A b \in conn.todo \ todo : LeftAt(bucket_data, conn, b) = {}
  PROVE  DownloadInv'
<1>0. StreamInv /\ DownloadOK(bucket_data, op_id, conn, client) /\ conn \in ConnState
  BY DownloadFields, StreamFields
<1>1.    /\ StreamInv'
         /\ conn' \in ConnState /\ conn'.step = step /\ conn'.todo = todo /\ conn'.builder = conn.builder
         /\ conn'.next = conn.next /\ conn'.line = conn.line
         /\ conn'.watched = conn.watched /\ conn'.after = conn.after
         /\ conn'.lastChecksums = conn.lastChecksums /\ conn'.hasSent = conn.hasSent
         /\ conn'.positions = conn.positions /\ conn'.pending = conn.pending
  BY <1>0, LoopMoves
<1>2. conn.watched <= conn'.watched
  BY <1>0, <1>1, ConnFields
<1>3. conn.hasSent => LineOK(bucket_data, conn')
  BY <1>0, <1>1, <1>2, LineSame DEF DownloadOK
<1>4. conn.builder = "ready" => ReadyOK(bucket_data, conn')
  BY <1>0, <1>1, ReadySame DEF DownloadOK
<1>5. TodoOK(bucket_data, conn')
  <2>1. TodoOK(bucket_data, conn)
    BY <1>0 DEF DownloadOK
  <2> QED BY <1>1, <2>1 DEF TodoOK, LeftAt
<1>6. DataOK(bucket_data, op_id, client')
  BY <1>0 DEF DownloadOK, DataOK
<1>7. DownloadOK(bucket_data, op_id, conn', client')
  BY <1>1, <1>3, <1>4, <1>5, <1>6 DEF DownloadOK
<1> QED BY <1>1, <1>7, DownloadStep

LEMMA Interrupt_Download ==
  ASSUME DownloadInv, Interrupt
  PROVE  DownloadInv'
<1>1. conn.step = "batch" /\ UNCHANGED <<compactVars, bucketsAt, client, disconnects>> /\ conn \in ConnState
  BY DownloadFields, StreamFields DEF Interrupt
<1>2. conn' = [conn EXCEPT !.step = "idle", !.todo = conn.todo]
  BY <1>1 DEF Interrupt, ConnState
<1>3. conn.rows = {} /\ client \in ClientState
  BY <1>1, DownloadFields, StreamFields DEF StreamOK
<1> QED BY <1>1, <1>2, <1>3, LoopDownload

(* At the end of a batch that was not full, nothing is left of its buckets. *)
LEMMA BatchDone ==
  ASSUME DownloadInv, conn.step = "sending", conn.rows = {}, ~conn.hasMore
  PROVE  \A b \in Current(conn) : LeftAt(bucket_data, conn, b) = {}
<1>0. StreamInv /\ BatchOK(bucket_data, conn)
  BY DownloadFields DEF DownloadOK
<1>1. LeftOf(bucket_data, conn) = {}
  BY <1>0 DEF BatchOK
<1> SUFFICES ASSUME NEW b \in Current(conn), NEW o \in LeftAt(bucket_data, conn, b) PROVE FALSE
  OBVIOUS
<1>2. b \in Buckets /\ b \in DOMAIN conn.positions
  BY <1>0, LineBuckets DEF Current
<1>3. o \in Op
  BY <1>2, DownloadFields DEF LeftAt, Between
<1>4. <<b, o>> \in LeftOf(bucket_data, conn)
  BY <1>2, <1>3 DEF LeftOf
<1> QED BY <1>1, <1>4

LEMMA EndBatch_Download ==
  ASSUME DownloadInv, EndBatch
  PROVE  DownloadInv'
<1>0. conn.step = "sending" /\ conn.rows = {} /\ UNCHANGED <<compactVars, bucketsAt, disconnects>>
      /\ client \in ClientState /\ StreamInv /\ StreamInv'
  BY DownloadFields, EndBatch_Inv, StreamFields DEF EndBatch
<1>1. CASE /\ client' = client
           /\ conn' = [conn EXCEPT !.step = IF conn.hasMore THEN "batch" ELSE "idle", !.todo = conn.todo]
  <2>1. PICK step \in {"idle", "batch"} : conn' = [conn EXCEPT !.step = step, !.todo = conn.todo]
    BY <1>1
  <2> QED BY <1>0, <1>1, <2>1, LoopDownload
<1>2. CASE \E keep : /\ keep \subseteq DOMAIN client.data /\ conn' = Closed
                     /\ client' = [client EXCEPT !.data = [b \in keep |-> client.data[b]]]
  <2>1. \A b \in DOMAIN client'.data : b \in DOMAIN client.data /\ client'.data[b] = client.data[b]
    BY <1>0, <1>2, InvalidOK
  <2>2. conn' = Closed
    BY <1>2
  <2> QED BY <1>0, <2>1, <2>2, Close_Download
<1>3. CASE /\ client' = [client EXCEPT
                    !.applied = IF IsLastPriority THEN [b \in Completed |-> Shown(b)]
                                ELSE [b \in DOMAIN @ \cup Completed |-> IF b \in Completed THEN Shown(b) ELSE @[b]],
                    !.isComplete = IsLastPriority]
           /\ conn' = [conn EXCEPT !.step = IF IsLastPriority THEN "idle" ELSE "batch",
                                   !.todo = IF IsLastPriority THEN conn.todo ELSE conn.todo \ Current(conn)]
           /\ ~conn.hasMore
  <2>1. PICK step \in {"idle", "batch"}, todo \in SUBSET conn.todo :
          conn' = [conn EXCEPT !.step = step, !.todo = todo] /\ conn.todo \ todo \subseteq Current(conn)
    BY <1>3
  <2>2. Completed \in SUBSET Buckets /\ IsLastPriority \in BOOLEAN
    BY <1>0, CompletedIs DEF IsLastPriority
  <2>3. client' \in ClientState /\ client'.target = client.target /\ client'.checkpoint = client.checkpoint
         /\ client'.data = client.data
    BY <1>0, <1>3, <2>2, AppliedIs
  <2>4. \A b \in Current(conn) : LeftAt(bucket_data, conn, b) = {}
    BY <1>0, <1>3, BatchDone
  <2>5. \A b \in conn.todo \ todo : LeftAt(bucket_data, conn, b) = {}
    BY <2>1, <2>4
  <2> QED BY <1>0, <2>1, <2>3, <2>5, LoopDownload
<1> QED BY <1>0, <1>1, <1>2, <1>3, EndBatchIs

-----------------------------------------------------------------------------
(***************************************************************************)
(* A data line has all that is left of its bucket up to its last row. Only *)
(* then is the position of that row the one to go on from.                 *)
(***************************************************************************)
LEMMA ChunkExact ==
  ASSUME DownloadInv, conn.step = "sending", conn.rows # {}
  PROVE  LET b == FirstRow(conn.rows)[1]
             ops == ChunkOps(conn.rows)
             last == LastOp(ops).op_id
         IN  /\ b \in conn.todo /\ b \in Current(conn) /\ b \in Buckets
             /\ b \in DOMAIN conn.positions /\ conn.positions[b] \in Nat
             /\ last \in Nat /\ conn.positions[b] < last /\ last <= conn.line.checkpoint /\ last <= op_id
             /\ \A r \in LeftOf(bucket_data, conn) : r \in Chunk(conn.rows) <=> r[1] = b /\ r[2].op_id <= last
             /\ Chunk(conn.rows) \subseteq LeftOf(bucket_data, conn)
             /\ ops = Between(bucket_data[b], conn.positions[b], last)
<1> DEFINE R == conn.rows
           L == LeftOf(bucket_data, conn)
           b == FirstRow(R)[1]
           ops == ChunkOps(R)
           last == LastOp(ops).op_id
<1>0. /\ StreamInv /\ BatchOK(bucket_data, conn) /\ RowsOK(R) /\ R # {} /\ conn \in ConnState
      /\ IsWritten(bucket_data, op_id)
  BY DownloadFields, StreamFields DEF DownloadOK, StreamOK
<1>1. RowsOK(L)
  <2>1. L = LeftRows
    BY DEF LeftOf, LeftAt, LeftRows, InQuery
  <2> HIDE DEF L
  <2> QED BY <1>0, <2>1, LeftOK
<1>2. R \subseteq L /\ \A p \in R, s \in L : Before(s, p) => s \in R
  BY <1>0 DEF BatchOK
<1>3. /\ FirstRow(R) \in R /\ b \in Buckets
      /\ \A o : o \in ops <=> <<b, o>> \in Chunk(R)
      /\ Chunk(R) \subseteq R /\ \A p \in Chunk(R) : p[1] = b /\ p[2] \in ops
      /\ IsOps(ops) /\ LastOp(ops) \in ops /\ last \in Nat /\ ops # {}
  BY <1>0, ChunkIs
<1>4. b \in Current(conn) /\ b \in conn.todo /\ b \in DOMAIN conn.positions /\ conn.positions[b] \in Nat
  <2>1. b \in Current(conn)
    BY <1>2, <1>3 DEF LeftOf
  <2>2. b \in conn.todo /\ b \in DOMAIN conn.positions
    BY <1>0, <2>1, LineBuckets DEF Current
  <2> QED BY <1>0, <2>1, <2>2, ConnFields, PartialFields
<1>5. \A o \in ops : o.op_id \in Nat /\ o.op_id <= last /\ o \in LeftAt(bucket_data, conn, b)
  <2>1. \A o \in ops : o.op_id \in Nat /\ o.op_id <= last
    BY <1>3, LastOpMax, OpFields DEF IsOps
  <2>2. \A o \in ops : <<b, o>> \in L
    BY <1>2, <1>3
  <2>3. \A o \in ops : o \in LeftAt(bucket_data, conn, b)
    <3> HIDE DEF b, ops
    <3> QED BY <2>2 DEF LeftOf
  <2> QED BY <2>1, <2>3
<1>6. LastOp(ops) \in bucket_data[b] /\ conn.positions[b] < last /\ last <= conn.line.checkpoint
  BY <1>3, <1>5 DEF LeftAt, Between
<1>7. last <= op_id
  BY <1>0, <1>3, <1>6, WrittenFields
<1> DEFINE z == <<b, LastOp(ops)>>
<1>8. z \in Chunk(R) /\ z \in R /\ z \in L /\ z[1] = b /\ z[2].op_id = last
  BY <1>2, <1>3
<1> HIDE DEF R, L, b, ops, last, z
<1>9. ASSUME NEW r \in L, r[1] = b, r[2].op_id <= last
      PROVE  r \in Chunk(R)
  <2>1. r[2].op_id \in Nat
    BY <1>1, RowFields
  <2>2. r = z \/ Before(r, z)
    <3>1. CASE r[2].op_id = last
      BY <1>1, <1>8, <1>9, <3>1 DEF RowsOK
    <3>2. CASE r[2].op_id < last
      BY <1>8, <1>9, <3>2 DEF Before
    <3> QED BY <1>3, <1>9, <2>1, <3>1, <3>2 DEF last
  <2>3. r \in R
    BY <1>2, <1>8, <2>2
  <2>4. Earlier(R, r) \subseteq Earlier(R, z)
    <3>1. \A q \in R : Before(q, r) => Before(q, z)
      BY <1>0, <1>8, <2>2, <2>3, RowOrder DEF R
    <3> QED BY <3>1 DEF Earlier
  <2>5. Cardinality(Earlier(R, r)) <= Cardinality(Earlier(R, z))
    <3>1. IsFiniteSet(Earlier(R, z))
      BY <1>0, <1>8, RowFields DEF R
    <3> QED BY <2>4, <3>1, FS_Subset
  <2>6. Cardinality(Earlier(R, z)) < ChunkLimit
    BY <1>8 DEF Chunk, Earlier
  <2>7. Cardinality(Earlier(R, r)) < ChunkLimit
    <3>1. Cardinality(Earlier(R, r)) \in Nat /\ Cardinality(Earlier(R, z)) \in Nat
      BY <1>0, <1>8, <2>3, RowFields DEF R
    <3> QED BY <2>5, <2>6, <3>1, StreamLimitsAssumption
  <2> QED BY <1>9, <2>3, <2>7 DEF Chunk, Earlier, b
<1>10. ASSUME NEW r \in Chunk(R) PROVE r \in L /\ r[1] = b /\ r[2].op_id <= last
  <2>1. r[1] = b /\ r[2] \in ops /\ r \in L
    BY <1>2, <1>3 DEF b, ops, R
  <2> QED BY <1>5, <2>1
<1>11. ops = Between(bucket_data[b], conn.positions[b], last)
  <2>1. ASSUME NEW o \in ops PROVE o \in Between(bucket_data[b], conn.positions[b], last)
    BY <1>5 DEF LeftAt, Between
  <2>2. ASSUME NEW o \in Between(bucket_data[b], conn.positions[b], last) PROVE o \in ops
    <3>1. o \in bucket_data[b] /\ conn.positions[b] < o.op_id /\ o.op_id <= last /\ o \in Op /\ o.op_id \in Nat
      BY <1>0, <1>3, WrittenFields DEF Between, b, R
    <3>2. conn.line.checkpoint \in Nat
      BY <1>0, ConnFields, LineFields
    <3>3. o.op_id <= conn.line.checkpoint
      BY <1>3, <1>6, <3>1, <3>2 DEF last, ops, b, R
    <3>4. <<b, o>> \in L
      BY <1>3, <1>4, <3>1, <3>3 DEF L, LeftOf, LeftAt, Between, b, R
    <3>5. <<b, o>> \in Chunk(R)
      BY <1>9, <3>1, <3>4
    <3> QED BY <1>3, <3>5 DEF b, ops, R
  <2> QED BY <2>1, <2>2
<1> QED BY <1>3, <1>4, <1>6, <1>7, <1>9, <1>10, <1>11 DEF b, ops, last, L, R

(* What is left after a data line, and that the batch knows about it. *)
LEMMA AfterChunk ==
  ASSUME DownloadInv, conn.step = "sending", conn.rows # {},
         NEW q, q.line = conn.line, q.todo = conn.todo,
         q.positions = [conn.positions EXCEPT ![FirstRow(conn.rows)[1]] = LastOp(ChunkOps(conn.rows)).op_id]
  PROVE  LET b == FirstRow(conn.rows)[1]
         IN  /\ \A x \in DOMAIN conn.positions : LeftAt(bucket_data, q, x) \subseteq LeftAt(bucket_data, conn, x)
             /\ LeftOf(bucket_data, q) = LeftOf(bucket_data, conn) \ Chunk(conn.rows)
             /\ ~MoreRows => LeftAt(bucket_data, q, b) = {}
<1> DEFINE R == conn.rows
           L == LeftOf(bucket_data, conn)
           b == FirstRow(R)[1]
           ops == ChunkOps(R)
           last == LastOp(ops).op_id
           K == conn.line.checkpoint
<1>0. /\ StreamInv /\ BatchOK(bucket_data, conn) /\ RowsOK(R) /\ conn \in ConnState
      /\ IsWritten(bucket_data, op_id)
  BY DownloadFields, StreamFields DEF DownloadOK, StreamOK
<1>1. RowsOK(L)
  <2>1. L = LeftRows
    BY DEF LeftOf, LeftAt, LeftRows, InQuery
  <2> HIDE DEF L
  <2> QED BY <1>0, <2>1, LeftOK
<1>2. R \subseteq L /\ (\A p \in R, s \in L : Before(s, p) => s \in R) /\ (conn.isFull \/ R = L)
  BY <1>0 DEF BatchOK
<1>3. /\ b \in conn.todo /\ b \in Current(conn) /\ b \in Buckets
      /\ b \in DOMAIN conn.positions /\ conn.positions[b] \in Nat
      /\ last \in Nat /\ conn.positions[b] < last /\ last <= K
      /\ \A r \in L : r \in Chunk(R) <=> r[1] = b /\ r[2].op_id <= last
  BY ChunkExact
<1>4. FirstRow(R) \in R /\ \A p \in R : ~Before(p, FirstRow(R))
  <2>1. \E p \in R : \A r \in R : ~Before(r, p)
    BY <1>0, FirstExists
  <2> QED BY <2>1 DEF FirstRow
<1>5. DOMAIN conn.positions = DOMAIN q.positions /\ \A x \in DOMAIN q.positions : q.positions[x] = IF x = b THEN last ELSE conn.positions[x]
  OBVIOUS
<1> HIDE DEF b, ops, last, L, R
<1>6. \A x \in DOMAIN conn.positions : x # b => LeftAt(bucket_data, q, x) = LeftAt(bucket_data, conn, x)
  BY <1>5 DEF LeftAt
<1>7. \A o \in bucket_data[b] : o.op_id \in Nat
  BY <1>0, <1>3, WrittenFields
<1>8. \A o : o \in LeftAt(bucket_data, q, b) <=> o \in LeftAt(bucket_data, conn, b) /\ ~(o.op_id <= last)
  BY <1>3, <1>5, <1>7 DEF LeftAt, Between
<1>9. \A x \in DOMAIN conn.positions : LeftAt(bucket_data, q, x) \subseteq LeftAt(bucket_data, conn, x)
  BY <1>6, <1>8
<1>10. Current(q) = Current(conn)
  BY DEF Current
<1>11. LeftOf(bucket_data, q) = L \ Chunk(R)
  <2>1. ASSUME NEW p \in LeftOf(bucket_data, q) PROVE p \in L \ Chunk(R)
    <3>1. p \in L
      BY <1>5, <1>9, <1>10 DEF LeftOf, L
    <3>2. p[2] \in LeftAt(bucket_data, q, p[1])
      BY DEF LeftOf
    <3>3. p[1] = b => ~(p[2].op_id <= last)
      BY <1>8, <3>2
    <3> QED BY <1>3, <3>1, <3>3
  <2>2. ASSUME NEW p \in L \ Chunk(R) PROVE p \in LeftOf(bucket_data, q)
    <3>1. p \in Buckets \X Op /\ p[1] \in Current(conn) /\ p[1] \in DOMAIN conn.positions
          /\ p[2] \in LeftAt(bucket_data, conn, p[1])
      BY DEF LeftOf, L
    <3>2. p[1] = b => ~(p[2].op_id <= last)
      BY <1>3
    <3>3. p[2] \in LeftAt(bucket_data, q, p[1])
      BY <1>6, <1>8, <3>1, <3>2
    <3> QED BY <1>5, <1>10, <3>1, <3>3 DEF LeftOf
  <2> QED BY <2>1, <2>2
<1>12. ASSUME ~MoreRows, NEW o \in LeftAt(bucket_data, q, b) PROVE FALSE
  <2> DEFINE s == <<b, o>>
  <2>1. o \in Op
    BY <1>3, DownloadFields DEF LeftAt, Between
  <2>2. s \in LeftOf(bucket_data, q)
    BY <1>3, <1>5, <1>10, <2>1 DEF LeftOf
  <2>3. s \in L /\ s \notin Chunk(R) /\ s[1] = b
    BY <1>11, <2>2
  <2> HIDE DEF s
  <2>4. CASE R \ Chunk(R) = {}
    <3>1. ~conn.isFull
      BY <1>12, <2>4 DEF MoreRows, R
    <3>2. s \in R
      BY <1>2, <2>3, <3>1
    <3> QED BY <2>3, <2>4, <3>2
  <2>5. CASE R \ Chunk(R) # {}
    <3>1. \A p \in R \ Chunk(R) : p[1] # b
      BY <1>12, <2>5 DEF MoreRows, R, b
    <3>2. PICK p \in R \ Chunk(R) : p[1] # b
      BY <2>5, <3>1
    <3>3. p[1] \in Nat /\ b \in Nat
      BY <1>0, <1>4, RowFields DEF b
    <3>4. b < p[1]
      BY <1>4, <3>2, <3>3 DEF Before, b
    <3>5. Before(s, p)
      BY <2>3, <3>4 DEF Before
    <3>6. s \in R
      BY <1>2, <2>3, <3>5
    <3> QED BY <2>3, <3>1, <3>6
  <2> QED BY <2>4, <2>5
<1> QED BY <1>9, <1>11, <1>12 DEF b, L, R

LEMMA ReceivesState ==
  ASSUME DownloadInv, conn.step = "sending", conn.rows # {}
  PROVE  LET b == FirstRow(conn.rows)[1]
             last == LastOp(ChunkOps(conn.rows)).op_id
         IN  Received(client, b, ChunkOps(conn.rows)) = [position |-> last, reduced |-> StateAt(bucket_data[b], last)]
<1> DEFINE b == FirstRow(conn.rows)[1]
           ops == ChunkOps(conn.rows)
           last == LastOp(ops).op_id
           a == conn.positions[b]
<1>0. /\ StreamInv /\ DataOK(bucket_data, op_id, client) /\ IsWritten(bucket_data, op_id)
      /\ SentOK(conn, client, bucketsAt)
  BY DownloadFields, LineBuckets DEF DownloadOK
<1>1. /\ b \in conn.todo /\ b \in Buckets
      /\ a \in Nat /\ last \in Nat /\ a < last
      /\ ops = Between(bucket_data[b], a, last)
  BY ChunkExact
<1>2. a = PositionAt(client, b)
  BY <1>0, <1>1 DEF SentOK
<1> HIDE DEF b, ops, last, a
<1>3. Get(client.data, b, NoData).reduced = StateAt(bucket_data[b], a)
  <2>1. CASE b \in DOMAIN client.data
    BY <1>0, <1>2, <2>1 DEF DataOK, PositionAt, Get
  <2>2. CASE b \notin DOMAIN client.data
    <3>1. Get(client.data, b, NoData) = NoData /\ a = 0
      BY <1>2, <2>2, EmptyBucketIs DEF PositionAt, Get
    <3>2. NoData.reduced = EmptyBucket
      BY EmptyBucketIs
    <3>3. StateAt(bucket_data[b], 0) = EmptyBucket
      BY <1>0, <1>1, NothingAtFirst
    <3> QED BY <3>1, <3>2, <3>3
  <2> QED BY <2>1, <2>2
<1>4. Reduce(StateAt(bucket_data[b], a), ops) = StateAt(bucket_data[b], last)
  BY <1>0, <1>1, GoesOn
<1>5. Received(client, b, ops) = [position |-> last, reduced |-> StateAt(bucket_data[b], last)]
  BY <1>3, <1>4 DEF Received, last
<1> QED BY <1>5 DEF b, ops, last

LEMMA SendChunk_Download ==
  ASSUME DownloadInv, SendChunk
  PROVE  DownloadInv'
<1> DEFINE b == FirstRow(conn.rows)[1]
           ops == ChunkOps(conn.rows)
           last == LastOp(ops).op_id
           D == bucket_data
<1>0. StreamInv /\ StreamInv' /\ DownloadOK(D, op_id, conn, client) /\ conn \in ConnState
  BY SendChunk_Inv, DownloadFields, StreamFields
<1>1. UNCHANGED <<compactVars, bucketsAt, disconnects>>
  BY DEF SendChunk
<1>2.        /\ conn.step = "sending" /\ conn.rows # {} /\ b \in conn.todo
             /\ conn' \in ConnState
             /\ (conn'.step = "idle" /\ conn'.rows = {}) \/ (conn'.step = "sending" /\ conn'.rows = conn.rows \ Chunk(conn.rows))
             /\ conn'.builder = conn.builder \/ (conn.builder = "off" /\ conn'.builder = "watching")
             /\ conn'.next = conn.next /\ conn'.line = conn.line
             /\ conn'.watched = conn.watched /\ conn'.after = conn.after
             /\ conn'.lastChecksums = conn.lastChecksums /\ conn'.hasSent = conn.hasSent
             /\ conn'.positions = [conn.positions EXCEPT ![b] = last]
             /\ conn'.pending = (IF MoreRows THEN conn.pending ELSE conn.pending \ {b})
             /\ conn'.todo = conn.todo /\ conn'.isFull = conn.isFull
             /\ conn'.hasMore = (conn.hasMore \/ MoreRows)
             /\ DOMAIN client'.data = DOMAIN client.data \cup {b}
             /\ client'.data[b] = Received(client, b, ops)
             /\ \A x \in DOMAIN client.data : x # b => client'.data[x] = client.data[x]
  BY <1>0, SendChunkIs
<1>3. /\ b \in Current(conn) /\ b \in DOMAIN conn.positions
      /\ last \in Nat /\ last <= conn.line.checkpoint /\ last <= op_id
  BY <1>2, ChunkExact
<1>4.        /\ \A x \in DOMAIN conn.positions : LeftAt(D, conn', x) \subseteq LeftAt(D, conn, x)
             /\ LeftOf(D, conn') = LeftOf(D, conn) \ Chunk(conn.rows)
             /\ ~MoreRows => LeftAt(D, conn', b) = {}
  BY <1>2, AfterChunk
<1>5. Received(client, b, ops) = [position |-> last, reduced |-> StateAt(D[b], last)]
  BY <1>2, ReceivesState
<1>6. /\ conn.hasSent /\ SentOK(conn, client, bucketsAt) /\ LineOK(D, conn) /\ TodoOK(D, conn) /\ BatchOK(D, conn)
      /\ DataOK(D, op_id, client)
  BY <1>0, <1>2, LineBuckets DEF DownloadOK
<1>7. DOMAIN conn.positions = DOMAIN conn.lastChecksums /\ conn.todo \subseteq DOMAIN conn.lastChecksums
  BY <1>6 DEF SentOK
<1> HIDE DEF b, ops, last, D
<1>8. DataOK(D, op_id, client')
  <2> SUFFICES ASSUME NEW x \in DOMAIN client'.data
               PROVE  client'.data[x].position <= op_id /\ client'.data[x].reduced = StateAt(D[x], client'.data[x].position)
    BY DEF DataOK
  <2>1. CASE x = b
    BY <1>2, <1>3, <1>5, <2>1
  <2>2. CASE x # b
    BY <1>2, <1>6, <2>2 DEF DataOK
  <2> QED BY <2>1, <2>2
<1>9. LineOK(D, conn')
  <2>1. conn'.line.checkpoint <= conn'.watched /\ conn'.pending \subseteq conn'.line.fetch
    BY <1>2, <1>6 DEF LineOK
  <2> SUFFICES ASSUME NEW x \in DOMAIN conn.lastChecksums
               PROVE  /\ conn.lastChecksums[x] = SumsOf(D[x], conn.line.checkpoint)
                      /\ conn'.positions[x] <= conn.line.checkpoint \/ conn'.positions[x] = Get(conn.after, x, 0)
                      /\ x \notin conn'.pending => conn'.positions[x] <= conn.line.checkpoint /\ LeftAt(D, conn', x) = {}
    BY <1>2, <2>1 DEF LineOK
  <2>2. /\ conn.lastChecksums[x] = SumsOf(D[x], conn.line.checkpoint)
        /\ conn.positions[x] <= conn.line.checkpoint \/ conn.positions[x] = Get(conn.after, x, 0)
        /\ x \notin conn.pending => conn.positions[x] <= conn.line.checkpoint /\ LeftAt(D, conn, x) = {}
    BY <1>6 DEF LineOK
  <2>3. conn'.positions[x] = IF x = b THEN last ELSE conn.positions[x]
    BY <1>2, <1>7
  <2>4. x \notin conn'.pending => x \notin conn.pending \/ (x = b /\ ~MoreRows)
    BY <1>2
  <2>5. LeftAt(D, conn', x) \subseteq LeftAt(D, conn, x)
    BY <1>4, <1>7
  <2>6. CASE x = b
    BY <1>3, <1>4, <2>2, <2>3, <2>4, <2>5, <2>6
  <2>7. CASE x # b
    BY <2>2, <2>3, <2>4, <2>5, <2>7
  <2> QED BY <2>6, <2>7
<1>10. conn'.builder = "ready" => ReadyOK(D, conn')
  <2>1. conn'.pending \subseteq conn.pending
    BY <1>2
  <2>2. conn'.builder = "ready" => ReadyOK(D, conn)
    BY <1>0, <1>2 DEF DownloadOK
  <2> QED BY <1>2, <2>1, <2>2, ReadySame
<1>11. TodoOK(D, conn')
  <2> SUFFICES ASSUME NEW x \in DOMAIN conn.lastChecksums \ conn.todo PROVE LeftAt(D, conn', x) = {}
    BY <1>2 DEF TodoOK
  <2>1. LeftAt(D, conn, x) = {}
    BY <1>6 DEF TodoOK
  <2> QED BY <1>4, <1>7, <2>1
<1>12. conn'.step = "sending" => BatchOK(D, conn')
  <2> SUFFICES ASSUME conn'.step = "sending" PROVE BatchOK(D, conn')
    OBVIOUS
  <2>1. conn'.rows = conn.rows \ Chunk(conn.rows)
    BY <1>2
  <2>2. /\ conn.rows \subseteq LeftOf(D, conn)
        /\ \A p \in conn.rows, s \in LeftOf(D, conn) : Before(s, p) => s \in conn.rows
        /\ conn.isFull \/ conn.rows = LeftOf(D, conn)
    BY <1>6 DEF BatchOK
  <2>3. conn'.rows \subseteq LeftOf(D, conn') /\ \A p \in conn'.rows, s \in LeftOf(D, conn') : Before(s, p) => s \in conn'.rows
    BY <1>4, <2>1, <2>2
  <2>4. conn'.isFull \/ conn'.rows = LeftOf(D, conn')
    BY <1>2, <1>4, <2>1, <2>2
  <2>5. conn'.rows = {} /\ conn'.isFull => conn'.hasMore
    <3> SUFFICES ASSUME conn'.rows = {}, conn'.isFull PROVE conn'.hasMore
      OBVIOUS
    <3>1. conn.rows \ Chunk(conn.rows) = {} /\ conn.isFull
      BY <1>2, <2>1
    <3>2. MoreRows
      BY <3>1 DEF MoreRows
    <3> QED BY <1>2, <3>2
  <2> QED BY <2>3, <2>4, <2>5 DEF BatchOK
<1>13. DownloadOK(bucket_data, op_id, conn', client')
  BY <1>2, <1>8, <1>9, <1>10, <1>11, <1>12 DEF DownloadOK, D
<1> QED BY <1>0, <1>1, <1>13, DownloadStep


-----------------------------------------------------------------------------
(* Nothing is downloaded yet. *)
LEMMA DownloadInit ==
  ASSUME Init
  PROVE  DownloadInv
<1>1. StreamInv
  BY StreamInit_Inv
<1>2. client.data = << >> /\ DOMAIN client.data = {} /\ conn = Closed
  <2>1. client = [target |-> << >>, checkpoint |-> 0, data |-> << >>, applied |-> << >>, isComplete |-> FALSE] /\ conn = Closed
    BY DEF Init
  <2> HIDE DEF Closed
  <2> QED BY <2>1
<1>3. NothingCompacted
  BY DEF NothingCompacted, Init, CompactInit, Idle
<1>4. DataOK(bucket_data, op_id, client)
  BY <1>2 DEF DataOK
<1>5. conn.hasSent = FALSE /\ conn.builder = "off" /\ conn.step = "closed"
  <2> HIDE DEF Closed
  <2> QED BY <1>2, ClosedIs
<1>6. DownloadOK(bucket_data, op_id, conn, client)
  BY <1>4, <1>5 DEF DownloadOK
<1> QED BY <1>1, <1>3, <1>6 DEF DownloadInv

LEMMA DownloadNext ==
  ASSUME DownloadInv, [Next]_vars, MaxCompactions = 0
  PROVE  DownloadInv'
<1>0. StreamInv /\ StreamInv'
  BY DownloadFields, StreamNext_Inv
<1>1. CASE StorageNext
  BY <1>1, Storage_Download
<1>2. CASE Connect
  BY <1>2, Connect_Download
<1>3. CASE Disconnect
  <2>1. conn' = Closed /\ client' = client /\ UNCHANGED <<compactVars, bucketsAt>>
    BY <1>3 DEF Disconnect
  <2>2. \A b \in DOMAIN client'.data : b \in DOMAIN client.data /\ client'.data[b] = client.data[b]
    BY <2>1
  <2> QED BY <1>0, <2>1, <2>2, Close_Download
<1>4. CASE ServerNext
  BY <1>4, Waits_Download, BuildLine_Download, SendLine_Download, StartBatch_Download, Interrupt_Download,
     SendChunk_Download, EndBatch_Download DEF ServerNext
<1>5. CASE UNCHANGED vars
  <2>1. UNCHANGED <<compactVars, bucketsAt>> /\ conn' = conn /\ client' = client
    BY <1>5 DEF vars, streamVars
  <2>2. DownloadOK(bucket_data, op_id, conn', client')
    BY <2>1, DownloadFields
  <2> QED BY <1>0, <2>1, <2>2, DownloadStep
<1> QED BY <1>1, <1>2, <1>3, <1>4, <1>5 DEF Next

LEMMA DownloadInvariant ==
  ASSUME MaxCompactions = 0
  PROVE  Spec => []DownloadInv
<1>1. Init => DownloadInv
  BY DownloadInit
<1>2. DownloadInv /\ [Next]_vars => DownloadInv'
  BY DownloadNext
<1> QED BY <1>1, <1>2, PTL DEF Spec

(* What the client has of a bucket of the line is the bucket at the server's position for it. *)
LEMMA ClientHas ==
  ASSUME DownloadInv, conn.hasSent, NEW b \in DOMAIN conn.lastChecksums
  PROVE  /\ b \in Buckets /\ b \in DOMAIN conn.positions /\ conn.positions[b] \in Nat
         /\ Get(client.data, b, NoData).reduced = StateAt(bucket_data[b], conn.positions[b])
<1>0. /\ DataOK(bucket_data, op_id, client) /\ IsWritten(bucket_data, op_id)
      /\ SentOK(conn, client, bucketsAt) /\ conn \in ConnState /\ client \in ClientState
  BY DownloadFields, StreamFields DEF DownloadOK, StreamOK
<1>1. b \in Buckets /\ b \in DOMAIN conn.positions /\ conn.positions[b] = PositionAt(client, b)
  BY <1>0, ConnFields, PartialFields DEF SentOK
<1>2. conn.positions[b] \in Nat
  BY <1>0, <1>1, DataAt
<1>3. CASE b \in DOMAIN client.data
  <2>1. client.data[b].reduced = StateAt(bucket_data[b], client.data[b].position)
    BY <1>0, <1>3 DEF DataOK
  <2>2. Get(client.data, b, NoData) = client.data[b]
    BY <1>3, GetIs
  <2>3. conn.positions[b] = client.data[b].position
    BY <1>1, <2>2 DEF PositionAt
  <2> QED BY <1>1, <1>2, <2>1, <2>2, <2>3
<1>4. CASE b \notin DOMAIN client.data
  <2>1. Get(client.data, b, NoData) = NoData /\ conn.positions[b] = 0
    BY <1>1, <1>4, EmptyBucketIs DEF PositionAt, Get
  <2>2. NoData.reduced = EmptyBucket
    BY EmptyBucketIs
  <2>3. StateAt(bucket_data[b], 0) = EmptyBucket
    BY <1>0, <1>1, NothingAtFirst
  <2> QED BY <1>1, <1>2, <2>1, <2>2, <2>3
<1> QED BY <1>1, <1>2, <1>3, <1>4

(* A bucket that has nothing left to download is what it was at the checkpoint. *)
LEMMA DownloadedIs ==
  ASSUME DownloadInv, conn.hasSent, NEW b \in DOMAIN conn.lastChecksums,
         conn.positions[b] <= conn.line.checkpoint, LeftAt(bucket_data, conn, b) = {}
  PROVE  Get(client.data, b, NoData).reduced = StateAt(bucket_data[b], conn.line.checkpoint)
<1>1. b \in Buckets /\ conn.positions[b] \in Nat /\ conn.line.checkpoint \in Nat /\ IsWritten(bucket_data, op_id)
  BY ClientHas, DownloadFields, StreamFields, ConnFields, LineFields
<1>2. Between(bucket_data[b], 0, conn.positions[b]) = Between(bucket_data[b], 0, conn.line.checkpoint)
  BY <1>1, NothingLeft DEF LeftAt
<1>3. Get(client.data, b, NoData).reduced = StateAt(bucket_data[b], conn.positions[b])
  BY ClientHas
<1> QED BY <1>2, <1>3 DEF StateAt

(***************************************************************************)
(* Without compaction, a bucket that a line does not download is up to     *)
(* date at the client, whatever lines were interrupted before it and       *)
(* whichever connections broke: pendingBucketDownloads forgets nothing,    *)
(* and an equal checksum and count mean an equal bucket, as operations are *)
(* only ever added.                                                        *)
(***************************************************************************)
THEOREM SkippedAreCurrent ==
  ASSUME MaxCompactions = 0
  PROVE  Spec => []SkippedIsCurrent
<1>1. DownloadInv => SkippedIsCurrent
  <2> SUFFICES ASSUME DownloadInv, conn.step \in {"batch", "sending"}, NEW b \in DOMAIN conn.lastChecksums \ conn.line.fetch
               PROVE  IsCurrent(b)
    BY DEF SkippedIsCurrent
  <2>1. StreamInv /\ conn.hasSent /\ LineOK(bucket_data, conn) /\ IsWritten(bucket_data, op_id)
    BY DownloadFields, LineBuckets DEF DownloadOK
  <2>2. b \notin conn.pending /\ conn.lastChecksums[b] = SumsOf(bucket_data[b], conn.line.checkpoint)
    BY <2>1 DEF LineOK
  <2>3. conn.positions[b] <= conn.line.checkpoint /\ LeftAt(bucket_data, conn, b) = {}
    BY <2>1, <2>2 DEF LineOK
  <2>4. Get(client.data, b, NoData).reduced = StateAt(bucket_data[b], conn.line.checkpoint)
    BY <2>1, <2>3, DownloadedIs
  <2>5. b \in Buckets /\ conn.line.checkpoint \in Nat
    BY <2>1, ClientHas, DownloadFields, StreamFields, ConnFields, LineFields
  <2>6. ReducedChecksum(StateAt(bucket_data[b], conn.line.checkpoint)) = SumsOf(bucket_data[b], conn.line.checkpoint).checksum
    BY <2>1, <2>5, ChecksumAt
  <2> QED BY <2>2, <2>4, <2>6 DEF IsCurrent
<1> QED BY <1>1, DownloadInvariant, PTL

(* Some bucket that is left has the highest priority. *)
LEMMA CurrentExists ==
  ASSUME NEW T \in SUBSET Buckets, T # {}
  PROVE  \E b \in T : \A d \in T : Priority[b] <= Priority[d]
<1> DEFINE S == {Priority[b] : b \in T}
<1>1. S \in SUBSET Nat /\ S # {}
  BY PriorityAssumption
<1> HIDE DEF S
<1> DEFINE P == {k \in Nat : (\E n \in S : n <= k) => \E m \in S : \A n \in S : m <= n}
<1>2. 0 \in P
  <2> SUFFICES ASSUME NEW n \in S, n <= 0 PROVE \A k \in S : n <= k
    OBVIOUS
  <2> QED BY <1>1
<1>3. ASSUME NEW k \in Nat, k \in P PROVE k + 1 \in P
  <2> SUFFICES ASSUME NEW n \in S, n <= k + 1, ~\E j \in S : j <= k PROVE \A j \in S : n <= j
    BY <1>3
  <2> QED BY <1>1
<1>4. \A k \in Nat : k \in P
  <2> HIDE DEF P
  <2> QED BY <1>2, <1>3, NatSetInduction
<1>5. PICK m \in S : \A n \in S : m <= n
  <2>1. PICK k \in S : k \in Nat
    BY <1>1
  <2> QED BY <1>4, <2>1
<1> QED BY <1>5 DEF S

(* A bucket of a completion, unless the client had it past the checkpoint when it connected. *)
LEMMA CompletedAre ==
  ASSUME DownloadInv, conn.step = "sending", conn.rows = {}, ~conn.hasMore, NEW b \in Completed,
         ~(Get(conn.after, b, 0) > conn.line.checkpoint)
  PROVE  Content(Get(client.data, b, NoData).reduced) = Content(Original(b, conn.line.checkpoint))
<1>1. /\ StreamInv /\ conn.hasSent /\ LineOK(bucket_data, conn) /\ TodoOK(bucket_data, conn)
      /\ SentOK(conn, client, bucketsAt) /\ conn \in ConnState
  BY DownloadFields, LineBuckets, StreamFields DEF DownloadOK
<1>2. b \in DOMAIN conn.lastChecksums /\ b \in Buckets /\ conn.positions[b] \in Nat /\ conn.line.checkpoint \in Nat
  BY <1>1, CompletedIs, ClientHas, ConnFields, LineFields
<1>3. b \in conn.todo => b \in Current(conn)
  <2> SUFFICES ASSUME b \in conn.todo PROVE b \in Current(conn)
    OBVIOUS
  <2>1. CASE IsLastPriority
    BY <2>1 DEF IsLastPriority, CurrentBuckets, Current
  <2>2. CASE ~IsLastPriority
    <3>1. conn.todo \in SUBSET Buckets
      BY <1>1, ConnFields
    <3>2. PICK d \in conn.todo : \A e \in conn.todo : Priority[d] <= Priority[e]
      BY <3>1, CurrentExists
    <3>3. d \in CurrentBuckets
      BY <3>2 DEF CurrentBuckets
    <3>4. Priority[b] <= Priority[d]
      BY <2>2, <3>3 DEF Completed
    <3>5. \A e \in conn.todo : Priority[e] \in Nat
      BY <3>1, PriorityAssumption
    <3>6. \A e \in conn.todo : Priority[b] <= Priority[e]
      BY <3>2, <3>4, <3>5
    <3> QED BY <3>6 DEF Current
  <2> QED BY <2>1, <2>2
<1>4. LeftAt(bucket_data, conn, b) = {}
  <2>1. CASE b \in conn.todo
    BY <1>3, <2>1, BatchDone
  <2>2. CASE b \notin conn.todo
    BY <1>1, <1>2, <2>2 DEF TodoOK
  <2> QED BY <2>1, <2>2
<1>5. conn.positions[b] <= conn.line.checkpoint
  <2>1. conn.positions[b] <= conn.line.checkpoint \/ conn.positions[b] = Get(conn.after, b, 0)
    BY <1>1, <1>2 DEF LineOK
  <2> QED BY <1>2, <2>1
<1>6. Get(client.data, b, NoData).reduced = StateAt(bucket_data[b], conn.line.checkpoint)
  BY <1>1, <1>2, <1>4, <1>5, DownloadedIs
<1>7. Original(b, conn.line.checkpoint) = StateAt(bucket_data[b], conn.line.checkpoint)
  BY <1>2, DownloadFields DEF Original, StateAt
<1> QED BY <1>6, <1>7

(***************************************************************************)
(* Without compaction, whenever a line completes, in full or for a         *)
(* priority, the client has been sent what each of its buckets was at the  *)
(* checkpoint of the line, however the batches and the data lines cut the  *)
(* buckets and whatever was interrupted before; except for a bucket that   *)
(* the client had past the checkpoint when it connected.                   *)
(***************************************************************************)
THEOREM DownloadsAreConsistent ==
  ASSUME MaxCompactions = 0
  PROVE  Spec => []DownloadsConsistent
<1>1. DownloadInv => DownloadsConsistent
  BY CompletedAre DEF DownloadsConsistent
<1> QED BY <1>1, DownloadInvariant, PTL

-----------------------------------------------------------------------------
(***************************************************************************)
(* With compaction. What a client has of a bucket at position p: the PUTs  *)
(* of the log up to p, with the checksum of the log up to p; and it shows  *)
(* the wrong rows only where a later operation supersedes them, up to n:   *)
(* the target of a MOVE or a CLEAR that it has read instead.               *)
(***************************************************************************)
Shows(r, L, p, n) ==
  /\ r.puts \subseteq {x \in L : x.op = "PUT" /\ x.op_id <= p}
  /\ ReducedChecksum(r) = SumChecksums(Between(L, 0, p))
  /\ \A x \in L : x.op = "PUT" /\ x.op_id <= p /\ ~(x \in r.puts <=> x \in Live(L, p)) =>
       \E t \in L : Supersedes(t, x) /\ p < t.op_id /\ t.op_id <= n

\* Nothing of the log is missing between p and an operation of S.
Gapless(S, L, p) ==
  \A l \in L, o \in S : p < l.op_id /\ l.op_id <= o.op_id =>
    \E d \in S : d.op_id = l.op_id \/ (d.op = "CLEAR" /\ l.op_id <= d.op_id)

\* What a query returns of a bucket that the client has up to p, and what is left of it later.
Segment(S, L, p) ==
  /\ IsLogged(S, L) /\ KeepsWritten(S, L) /\ MovesSuperseded(S, L) /\ ClearsStart(S, L) /\ Gapless(S, L, p)
  /\ \A o \in S : p < o.op_id

(* An operation of the log that a segment covers. *)
LEMMA SegmentCovers ==
  ASSUME NEW S, NEW L, NEW p \in Nat, Segment(S, L, p), NEW e \in S, NEW l \in L, p < l.op_id, l.op_id <= e.op_id
  PROVE  \E d \in S : /\ d \in Op
                      /\ \/ d = l
                         \/ d.op = "CLEAR" /\ l.op_id <= d.op_id
                         \/ d.op = "MOVE" /\ d.op_id = l.op_id
                            /\ \E t \in L : Supersedes(t, l) /\ t.op_id <= d.target_op
<1>1. IsLogged(S, L)
  BY DEF Segment
<1>2. PICK d \in S : d.op_id = l.op_id \/ (d.op = "CLEAR" /\ l.op_id <= d.op_id)
  BY DEF Segment, Gapless
<1>3. d \in Op /\ d.op \in {"PUT", "REMOVE", "MOVE", "CLEAR"} /\ d.op_id \in Nat
  BY <1>1, LoggedFields
<1>4. CASE d.op = "CLEAR"
  BY <1>2, <1>3, <1>4
<1>5. CASE d.op # "CLEAR" /\ d.op = "MOVE"
  <2>1. PICK q, t \in L : q.op_id = d.op_id /\ Supersedes(t, q) /\ t.op_id <= d.target_op
    BY <1>5 DEF Segment, MovesSuperseded
  <2>2. q = l
    BY <1>1, <1>2, <1>5, <2>1, LoggedFields
  <2> QED BY <1>2, <1>3, <1>5, <2>1, <2>2
<1>6. CASE d.op \in {"PUT", "REMOVE"}
  <2>1. d \in L
    BY <1>6 DEF Segment, KeepsWritten
  <2>2. d = l
    BY <1>1, <1>2, <1>6, <2>1, LoggedFields
  <2> QED BY <1>3, <2>2
<1> QED BY <1>3, <1>4, <1>5, <1>6

(* The checksum after a segment is that of the log. *)
LEMMA SegmentSum ==
  ASSUME NEW S, NEW L, NEW p \in Nat, Segment(S, L, p), NEW e \in S, \A o \in S : o.op_id <= e.op_id,
         NEW r \in Reduced, ReducedChecksum(r) = SumChecksums(Between(L, 0, p))
  PROVE  ReducedChecksum(Reduce(r, S)) = SumChecksums(Between(L, 0, e.op_id))
<1> DEFINE n == e.op_id
<1>1. IsLogged(S, L) /\ IsOps(S) /\ IsOps(L)
  BY DEF Segment, IsLogged
<1>2. /\ \A o \in S : o.op_id \in Nat /\ o.op \in {"PUT", "REMOVE", "MOVE", "CLEAR"} /\ o.checksum \in Nat /\ p < o.op_id
      /\ \A q \in L : q.op_id \in Nat
      /\ n \in Nat /\ p < n
  BY <1>1, LoggedFields DEF Segment
<1>3. ASSUME NEW o \in S, o.op # "CLEAR"
      PROVE  \E q \in L : q.op_id = o.op_id /\ q.checksum = o.checksum
  BY <1>2, <1>3 DEF Segment, KeepsWritten, MovesSuperseded
<1>4. CASE \A o \in S : o.op # "CLEAR"
  <2> DEFINE T == Between(L, p, n)
  <2>1. IsOps(T)
    BY <1>1, BetweenIs
  <2>2. \A o \in S : \E q \in T : q.op_id = o.op_id /\ q.checksum = o.checksum
    <3> SUFFICES ASSUME NEW o \in S PROVE \E q \in T : q.op_id = o.op_id /\ q.checksum = o.checksum
      OBVIOUS
    <3>1. PICK q \in L : q.op_id = o.op_id /\ q.checksum = o.checksum
      BY <1>3, <1>4
    <3> QED BY <1>2, <3>1 DEF Between
  <2>3. \A q \in T : \E o \in S : q.op_id = o.op_id
    <3> SUFFICES ASSUME NEW q \in T PROVE \E o \in S : q.op_id = o.op_id
      OBVIOUS
    <3>1. q \in L /\ p < q.op_id /\ q.op_id <= n
      BY DEF Between
    <3> QED BY <1>4, <3>1, SegmentCovers
  <2> HIDE DEF T
  <2>4. SumChecksums(S) = SumChecksums(T)
    BY <1>1, <2>1, <2>2, <2>3, SumSame
  <2>5. ReducedChecksum(Reduce(r, S)) = ReducedChecksum(r) + SumChecksums(S)
    BY <1>1, <1>4, ReduceSum
  <2>6. SumChecksums(Between(L, 0, n)) = SumChecksums(Between(L, 0, p)) + SumChecksums(Between(L, p, n))
    BY <1>1, <1>2, SumSplit
  <2> QED BY <2>4, <2>5, <2>6 DEF T
<1>5. CASE \E c \in S : c.op = "CLEAR"
  <2>1. PICK c \in S : c.op = "CLEAR"
    BY <1>5
  <2> DEFINE m == c.op_id
             T == Between(L, m, n)
             R == S \ {c}
  <2>2. /\ m \in Nat /\ m <= n /\ c.checksum = SumChecksums(Between(L, 0, m)) /\ \A o \in S : m <= o.op_id
    BY <1>2, <2>1 DEF Segment, ClearsStart
  <2>3. \A o \in R : m < o.op_id /\ o.op # "CLEAR"
    <3> SUFFICES ASSUME NEW o \in R PROVE m < o.op_id /\ o.op # "CLEAR"
      OBVIOUS
    <3>1. o.op_id # m
      BY <1>1, LoggedFields
    <3>2. m < o.op_id
      BY <1>2, <2>2, <3>1
    <3>3. o.op = "CLEAR" => o.op_id <= m
      BY <2>1 DEF Segment, ClearsStart
    <3> QED BY <1>2, <2>2, <3>2, <3>3
  <2>4. IsOps(T) /\ IsOps(R)
    BY <1>1, BetweenIs, FS_Subset DEF IsOps
  <2>5. \A o \in R : \E q \in T : q.op_id = o.op_id /\ q.checksum = o.checksum
    <3> SUFFICES ASSUME NEW o \in R PROVE \E q \in T : q.op_id = o.op_id /\ q.checksum = o.checksum
      OBVIOUS
    <3>1. PICK q \in L : q.op_id = o.op_id /\ q.checksum = o.checksum
      BY <1>3, <2>3
    <3> QED BY <1>2, <2>3, <3>1 DEF Between
  <2>6. \A q \in T : \E o \in R : q.op_id = o.op_id
    <3> SUFFICES ASSUME NEW q \in T PROVE \E o \in R : q.op_id = o.op_id
      OBVIOUS
    <3>1. q \in L /\ m < q.op_id /\ q.op_id <= n /\ p < q.op_id
      BY <1>2, <2>2 DEF Between
    <3>2. PICK d \in S : \/ d = q \/ (d.op = "CLEAR" /\ q.op_id <= d.op_id) \/ (d.op = "MOVE" /\ d.op_id = q.op_id)
      BY <3>1, SegmentCovers
    <3>3. q.op_id \in Nat /\ q.op # "CLEAR"
      BY <1>1, <3>1, LoggedFields
    <3>4. d # c
      <4>1. d = c => ~(q.op_id <= d.op_id)
        BY <2>2, <3>1, <3>3
      <4>2. d = c => d.op = "CLEAR" /\ d.op # "MOVE"
        BY <2>1
      <4> QED BY <2>1, <3>2, <3>3, <4>1, <4>2
    <3>5. d \in R /\ d.op # "CLEAR"
      BY <2>3, <3>4
    <3> QED BY <3>2, <3>5
  <2> HIDE DEF T, R
  <2>7. SumChecksums(R) = SumChecksums(T)
    BY <2>4, <2>5, <2>6, SumSame
  <2>8. SumChecksums(S) = c.checksum + SumChecksums(R)
    BY <1>1, <1>2, SumRemove DEF IsOps, R
  <2>9. SumChecksums(Between(L, 0, n)) = SumChecksums(Between(L, 0, m)) + SumChecksums(T)
    BY <1>1, <1>2, <2>2, SumSplit DEF T
  <2>10. ReducedChecksum(Reduce(r, S)) = SumChecksums({o \in S : o.op_id >= m})
    <3>1. \A o \in S : o.op = "CLEAR" => o.op_id <= m
      BY <2>1 DEF Segment, ClearsStart
    <3> QED BY <1>1, <2>1, <3>1, ReduceSumClear
  <2>11. {o \in S : o.op_id >= m} = S
    BY <1>2, <2>2
  <2> QED BY <2>2, <2>7, <2>8, <2>9, <2>10, <2>11
<1> QED BY <1>4, <1>5

(***************************************************************************)
(* A client that reads on, with targets up to n, still shows wrong rows    *)
(* only where something up to n supersedes them.                           *)
(***************************************************************************)
LEMMA ReadOn ==
  ASSUME NEW S, NEW L, NEW p \in Nat, Segment(S, L, p), NEW e \in S, \A o \in S : o.op_id <= e.op_id,
         NEW r \in Reduced, NEW n \in Nat, Shows(r, L, p, n), \A o \in S : o.target_op <= n
  PROVE  Shows(Reduce(r, S), L, e.op_id, n)
<1> DEFINE k == e.op_id
           s == Reduce(r, S)
<1>0. IsLogged(S, L) /\ IsOps(S)
  BY DEF Segment, IsLogged
<1>1. /\ \A o \in S : /\ o.op_id \in Nat /\ p < o.op_id /\ o.op_id <= k /\ o.op \in {"PUT", "REMOVE", "MOVE", "CLEAR"}
                      /\ o.target_op \in Nat
      /\ \A q \in L : q.op_id \in Nat /\ q.op \in {"PUT", "REMOVE"}
      /\ k \in Nat /\ p < k
  BY <1>0, LoggedFields DEF Segment
<1>2. s.puts = PutsAfter(r, S)
  BY <1>0, ReducePuts
<1>3. \A o \in S : o.op \in {"PUT", "REMOVE"} => o \in L
  BY DEF Segment, KeepsWritten
<1>4. s.puts \subseteq {x \in L : x.op = "PUT" /\ x.op_id <= k}
  <2> SUFFICES ASSUME NEW x \in PutsAfter(r, S) PROVE x \in L /\ x.op = "PUT" /\ x.op_id <= k
    BY <1>2
  <2>1. CASE x \in r.puts
    <3>1. x \in L /\ x.op = "PUT" /\ x.op_id <= p
      BY <2>1 DEF Shows
    <3> QED BY <1>1, <3>1
  <2>2. CASE x \in S /\ x.op = "PUT"
    BY <1>1, <1>3, <2>2
  <2> QED BY <2>1, <2>2 DEF PutsAfter
<1>5. ReducedChecksum(s) = SumChecksums(Between(L, 0, k))
  <2>1. ReducedChecksum(r) = SumChecksums(Between(L, 0, p))
    BY DEF Shows
  <2> QED BY <2>1, SegmentSum
<1>6. \A x, t, u : Supersedes(t, x) /\ Supersedes(u, t) /\ x.op_id \in Nat /\ t.op_id \in Nat /\ u.op_id \in Nat => Supersedes(u, x)
  BY DEF Supersedes
<1>7. ASSUME NEW x \in L, x.op = "PUT", x.op_id <= k, x \in s.puts, x \notin Live(L, k)
      PROVE  \E t \in L : Supersedes(t, x) /\ k < t.op_id /\ t.op_id <= n
  <2>1. PICK q \in L : q.op_id <= k /\ Supersedes(q, x)
    BY <1>7 DEF Live
  <2>2. PICK t \in L : t.op_id <= k /\ Supersedes(t, x) /\ \A u \in L : u.op_id <= k => ~Supersedes(u, t)
    BY <1>0, <1>1, <2>1, LastSuperseding
  <2>3. x.op_id < t.op_id /\ t.row = x.row /\ t.op_id \in Nat /\ x.op_id \in Nat
    BY <1>1, <2>2 DEF Supersedes
  <2>4. ASSUME NEW d \in S, Kills(d, x), x.op_id < d.op_id PROVE FALSE
    <3>1. d.op_id > x.op_id
      BY <1>1, <2>3, <2>4
    <3> QED BY <1>2, <1>7, <2>4, <3>1 DEF PutsAfter
  <2>5. CASE t.op_id <= p
    <3>1. x.op_id <= p /\ x \notin S
      BY <1>1, <2>3, <2>5
    <3>2. x \in r.puts
      BY <1>2, <1>7, <3>1 DEF PutsAfter
    <3>3. x \notin Live(L, p)
      BY <2>2, <2>5 DEF Live
    <3>4. PICK u \in L : Supersedes(u, x) /\ p < u.op_id /\ u.op_id <= n
      BY <1>7, <3>1, <3>2, <3>3 DEF Shows
    <3>5. Supersedes(u, t) /\ u.op_id \in Nat
      BY <1>1, <2>3, <2>5, <3>4 DEF Supersedes
    <3>6. k < u.op_id
      BY <1>1, <2>2, <3>5
    <3> QED BY <3>4, <3>6
  <2>6. CASE p < t.op_id
    <3>1. PICK d \in S : /\ d \in Op
                         /\ \/ d = t
                            \/ d.op = "CLEAR" /\ t.op_id <= d.op_id
                            \/ d.op = "MOVE" /\ d.op_id = t.op_id
                               /\ \E u \in L : Supersedes(u, t) /\ u.op_id <= d.target_op
      BY <1>1, <2>2, <2>6, SegmentCovers
    <3>2. CASE d = t
      BY <1>1, <2>3, <2>4, <3>2 DEF Kills
    <3>3. CASE d.op = "CLEAR" /\ t.op_id <= d.op_id
      <4>1. x.op_id < d.op_id
        BY <1>1, <2>3, <3>3
      <4> QED BY <2>4, <3>3, <4>1 DEF Kills
    <3>4. CASE \E u \in L : Supersedes(u, t) /\ u.op_id <= d.target_op
      <4>1. PICK u \in L : Supersedes(u, t) /\ u.op_id <= d.target_op
        BY <3>4
      <4>2. u.op_id \in Nat /\ d.target_op \in Nat /\ d.target_op <= n
        BY <1>1
      <4>3. k < u.op_id /\ u.op_id <= n
        BY <1>1, <2>2, <4>1, <4>2
      <4> QED BY <1>6, <2>2, <2>3, <4>1, <4>2, <4>3
    <3> QED BY <3>1, <3>2, <3>3, <3>4
  <2> QED BY <2>3, <2>5, <2>6
<1>8. ASSUME NEW x \in L, x.op = "PUT", x.op_id <= k, x \notin s.puts, x \in Live(L, k)
      PROVE  \E t \in L : Supersedes(t, x) /\ k < t.op_id /\ t.op_id <= n
  <2>1. x.op_id \in Nat /\ \A t \in L : Supersedes(t, x) => k < t.op_id
    <3>1. \A t \in L : t.op_id <= k => ~Supersedes(t, x)
      BY <1>8 DEF Live
    <3> QED BY <1>1, <3>1
  <2>2. ASSUME NEW d \in S, d.op = "CLEAR", x.op_id <= d.op_id
        PROVE  \E t \in L : Supersedes(t, x) /\ k < t.op_id /\ t.op_id <= n
    <3>1. PICK t \in L : Supersedes(t, x) /\ (t.op_id <= d.op_id \/ t.op_id <= d.target_op)
      BY <1>8, <2>2 DEF Segment, ClearsStart
    <3>2. t.op_id \in Nat /\ k < t.op_id /\ d.op_id <= k /\ d.op_id \in Nat /\ d.target_op \in Nat /\ d.target_op <= n
      BY <1>1, <2>1, <3>1
    <3>3. t.op_id <= n
      BY <1>1, <3>1, <3>2
    <3> QED BY <3>1, <3>2, <3>3
  <2>3. ASSUME NEW d \in S, d.op_id > x.op_id, Kills(d, x)
        PROVE  \E t \in L : Supersedes(t, x) /\ k < t.op_id /\ t.op_id <= n
    <3>1. CASE d.op = "CLEAR"
      BY <1>1, <2>1, <2>2, <2>3, <3>1
    <3>2. CASE d.op # "CLEAR"
      <4>1. d \in L /\ Supersedes(d, x)
        BY <1>1, <1>3, <2>1, <2>3, <3>2 DEF Kills, Supersedes
      <4> QED BY <1>1, <2>1, <4>1
    <3> QED BY <3>1, <3>2
  <2>4. ASSUME \A d \in S : d.op_id > x.op_id => ~Kills(d, x)
        PROVE  \E t \in L : Supersedes(t, x) /\ k < t.op_id /\ t.op_id <= n
    <3>1. CASE x.op_id <= p
      <4>1. \A d \in S : ~Kills(d, x)
        BY <1>1, <2>1, <2>4, <3>1
      <4>2. x \notin r.puts
        BY <1>2, <1>8, <4>1 DEF PutsAfter
      <4>3. x \in Live(L, p)
        BY <1>1, <1>8, <3>1 DEF Live
      <4>4. PICK t \in L : Supersedes(t, x) /\ p < t.op_id /\ t.op_id <= n
        BY <1>8, <3>1, <4>2, <4>3 DEF Shows
      <4> QED BY <2>1, <4>4
    <3>2. CASE p < x.op_id
      <4>1. PICK d \in S : /\ d \in Op
                           /\ \/ d = x
                              \/ d.op = "CLEAR" /\ x.op_id <= d.op_id
                              \/ d.op = "MOVE" /\ d.op_id = x.op_id
                                 /\ \E u \in L : Supersedes(u, x) /\ u.op_id <= d.target_op
        BY <1>8, <3>2, SegmentCovers
      <4>2. CASE d = x
        BY <1>2, <1>8, <2>4, <4>2 DEF PutsAfter
      <4>3. CASE d.op = "CLEAR" /\ x.op_id <= d.op_id
        BY <2>2, <4>3
      <4>4. CASE \E u \in L : Supersedes(u, x) /\ u.op_id <= d.target_op
        <5>1. PICK u \in L : Supersedes(u, x) /\ u.op_id <= d.target_op
          BY <4>4
        <5>2. u.op_id \in Nat /\ d.target_op \in Nat /\ d.target_op <= n /\ k < u.op_id
          BY <1>1, <2>1, <5>1
        <5>3. u.op_id <= n
          BY <5>1, <5>2
        <5> QED BY <5>1, <5>2, <5>3
      <4> QED BY <4>1, <4>2, <4>3, <4>4
    <3> QED BY <2>1, <3>1, <3>2
  <2> QED BY <2>3, <2>4
<1>9. \A x \in L : x.op = "PUT" /\ x.op_id <= k /\ ~(x \in s.puts <=> x \in Live(L, k)) =>
        \E t \in L : Supersedes(t, x) /\ k < t.op_id /\ t.op_id <= n
  BY <1>7, <1>8
<1> HIDE DEF s, k
<1>10. Shows(s, L, k, n)
  BY <1>4, <1>5, <1>9 DEF Shows
<1> QED BY <1>10 DEF s, k

LEMMA ShowsNothing ==
  ASSUME NEW D, NEW L, IsLogged(D, L), NEW n
  PROVE  Shows(EmptyBucket, L, 0, n)
<1>1. \A x \in L : x.op_id \in Nat /\ x.op_id > 0
  BY LoggedFields
<1>2. Between(L, 0, 0) = {} /\ \A x \in L : ~(x.op_id <= 0)
  BY <1>1 DEF Between
<1>3. EmptyBucket.puts = {} /\ ReducedChecksum(EmptyBucket) = 0 /\ SumChecksums({}) = 0
  BY EmptyIs, SumEmpty
<1> HIDE DEF EmptyBucket
<1> QED BY <1>2, <1>3 DEF Shows

LEMMA ShowsLater ==
  ASSUME NEW D, NEW L, IsLogged(D, L), NEW r, NEW p, NEW n \in Nat, NEW m \in Nat, n <= m, Shows(r, L, p, n)
  PROVE  Shows(r, L, p, m)
<1>1. \A t \in L : t.op_id \in Nat
  BY LoggedFields
<1>2. \A t \in L : t.op_id <= n => t.op_id <= m
  BY <1>1
<1> QED BY <1>2 DEF Shows

(* The log grows after checkpoint k. *)
Extends(M, L, k) == L \subseteq M /\ \A o \in M : o \in L \/ (o.op_id \in Nat /\ k < o.op_id)

LEMMA ExtendsBetween ==
  ASSUME NEW M, NEW L, NEW k \in Nat, Extends(M, L, k), NEW a \in Nat, NEW p \in Nat, p <= k
  PROVE  Between(M, a, p) = Between(L, a, p)
<1>1. \A o \in M : o.op_id <= p => o \in L
  BY DEF Extends
<1> QED BY <1>1 DEF Extends, Between

LEMMA ShowsGrows ==
  ASSUME NEW M, NEW L, NEW k \in Nat, Extends(M, L, k), NEW r, NEW p \in Nat, p <= k, NEW n, Shows(r, L, p, n)
  PROVE  Shows(r, M, p, n)
<1>1. L \subseteq M /\ \A o \in M : o.op_id <= p => o \in L
  BY DEF Extends
<1>2. Live(M, p) = Live(L, p)
  BY <1>1 DEF Live
<1>3. Between(M, 0, p) = Between(L, 0, p)
  BY ExtendsBetween
<1>4. r.puts \subseteq {x \in M : x.op = "PUT" /\ x.op_id <= p}
  BY <1>1 DEF Shows
<1>5. ReducedChecksum(r) = SumChecksums(Between(M, 0, p))
  BY <1>3 DEF Shows
<1>6. ASSUME NEW x \in M, x.op = "PUT", x.op_id <= p, ~(x \in r.puts <=> x \in Live(M, p))
      PROVE  \E t \in M : Supersedes(t, x) /\ p < t.op_id /\ t.op_id <= n
  <2>1. \E t \in L : Supersedes(t, x) /\ p < t.op_id /\ t.op_id <= n
    BY <1>1, <1>2, <1>6 DEF Shows
  <2> QED BY <1>1, <2>1
<1> QED BY <1>4, <1>5, <1>6 DEF Shows

LEMMA SegmentGrows ==
  ASSUME NEW M, NEW L, NEW k \in Nat, Extends(M, L, k), NEW D, IsLogged(D, M), NEW S, NEW p, Segment(S, L, p),
         \A o \in S : o.op_id <= k
  PROVE  Segment(S, M, p)
<1>1. IsLogged(S, L) /\ IsLogged(S, M)
  BY DEF Segment, IsLogged
<1>2. L \subseteq M /\ \A o \in S : o.op_id \in Nat /\ o.op_id <= k
  BY <1>1, LoggedFields DEF Extends
<1>3. \A o \in S, l \in M : l.op_id <= o.op_id => l \in L
  BY <1>2 DEF Extends
<1>4. KeepsWritten(S, M)
  BY <1>2 DEF Segment, KeepsWritten
<1>5. MovesSuperseded(S, M)
  BY <1>2 DEF Segment, MovesSuperseded
<1>6. ClearsStart(S, M)
  <2> SUFFICES ASSUME NEW o \in S, o.op = "CLEAR"
               PROVE  /\ \A q \in S : o.op_id <= q.op_id
                      /\ o.checksum = SumChecksums(Between(M, 0, o.op_id))
                      /\ \A q \in M : q.op = "PUT" /\ q.op_id <= o.op_id =>
                           \E t \in M : Supersedes(t, q) /\ (t.op_id <= o.op_id \/ t.op_id <= o.target_op)
    BY DEF ClearsStart
  <2>1. Between(M, 0, o.op_id) = Between(L, 0, o.op_id)
    BY <1>2, ExtendsBetween
  <2>2. /\ \A q \in S : o.op_id <= q.op_id
        /\ o.checksum = SumChecksums(Between(L, 0, o.op_id))
        /\ \A q \in L : q.op = "PUT" /\ q.op_id <= o.op_id =>
             \E t \in L : Supersedes(t, q) /\ (t.op_id <= o.op_id \/ t.op_id <= o.target_op)
    BY DEF Segment, ClearsStart
  <2>3. ASSUME NEW q \in M, q.op = "PUT", q.op_id <= o.op_id
        PROVE  \E t \in M : Supersedes(t, q) /\ (t.op_id <= o.op_id \/ t.op_id <= o.target_op)
    <3>1. \E t \in L : Supersedes(t, q) /\ (t.op_id <= o.op_id \/ t.op_id <= o.target_op)
      BY <1>3, <2>2, <2>3
    <3> QED BY <1>2, <3>1
  <2> QED BY <2>1, <2>2, <2>3
<1>7. Gapless(S, M, p)
  BY <1>3 DEF Segment, Gapless
<1> QED BY <1>1, <1>4, <1>5, <1>6, <1>7 DEF Segment

(* The operations of a segment up to m, and those after it. *)
LEMMA SegmentSplit ==
  ASSUME NEW S, NEW L, NEW p \in Nat, Segment(S, L, p), NEW m \in Nat, p <= m
  PROVE  /\ Segment({o \in S : o.op_id <= m}, L, p)
         /\ Segment({o \in S : m < o.op_id}, L, m)
<1> DEFINE A == {o \in S : o.op_id <= m}
           B == {o \in S : m < o.op_id}
<1>1. IsLogged(S, L)
  BY DEF Segment
<1>2. /\ \A o \in S : o.op_id \in Nat /\ p < o.op_id
      /\ \A q \in L : q.op_id \in Nat
  BY <1>1, LoggedFields DEF Segment
<1>3. IsLogged(A, L) /\ IsLogged(B, L)
  BY <1>1, FS_Subset DEF IsLogged, IsOps
<1>4. KeepsWritten(A, L) /\ KeepsWritten(B, L) /\ MovesSuperseded(A, L) /\ MovesSuperseded(B, L)
  BY DEF Segment, KeepsWritten, MovesSuperseded
<1>5. ClearsStart(A, L) /\ ClearsStart(B, L)
  BY DEF Segment, ClearsStart
<1>6. \A c, o \in S : c.op = "CLEAR" => c.op_id <= o.op_id
  BY DEF Segment, ClearsStart
<1>7. Gapless(A, L, p)
  <2> SUFFICES ASSUME NEW l \in L, NEW o \in A, p < l.op_id, l.op_id <= o.op_id
               PROVE  \E d \in A : d.op_id = l.op_id \/ (d.op = "CLEAR" /\ l.op_id <= d.op_id)
    BY DEF Gapless
  <2>1. PICK d \in S : d.op_id = l.op_id \/ (d.op = "CLEAR" /\ l.op_id <= d.op_id)
    BY DEF Segment, Gapless
  <2>2. d.op_id <= o.op_id
    BY <1>6, <2>1
  <2>3. d.op_id <= m
    BY <1>2, <2>2
  <2> QED BY <2>1, <2>3
<1>8. Gapless(B, L, m)
  <2> SUFFICES ASSUME NEW l \in L, NEW o \in B, m < l.op_id, l.op_id <= o.op_id
               PROVE  \E d \in B : d.op_id = l.op_id \/ (d.op = "CLEAR" /\ l.op_id <= d.op_id)
    BY DEF Gapless
  <2>1. p < l.op_id
    BY <1>2
  <2>2. PICK d \in S : d.op_id = l.op_id \/ (d.op = "CLEAR" /\ l.op_id <= d.op_id)
    BY <2>1 DEF Segment, Gapless
  <2>3. m < d.op_id
    BY <1>2, <2>2
  <2> QED BY <2>2, <2>3
<1>9. (\A o \in A : p < o.op_id) /\ (\A o \in B : m < o.op_id)
  BY <1>2
<1> HIDE DEF A, B
<1>10. Segment(A, L, p) /\ Segment(B, L, m)
  BY <1>3, <1>4, <1>5, <1>7, <1>8, <1>9 DEF Segment
<1> QED BY <1>10 DEF A, B

(* What a query finds of a bucket: all up to k, or the first of it. *)
LEMMA QueryIsSegment ==
  ASSUME NEW D, NEW L, IsLogged(D, L), LogOK(D, L), NEW p \in Nat, NEW S, S \subseteq D, \A o \in S : p < o.op_id,
         \A o \in S, d \in D : p < d.op_id /\ d.op_id <= o.op_id => d \in S
  PROVE  Segment(S, L, p)
<1>1. IsLogged(S, L)
  BY FS_Subset DEF IsLogged, IsOps
<1>2. KeepsWritten(S, L) /\ MovesSuperseded(S, L) /\ ClearsStart(S, L)
  BY DEF LogOK, KeepsWritten, MovesSuperseded, ClearsStart
<1>3. Gapless(S, L, p)
  <2> SUFFICES ASSUME NEW l \in L, NEW o \in S, p < l.op_id, l.op_id <= o.op_id
               PROVE  \E d \in S : d.op_id = l.op_id \/ (d.op = "CLEAR" /\ l.op_id <= d.op_id)
    BY DEF Gapless
  <2>1. PICK d \in D : d.op_id = l.op_id \/ (d.op = "CLEAR" /\ l.op_id <= d.op_id)
    BY DEF LogOK, NothingMissing
  <2>2. d.op_id <= o.op_id
    BY <2>1 DEF LogOK, ClearsStart
  <2>3. p < d.op_id
    BY <2>1, LoggedFields
  <2> QED BY <2>1, <2>2, <2>3
<1> QED BY <1>1, <1>2, <1>3 DEF Segment

(***************************************************************************)
(* When the checksum is that of checkpoint k, and wrong rows could only be *)
(* shown for what is superseded up to k, none is shown: every operation    *)
(* has a checksum, so there is none between p and k.                       *)
(***************************************************************************)
LEMMA ShowsExactly ==
  ASSUME NEW D, NEW L, IsLogged(D, L), \A o \in L : o.checksum > 0, NEW p \in Nat, NEW k \in Nat, p <= k,
         NEW r, Shows(r, L, p, k), ReducedChecksum(r) = SumChecksums(Between(L, 0, k))
  PROVE  r.puts = Live(L, k)
<1> DEFINE T == Between(L, p, k)
<1>1. IsOps(L) /\ IsOps(T) /\ \A o \in L : o.op_id \in Nat /\ o.checksum \in Nat
  BY LoggedFields, BetweenIs DEF IsLogged
<1>2. SumChecksums(Between(L, 0, k)) = SumChecksums(Between(L, 0, p)) + SumChecksums(T)
  BY <1>1, SumSplit
<1>3. SumChecksums(Between(L, 0, p)) \in Nat /\ SumChecksums(T) \in Nat
  BY <1>1, BetweenIs, SumType
<1>4. SumChecksums(T) = 0
  <2>1. ReducedChecksum(r) = SumChecksums(Between(L, 0, p))
    BY DEF Shows
  <2> HIDE DEF T
  <2> QED BY <1>2, <1>3, <2>1
<1>5. T = {}
  <2> SUFFICES ASSUME NEW x \in T PROVE FALSE
    OBVIOUS
  <2>1. x \in L /\ x.checksum > 0 /\ x.checksum \in Nat /\ \A o \in T : o.checksum \in Nat
    BY <1>1 DEF Between
  <2> HIDE DEF T
  <2>2. SumChecksums(T) = x.checksum + SumChecksums(T \ {x})
    BY <1>1, <2>1, SumRemove DEF IsOps
  <2>3. SumChecksums(T \ {x}) \in Nat
    BY <1>1, SumType, FS_Subset DEF IsOps
  <2> QED BY <1>4, <2>1, <2>2, <2>3
<1>6. \A o \in L : o.op_id <= k => o.op_id <= p
  BY <1>1, <1>5 DEF Between
<1>7. \A o \in L : o.op_id <= p => o.op_id <= k
  BY <1>1
<1>8. Live(L, k) = Live(L, p)
  BY <1>6, <1>7 DEF Live
<1>9. \A t \in L : ~(p < t.op_id /\ t.op_id <= k)
  BY <1>1, <1>6
<1>10. \A x \in L : x.op = "PUT" /\ x.op_id <= p => (x \in r.puts <=> x \in Live(L, p))
  BY <1>9 DEF Shows
<1>11. r.puts \subseteq {x \in L : x.op = "PUT" /\ x.op_id <= p} /\ Live(L, p) \subseteq {x \in L : x.op = "PUT" /\ x.op_id <= p}
  BY DEF Shows, Live
<1>12. r.puts = Live(L, p)
  BY <1>10, <1>11
<1> QED BY <1>8, <1>12

-----------------------------------------------------------------------------
(***************************************************************************)
(* Targets are not past the last checkpoint, as a compaction reads nothing *)
(* that is; and every operation of the log has a checksum.                 *)
(***************************************************************************)
ScanBounded(c) ==
  compactors[c].step = "scan" =>
    /\ \A r \in DOMAIN compactors[c].seen : compactors[c].seen[r] <= checkpoint
    /\ \A u \in compactors[c].updates : u.target_op <= checkpoint

TargetsBounded ==
  /\ \A b \in Buckets : \A o \in bucket_data[b] : o.target_op <= checkpoint
  /\ \A c \in Compactors : ScanBounded(c)

PositiveLog == \A b \in Buckets : \A o \in log[b] : o.checksum > 0

PositiveHashes == \A r \in Rows, d \in Values \cup {None} : Hash[r, d] > 0

StoreInv == LogInv /\ TargetsBounded /\ PositiveLog

(* The log only grows after the checkpoint, and an overtaken checkpoint stays so. *)
StoreGrows ==
  /\ \A b \in Buckets : Extends(log'[b], log[b], checkpoint)
  /\ \A b \in Buckets, k \in Nat : IsOvertaken(b, k) => IsOvertaken(b, k)'

LEMMA StoreFields ==
  ASSUME StoreInv
  PROVE  /\ LogInv /\ CompactInv /\ StorageOK /\ TargetsBounded /\ PositiveLog
         /\ checkpoint \in Nat /\ op_id \in Nat /\ checkpoint <= op_id
         /\ \A b \in Buckets : IsLogged(bucket_data[b], log[b]) /\ LogOK(bucket_data[b], log[b])
BY BucketLogged DEF StoreInv, LogInv, CompactInv, StorageOK

LEMMA StoreInit ==
  ASSUME CompactInit
  PROVE  StoreInv
<1>1. \A b \in Buckets : bucket_data[b] = {} /\ log[b] = {}
  BY DEF CompactInit
<1>2. \A c \in Compactors : compactors[c].step = "idle"
  BY IdleState DEF CompactInit
<1> QED BY <1>1, <1>2, CompactInit_Log DEF StoreInv, TargetsBounded, ScanBounded, PositiveLog

(* Steps of a compactor that leave the buckets alone. *)
LEMMA StoreSame ==
  ASSUME StoreInv, UNCHANGED storageVars, \A c \in Compactors : ScanBounded(c)'
  PROVE  TargetsBounded' /\ PositiveLog' /\ StoreGrows
<1>1. TargetsBounded' /\ PositiveLog'
  BY DEF StoreInv, TargetsBounded, PositiveLog, storageVars
<1>2. StoreGrows
  BY DEF StoreGrows, Extends, IsOvertaken, storageVars
<1> QED BY <1>1, <1>2

LEMMA StoreCompactor ==
  ASSUME StoreInv, UNCHANGED storageVars, NEW c \in Compactors, NEW s, compactors' = [compactors EXCEPT ![c] = s],
         s.step = "scan" => /\ \A r \in DOMAIN s.seen : s.seen[r] <= checkpoint
                            /\ \A u \in s.updates : u.target_op <= checkpoint
  PROVE  TargetsBounded' /\ PositiveLog' /\ StoreGrows
<1>1. compactors'[c] = s /\ \A d \in Compactors : d # c => compactors'[d] = compactors[d]
  BY StoreFields DEF CompactInv
<1>2. checkpoint' = checkpoint
  BY DEF storageVars
<1>3. ASSUME NEW d \in Compactors PROVE ScanBounded(d)'
  <2>1. CASE d = c
    BY <1>1, <1>2, <2>1 DEF ScanBounded
  <2>2. CASE d # c
    <3>1. ScanBounded(d)
      BY DEF StoreInv, TargetsBounded
    <3> QED BY <1>1, <1>2, <2>2, <3>1 DEF ScanBounded
  <2> QED BY <2>1, <2>2
<1> QED BY <1>3, StoreSame

LEMMA Flush_Store ==
  ASSUME StoreInv, Flush, PositiveHashes
  PROVE  TargetsBounded' /\ PositiveLog' /\ StoreGrows
<1>0. checkpoint \in Nat /\ op_id \in Nat /\ checkpoint <= op_id
  BY StoreFields
<1>1. PICK b \in Buckets, row \in Rows :
        \/ \E data \in Values : AppendOp(b, Put(op_id + 1, row, data))
        \/ AppendOp(b, Remove(op_id + 1, row))
  BY DEF Flush
<1>2. PICK op : AppendOp(b, op) /\ op.op_id = op_id + 1 /\ op.target_op = 0 /\ op.checksum > 0
  <2>1. CASE AppendOp(b, Remove(op_id + 1, row))
    <3> DEFINE op == Remove(op_id + 1, row)
    <3>1. op.op_id = op_id + 1 /\ op.target_op = 0 /\ op.checksum = Hash[row, None]
      BY DEF Remove, Null
    <3>2. Hash[row, None] > 0
      BY DEF PositiveHashes
    <3>3. AppendOp(b, op)
      BY <2>1
    <3> HIDE DEF op
    <3> QED BY <3>1, <3>2, <3>3
  <2>2. CASE \E data \in Values : AppendOp(b, Put(op_id + 1, row, data))
    <3>1. PICK data \in Values : AppendOp(b, Put(op_id + 1, row, data))
      BY <2>2
    <3> DEFINE op == Put(op_id + 1, row, data)
    <3>2. op.op_id = op_id + 1 /\ op.target_op = 0 /\ op.checksum = Hash[row, data]
      BY DEF Put, Null
    <3>3. Hash[row, data] > 0
      BY DEF PositiveHashes
    <3>4. AppendOp(b, op)
      BY <3>1
    <3> HIDE DEF op
    <3> QED BY <3>2, <3>3, <3>4
  <2> QED BY <1>1, <2>1, <2>2
<1>3. /\ bucket_data' = [bucket_data EXCEPT ![b] = @ \cup {op}]
      /\ log' = [log EXCEPT ![b] = @ \cup {op}]
      /\ compactors' = compactors /\ checkpoint' = checkpoint
  BY <1>2 DEF AppendOp, Flush
<1>4. \A d \in Buckets : /\ bucket_data'[d] = bucket_data[d] \cup (IF d = b THEN {op} ELSE {})
                         /\ log'[d] = log[d] \cup (IF d = b THEN {op} ELSE {})
  BY <1>3, StoreFields DEF StorageOK
<1>5. TargetsBounded'
  BY <1>0, <1>2, <1>3, <1>4 DEF StoreInv, TargetsBounded, ScanBounded
<1>6. PositiveLog'
  BY <1>2, <1>4 DEF StoreInv, PositiveLog
<1>7. \A d \in Buckets : Extends(log'[d], log[d], checkpoint)
  BY <1>0, <1>2, <1>4 DEF Extends
<1>8. \A d \in Buckets, k \in Nat : IsOvertaken(d, k) => IsOvertaken(d, k)'
  BY <1>4 DEF IsOvertaken
<1> QED BY <1>5, <1>6, <1>7, <1>8 DEF StoreGrows

LEMMA Commit_Store ==
  ASSUME StoreInv, Commit
  PROVE  TargetsBounded' /\ PositiveLog' /\ StoreGrows
<1>1. /\ UNCHANGED <<bucket_data, op_id, log, compactors>> /\ checkpoint' = op_id
      /\ checkpoint \in Nat /\ op_id \in Nat /\ checkpoint <= op_id
  BY StoreFields DEF Commit
<1> DEFINE n == op_id
<1>2. \A b \in Buckets : \A o \in bucket_data[b] : o.target_op \in Nat /\ o.target_op <= checkpoint
  BY StoreFields, LoggedFields DEF StoreInv, TargetsBounded
<1>3. ASSUME NEW c \in Compactors PROVE ScanBounded(c)'
  <2> SUFFICES ASSUME compactors[c].step = "scan"
               PROVE  /\ \A r \in DOMAIN compactors[c].seen : compactors[c].seen[r] <= n
                      /\ \A u \in compactors[c].updates : u.target_op <= n
    BY <1>1 DEF ScanBounded
  <2>1. compactors[c] \in CompactorState /\ ScanBounded(c)
    BY StoreFields DEF StoreInv, TargetsBounded, CompactInv
  <2>2. /\ \A r \in DOMAIN compactors[c].seen : compactors[c].seen[r] \in Nat
        /\ \A u \in compactors[c].updates : u.target_op \in Nat
    BY <2>1 DEF CompactorState, Update
  <2>3. /\ \A r \in DOMAIN compactors[c].seen : compactors[c].seen[r] <= checkpoint
        /\ \A u \in compactors[c].updates : u.target_op <= checkpoint
    BY <2>1 DEF ScanBounded
  <2> QED BY <1>1, <2>2, <2>3
<1>4. TargetsBounded'
  <2>1. \A b \in Buckets : \A o \in bucket_data[b] : o.target_op <= n
    BY <1>1, <1>2
  <2> QED BY <1>1, <1>3, <2>1 DEF TargetsBounded
<1>5. PositiveLog'
  BY <1>1 DEF StoreInv, PositiveLog
<1>6. StoreGrows
  BY <1>1 DEF StoreGrows, Extends, IsOvertaken
<1> QED BY <1>4, <1>5, <1>6

LEMMA ScanOp_Store ==
  ASSUME StoreInv, NEW c \in Compactors, ScanOp(c)
  PROVE  TargetsBounded' /\ PositiveLog' /\ StoreGrows
<1> DEFINE s == compactors[c]
           o == LastOp(Unscanned(c))
           n == [Scanned(s, o) EXCEPT !.upper = o.op_id]
<1>0. CompactInv /\ checkpoint \in Nat
  BY StoreFields
<1>1. /\ s.step = "scan" /\ o \in Op
      /\ compactors' = [compactors EXCEPT ![c] = n] /\ UNCHANGED storageVars
  BY <1>0, ScanOpIs
<1>2. s \in CompactorState /\ s.maxOpId \in Nat /\ s.maxOpId <= checkpoint /\ o.op_id \in Nat
  BY <1>0, <1>1, StateFields, OpFields DEF CompactorOK
<1>3. /\ o.op_id > s.maxOpId => n.seen = s.seen /\ n.updates = s.updates
      /\ o.op_id <= s.maxOpId =>
           /\ n.seen = Seen(s, o)
           /\ n.updates = IF IsSuperseded(s, o)
                          THEN s.updates \cup {[op_id |-> o.op_id, target_op |-> s.seen[o.row]]}
                          ELSE s.updates
  BY <1>1, <1>2, ScannedIs
<1>4. \A r \in DOMAIN Seen(s, o) :
        \/ r \in DOMAIN s.seen /\ Seen(s, o)[r] = s.seen[r]
        \/ o.op \in {"PUT", "REMOVE"} /\ r = o.row /\ Seen(s, o)[r] = o.op_id
  BY <1>1, <1>2, SeenIs
<1>5. /\ \A r \in DOMAIN s.seen : s.seen[r] <= checkpoint
      /\ \A u \in s.updates : u.target_op <= checkpoint
  BY <1>1 DEF StoreInv, TargetsBounded, ScanBounded
<1> DEFINE u == [op_id |-> o.op_id, target_op |-> s.seen[o.row]]
<1>6. u.target_op = s.seen[o.row]
  OBVIOUS
<1>7. IsSuperseded(s, o) => o.row \in DOMAIN s.seen
  BY DEF IsSuperseded
<1>8. o.op_id > s.maxOpId \/ o.op_id <= s.maxOpId
  BY <1>2
<1>9. o.op_id <= s.maxOpId => o.op_id <= checkpoint
  BY <1>0, <1>2
<1>10. o.op_id <= s.maxOpId => n.updates = IF IsSuperseded(s, o) THEN s.updates \cup {u} ELSE s.updates
  BY <1>3
<1> HIDE DEF n, o, s, u
<1>11. \A r \in DOMAIN n.seen : n.seen[r] <= checkpoint
  BY <1>3, <1>4, <1>5, <1>8, <1>9
<1>12. \A v \in n.updates : v.target_op <= checkpoint
  BY <1>3, <1>5, <1>6, <1>7, <1>8, <1>10
<1> QED BY <1>1, <1>11, <1>12, StoreCompactor

LEMMA FlushMoves_Store ==
  ASSUME StoreInv, NEW c \in Compactors, FlushMoves(c)
  PROVE  TargetsBounded' /\ PositiveLog' /\ StoreGrows
<1> DEFINE s == compactors[c]
           n == [s EXCEPT !.updates = {}]
           b == s.bucket
           D == bucket_data[b]
           M == {Moved(o, s.updates) : o \in D}
<1>0. CompactInv /\ checkpoint \in Nat
  BY StoreFields
<1>1. /\ s.step = "scan" /\ b \in Buckets
      /\ bucket_data' = [bucket_data EXCEPT ![b] = M] /\ bucket_data'[b] = M
      /\ compactors' = [compactors EXCEPT ![c] = n] /\ compactors'[c] = n
      /\ UNCHANGED <<op_id, checkpoint, log>>
  BY <1>0, FlushMovesIs
<1>2. \A d \in Buckets : d # b => bucket_data'[d] = bucket_data[d]
  BY <1>1, StoreFields DEF StorageOK
<1>3. /\ IsLogged(D, log[b]) /\ \A o \in D : o \in Op /\ o.target_op <= checkpoint
      /\ s.updates \in SUBSET Update /\ s \in CompactorState
  BY <1>0, <1>1, StoreFields, StateFields, LoggedFields DEF StoreInv, TargetsBounded
<1>4. /\ \A r \in DOMAIN s.seen : s.seen[r] <= checkpoint
      /\ \A u \in s.updates : u.target_op <= checkpoint
  BY <1>1 DEF StoreInv, TargetsBounded, ScanBounded
<1>5. \A u \in s.updates : \E q \in D \cap log[b] : q.op_id = u.op_id
  BY <1>1 DEF StoreInv, LogInv, ScanLogged
<1>6. \A o \in D : Moved(o, s.updates).target_op <= checkpoint
  <2> SUFFICES ASSUME NEW o \in D PROVE Moved(o, s.updates).target_op <= checkpoint
    OBVIOUS
  <2> DEFINE m == Moved(o, s.updates)
  <2>1. m = o \/ \E u \in s.updates : m.target_op = u.target_op
    BY <1>3, MovedIs
  <2> HIDE DEF m
  <2>2. m.target_op <= checkpoint
    BY <1>3, <1>4, <2>1
  <2> QED BY <2>2 DEF m
<1>7. \A o \in D : o.op = "CLEAR" => Moved(o, s.updates) = o
  <2> SUFFICES ASSUME NEW o \in D, o.op = "CLEAR" PROVE Moved(o, s.updates) = o
    OBVIOUS
  <2>1. ASSUME NEW u \in s.updates PROVE u.op_id # o.op_id
    <3>1. PICK q \in D \cap log[b] : q.op_id = u.op_id
      BY <1>5
    <3>2. q.op # "CLEAR"
      BY <1>3, LoggedFields
    <3> QED BY <1>3, <3>1, <3>2, LoggedFields
  <2> QED BY <2>1 DEF Moved
<1>8. \A o \in M : o.target_op <= checkpoint
  BY <1>6
<1>9. \A o \in D : o.op = "CLEAR" => o \in M
  BY <1>7
<1>10. n.seen = s.seen /\ n.updates = {}
  BY <1>3 DEF CompactorState
<1> HIDE DEF M, n
<1>11. \A d \in Buckets, k \in Nat : IsOvertaken(d, k) => IsOvertaken(d, k)'
  <2> SUFFICES ASSUME NEW d \in Buckets, NEW k \in Nat, NEW o \in bucket_data[d], o.op = "CLEAR", o.op_id > k
               PROVE  IsOvertaken(d, k)'
    BY DEF IsOvertaken
  <2>1. o \in bucket_data'[d]
    BY <1>1, <1>2, <1>9
  <2> QED BY <2>1 DEF IsOvertaken
<1>12. \A d \in Compactors : ScanBounded(d)'
  <2> SUFFICES ASSUME NEW d \in Compactors PROVE ScanBounded(d)'
    OBVIOUS
  <2>1. CASE d = c
    BY <1>1, <1>4, <1>10, <2>1 DEF ScanBounded
  <2>2. CASE d # c
    <3>1. compactors'[d] = compactors[d]
      BY <1>0, <1>1, <2>2 DEF CompactInv
    <3>2. ScanBounded(d)
      BY DEF StoreInv, TargetsBounded
    <3> QED BY <1>1, <3>1, <3>2 DEF ScanBounded
  <2> QED BY <2>1, <2>2
<1>13. \A d \in Buckets : \A o \in bucket_data'[d] : o.target_op <= checkpoint'
  <2>1. \A d \in Buckets : \A o \in bucket_data[d] : o.target_op <= checkpoint
    BY DEF StoreInv, TargetsBounded
  <2> QED BY <1>1, <1>2, <1>8, <2>1
<1>14. TargetsBounded'
  BY <1>12, <1>13 DEF TargetsBounded
<1>15. PositiveLog' /\ \A d \in Buckets : Extends(log'[d], log[d], checkpoint)
  BY <1>1 DEF StoreInv, PositiveLog, Extends
<1> QED BY <1>11, <1>14, <1>15 DEF StoreGrows

LEMMA ClearBucket_Store ==
  ASSUME StoreInv, NEW c \in Compactors, ClearBucket(c)
  PROVE  TargetsBounded' /\ PositiveLog' /\ StoreGrows
<1> DEFINE s == compactors[c]
           b == s.bucket
           D == bucket_data[b]
           ops == Cleared(c)
           k == ClearOf(ops)
           E == (D \ ops) \cup {k}
<1>0. CompactInv /\ checkpoint \in Nat
  BY StoreFields
<1>1. /\ s.step = "clear" /\ b \in Buckets /\ UNCHANGED <<op_id, checkpoint, log>>
      /\ \/ bucket_data' = bucket_data /\ compactors' = [compactors EXCEPT ![c].step = "next"]
         \/ ops # {} /\ UNCHANGED compactors /\ bucket_data' = [bucket_data EXCEPT ![b] = E] /\ bucket_data'[b] = E
  BY <1>0, ClearBucketIs
<1>2. CASE bucket_data' = bucket_data /\ compactors' = [compactors EXCEPT ![c].step = "next"]
  <2> DEFINE n == [s EXCEPT !.step = "next"]
  <2>1. n.step # "scan"
    BY <1>0, StateFields DEF CompactorState
  <2>2. compactors' = [compactors EXCEPT ![c] = n] /\ UNCHANGED storageVars
    BY <1>1, <1>2 DEF storageVars
  <2> HIDE DEF n
  <2> QED BY <2>1, <2>2, StoreCompactor
<1>3. CASE ops # {} /\ UNCHANGED compactors /\ bucket_data' = [bucket_data EXCEPT ![b] = E] /\ bucket_data'[b] = E
  <2>1. ops \subseteq D /\ ops \subseteq Op /\ IsFiniteSet(ops)
    BY <1>0, <1>1, ClearedIs
  <2>2. k.op = "CLEAR" /\ k.target_op = MaxTarget(ops) /\ \A o \in ops : o.op_id <= k.op_id
    BY <1>3, <2>1, ClearOfIs
  <2>3. k.op_id \in Nat
    BY <1>3, <2>1, ClearOfIs, OpFields
  <2>4. MaxTarget(ops) = Null \/ \E o \in ops : o.target_op = MaxTarget(ops)
    BY <2>1, MaxTargetIs
  <2>5. \A d \in Buckets : d # b => bucket_data'[d] = bucket_data[d]
    BY <1>3, StoreFields DEF StorageOK
  <2>6. \A d \in Buckets : \A o \in bucket_data[d] : o.target_op <= checkpoint /\ o.op_id \in Nat
    BY StoreFields, LoggedFields DEF StoreInv, TargetsBounded
  <2> HIDE DEF k, ops
  <2>7. k.target_op <= checkpoint
    BY <1>0, <1>1, <2>1, <2>2, <2>4, <2>6 DEF Null
  <2>8. \A o \in E : o.target_op <= checkpoint
    BY <1>1, <2>6, <2>7
  <2>9. \A o \in D, x \in Nat : o.op = "CLEAR" /\ o.op_id > x => \E e \in E : e.op = "CLEAR" /\ e.op_id > x
    <3> SUFFICES ASSUME NEW o \in D, NEW x \in Nat, o.op = "CLEAR", o.op_id > x PROVE \E e \in E : e.op = "CLEAR" /\ e.op_id > x
      OBVIOUS
    <3>1. CASE o \in ops
      <4>1. o.op_id <= k.op_id /\ o.op_id \in Nat
        BY <1>1, <2>2, <2>6, <3>1
      <4>2. k.op_id > x
        BY <2>3, <4>1
      <4> QED BY <2>2, <4>2
    <3>2. CASE o \notin ops
      BY <3>2
    <3> QED BY <3>1, <3>2
  <2> HIDE DEF E, D
  <2>10. \A d \in Buckets, x \in Nat : IsOvertaken(d, x) => IsOvertaken(d, x)'
    <3> SUFFICES ASSUME NEW d \in Buckets, NEW x \in Nat, NEW o \in bucket_data[d], o.op = "CLEAR", o.op_id > x
                 PROVE  IsOvertaken(d, x)'
      BY DEF IsOvertaken
    <3>1. CASE d = b
      BY <1>3, <2>9, <3>1 DEF IsOvertaken, D
    <3>2. CASE d # b
      BY <2>5, <3>2 DEF IsOvertaken
    <3> QED BY <3>1, <3>2
  <2>11. \A d \in Buckets : \A o \in bucket_data'[d] : o.target_op <= checkpoint'
    BY <1>1, <1>3, <2>5, <2>6, <2>8
  <2>12. \A d \in Compactors : ScanBounded(d)'
    <3>1. \A d \in Compactors : ScanBounded(d)
      BY DEF StoreInv, TargetsBounded
    <3> QED BY <1>1, <1>3, <3>1 DEF ScanBounded
  <2>13. TargetsBounded'
    BY <2>11, <2>12 DEF TargetsBounded
  <2>14. PositiveLog' /\ \A d \in Buckets : Extends(log'[d], log[d], checkpoint)
    BY <1>1 DEF StoreInv, PositiveLog, Extends
  <2> QED BY <2>10, <2>13, <2>14 DEF StoreGrows
<1> QED BY <1>1, <1>2, <1>3

LEMMA Compactor_Store ==
  ASSUME StoreInv, NEW c \in Compactors, CompactStep(c)
  PROVE  TargetsBounded' /\ PositiveLog' /\ StoreGrows
<1>1. CASE StartCompact(c)
  <2> DEFINE s == [Idle EXCEPT !.step = "next", !.maxOpId = checkpoint]
  <2>1. compactors' = [compactors EXCEPT ![c] = s] /\ UNCHANGED storageVars
    BY <1>1 DEF StartCompact
  <2>2. s.step # "scan"
    BY IdleState DEF CompactorState
  <2> HIDE DEF s
  <2> QED BY <2>1, <2>2, StoreCompactor
<1>2. CASE \E b \in Buckets : CompactSingleBucket(c, b)
  <2>1. PICK b \in Buckets : CompactSingleBucket(c, b)
    BY <1>2
  <2> DEFINE s == [Idle EXCEPT !.step = "scan", !.maxOpId = compactors[c].maxOpId, !.bucket = b, !.upper = MaxOp + 1]
  <2>2. compactors' = [compactors EXCEPT ![c] = s] /\ UNCHANGED storageVars
    BY <2>1 DEF CompactSingleBucket
  <2>3. s.seen = << >> /\ s.updates = {}
    BY IdleState DEF CompactorState
  <2>4. DOMAIN s.seen = {}
    <3>1. << >> \in [{} -> Nat]
      OBVIOUS
    <3> QED BY <2>3, <3>1
  <2> HIDE DEF s
  <2> QED BY <2>2, <2>3, <2>4, StoreCompactor
<1>3. CASE EndScan(c)
  <2> DEFINE s == compactors[c]
             n == [s EXCEPT !.step = IF s.lastNotPut # Null /\ s.opsSincePut > 1 THEN "clear" ELSE "next"]
  <2>1. compactors' = [compactors EXCEPT ![c] = n] /\ UNCHANGED storageVars
    BY <1>3 DEF EndScan
  <2>2. n.step # "scan"
    BY StoreFields, StateFields DEF CompactorState
  <2> HIDE DEF n
  <2> QED BY <2>1, <2>2, StoreCompactor
<1>4. CASE StopCompact(c)
  <2>1. compactors' = [compactors EXCEPT ![c] = Idle] /\ UNCHANGED storageVars
    BY <1>4 DEF StopCompact
  <2> QED BY <2>1, IdleState, StoreCompactor
<1> QED BY <1>1, <1>2, <1>3, <1>4, ScanOp_Store, FlushMoves_Store, ClearBucket_Store DEF CompactStep

LEMMA Storage_Store ==
  ASSUME StoreInv, OnePerBucket, PositiveHashes, StorageNext
  PROVE  StoreInv' /\ StoreGrows
<1>1. CompactNext
  BY DEF StorageNext, CommitParameters, CompactNext
<1>2. LogInv'
  BY <1>1, CompactNext_Log DEF StoreInv
<1> QED BY <1>1, <1>2, Flush_Store, Commit_Store, Compactor_Store DEF CompactNext, StoreInv

-----------------------------------------------------------------------------
(***************************************************************************)
(* What is published. D[b] are the operations of bucket b as they are now, *)
(* L[b] as they were written, and n is the last checkpoint. All that the   *)
(* client has of the buckets shows the log up to the client's positions,   *)
(* but for targets that are not past k.                                    *)
(***************************************************************************)
ShowsAll(C, L, k) ==
  \A b \in DOMAIN C.data : C.data[b].position <= k /\ Shows(C.data[b].reduced, L[b], C.data[b].position, k)

Overtaken(D, b, k) == \E o \in D[b] : o.op = "CLEAR" /\ o.op_id > k

\* The checksums of a line, unless a CLEAR has overtaken the bucket.
SumsOK(D, L, sums, k) ==
  \A b \in DOMAIN sums : Overtaken(D, b, k) \/ sums[b].checksum = SumChecksums(Between(L[b], 0, k))

RowsOf(R, b) == {o \in Op : <<b, o>> \in R}

\* What is left of a batch goes on where the client is.
RowsFit(L, n, q) ==
  \A p \in q.rows : /\ Segment(RowsOf(q.rows, p[1]), L[p[1]], q.positions[p[1]])
                    /\ p[2].op_id <= q.line.checkpoint /\ p[2].target_op <= n

(***************************************************************************)
(* The client has read no target past the last checkpoint, none past the   *)
(* checkpoint of a line that is built, and none past that of the line that *)
(* it downloads unless the line is invalidated.                            *)
(***************************************************************************)
PublishOK(D, L, n, q, C) ==
  /\ ShowsAll(C, L, n)
  /\ q.builder \in {"building", "ready"} => ShowsAll(C, L, q.watched)
  /\ q.step = "batch" \/ (q.step = "sending" /\ ~q.invalidated) => ShowsAll(C, L, q.line.checkpoint)
  /\ q.hasSent => q.line.checkpoint <= q.watched /\ SumsOK(D, L, q.lastChecksums, q.line.checkpoint)
  /\ q.builder = "ready" => SumsOK(D, L, q.next.sums, q.watched)
  /\ RowsFit(L, n, q)

PublishInv == StreamInv /\ StoreInv /\ PublishOK(bucket_data, log, checkpoint, conn, client)

LEMMA ShowsSome ==
  ASSUME NEW C, NEW L, NEW k, ShowsAll(C, L, k), NEW E, \A b \in DOMAIN E.data : b \in DOMAIN C.data /\ E.data[b] = C.data[b]
  PROVE  ShowsAll(E, L, k)
BY DEF ShowsAll

LEMMA PublishFields ==
  ASSUME PublishInv
  PROVE  /\ StreamInv /\ StoreInv /\ PublishOK(bucket_data, log, checkpoint, conn, client)
         /\ conn \in ConnState /\ client \in ClientState /\ checkpoint \in Nat
         /\ \A b \in DOMAIN client.data : b \in Buckets /\ client.data[b].position \in Nat
         /\ conn.hasSent => conn.line.checkpoint \in Nat /\ conn.line.checkpoint <= checkpoint
         /\ conn.hasSent => conn.watched \in Nat /\ conn.watched <= checkpoint
         /\ conn.builder \in {"building", "ready"} => conn.watched \in Nat /\ conn.watched <= checkpoint
         /\ conn.step \in {"batch", "sending"} => conn.hasSent
         /\ \A p \in conn.rows : /\ p[1] \in Buckets /\ p[2] \in Op /\ p = <<p[1], p[2]>> /\ p[1] \in DOMAIN conn.positions
                                 /\ conn.positions[p[1]] \in Nat /\ conn.hasSent
         /\ conn.hasSent => \A b \in DOMAIN conn.lastChecksums : b \in Buckets
         /\ conn.builder = "ready" => \A b \in DOMAIN conn.next.sums : b \in Buckets
<1>0. StreamInv /\ StoreInv /\ PublishOK(bucket_data, log, checkpoint, conn, client)
  BY DEF PublishInv
<1>1. /\ StreamOK(conn, client, bucketsAt) /\ BucketsOK(bucketsAt, checkpoint)
      /\ conn \in ConnState /\ client \in ClientState /\ checkpoint \in Nat
  BY <1>0, StreamFields
<1>2. \A k \in DOMAIN bucketsAt : k \in Nat /\ k <= checkpoint
  BY <1>1 DEF BucketsOK
<1>3. \A b \in DOMAIN client.data : b \in Buckets /\ client.data[b].position \in Nat
  BY <1>1, DataAt
<1>4. conn.hasSent => SentOK(conn, client, bucketsAt)
  BY <1>1 DEF StreamOK
<1>5. conn.hasSent => conn.line.checkpoint \in DOMAIN bucketsAt
  BY <1>4 DEF SentOK
<1>6. conn.watched \in DOMAIN bucketsAt \cup {-1} /\ (conn.builder \in {"building", "ready"} => conn.watched \in DOMAIN bucketsAt)
  BY <1>1 DEF StreamOK
<1>7. conn.hasSent => conn.line.checkpoint <= conn.watched
  BY <1>0 DEF PublishOK
<1>8. conn.hasSent => conn.watched \in DOMAIN bucketsAt
  BY <1>2, <1>5, <1>6, <1>7
<1>9. conn.step \in {"batch", "sending"} => conn.hasSent
  BY <1>0, LineBuckets
<1>10. ASSUME NEW p \in conn.rows
       PROVE  /\ p[1] \in Buckets /\ p[2] \in Op /\ p = <<p[1], p[2]>> /\ p[1] \in DOMAIN conn.positions
              /\ conn.positions[p[1]] \in Nat /\ conn.hasSent
  <2>1. RowsOK(conn.rows) /\ conn.step = "sending" /\ p[1] \in Current(conn)
    BY <1>1, ConnFields DEF StreamOK
  <2>2. p[1] \in DOMAIN conn.positions
    BY <1>0, <2>1, LineBuckets DEF Current
  <2>3. conn.positions \in Partial(Nat)
    BY <1>1, ConnFields
  <2>4. conn.positions[p[1]] \in Nat
    BY <2>2, <2>3, PartialFields
  <2> QED BY <1>9, <2>1, <2>2, <2>4, RowFields
<1>11. \A b \in DOMAIN conn.lastChecksums : b \in Buckets
  <2>1. conn.lastChecksums \in Partial(Checksums)
    BY <1>1, ConnFields
  <2> QED BY <2>1, PartialFields
<1>12. \A b \in DOMAIN conn.next.sums : b \in Buckets
  <2>1. conn.next.sums \in Partial(Checksums)
    BY <1>1, ConnFields, LineFields
  <2> QED BY <2>1, PartialFields
<1>13. /\ conn.hasSent => conn.line.checkpoint \in Nat /\ conn.line.checkpoint <= checkpoint
       /\ conn.hasSent => conn.watched \in Nat /\ conn.watched <= checkpoint
       /\ conn.builder \in {"building", "ready"} => conn.watched \in Nat /\ conn.watched <= checkpoint
  BY <1>2, <1>5, <1>6, <1>8
<1> QED BY <1>0, <1>1, <1>3, <1>9, <1>10, <1>11, <1>12, <1>13

(* When the log grows, buckets are compacted or a checkpoint is committed. *)
LEMMA PublishGrows ==
  ASSUME PublishInv, NEW E, NEW M, NEW m \in Nat, checkpoint <= m,
         \A b \in Buckets : Extends(M[b], log[b], checkpoint) /\ IsLogged(E[b], M[b]),
         \A b \in Buckets, k \in Nat : Overtaken(bucket_data, b, k) => Overtaken(E, b, k)
  PROVE  PublishOK(E, M, m, conn, client)
<1> DEFINE n == checkpoint
           L == log
<1>0. /\ PublishOK(bucket_data, L, n, conn, client) /\ n \in Nat /\ n <= m
      /\ \A b \in DOMAIN client.data : b \in Buckets /\ client.data[b].position \in Nat
  BY PublishFields
<1>1. ASSUME NEW k \in Nat, k <= n, ShowsAll(client, L, k) PROVE ShowsAll(client, M, k)
  <2> SUFFICES ASSUME NEW b \in DOMAIN client.data
               PROVE  client.data[b].position <= k /\ Shows(client.data[b].reduced, M[b], client.data[b].position, k)
    BY DEF ShowsAll
  <2> DEFINE p == client.data[b].position
             r == client.data[b].reduced
  <2>1. p \in Nat /\ p <= k /\ Shows(r, L[b], p, k) /\ Extends(M[b], L[b], n)
    BY <1>0, <1>1 DEF ShowsAll
  <2>2. p <= n
    BY <1>0, <1>1, <2>1
  <2> HIDE DEF n, L, p, r
  <2>3. Shows(r, M[b], p, k)
    BY <1>0, <2>1, <2>2, ShowsGrows
  <2> QED BY <2>1, <2>3 DEF p, r
<1>2. ShowsAll(client, M, m)
  <2>1. ShowsAll(client, M, n)
    BY <1>0, <1>1 DEF PublishOK
  <2> SUFFICES ASSUME NEW b \in DOMAIN client.data
               PROVE  client.data[b].position <= m /\ Shows(client.data[b].reduced, M[b], client.data[b].position, m)
    BY DEF ShowsAll
  <2>2. client.data[b].position <= n /\ Shows(client.data[b].reduced, M[b], client.data[b].position, n) /\ IsLogged(E[b], M[b])
    BY <1>0, <2>1 DEF ShowsAll
  <2>3. Shows(client.data[b].reduced, M[b], client.data[b].position, m)
    BY <1>0, <2>2, ShowsLater
  <2> QED BY <1>0, <2>2, <2>3
<1>3. ASSUME NEW sums, \A b \in DOMAIN sums : b \in Buckets, NEW k \in Nat, k <= n, SumsOK(bucket_data, L, sums, k)
      PROVE  SumsOK(E, M, sums, k)
  <2> SUFFICES ASSUME NEW b \in DOMAIN sums
               PROVE  Overtaken(E, b, k) \/ sums[b].checksum = SumChecksums(Between(M[b], 0, k))
    BY DEF SumsOK
  <2>1. Overtaken(bucket_data, b, k) \/ sums[b].checksum = SumChecksums(Between(L[b], 0, k))
    BY <1>3 DEF SumsOK
  <2>2. b \in Buckets /\ Extends(M[b], L[b], n)
    BY <1>3
  <2>3. Between(M[b], 0, k) = Between(L[b], 0, k)
    BY <1>0, <1>3, <2>2, ExtendsBetween
  <2> QED BY <2>1, <2>2, <2>3
<1>4. RowsFit(M, m, conn)
  <2> SUFFICES ASSUME NEW p \in conn.rows
               PROVE  /\ Segment(RowsOf(conn.rows, p[1]), M[p[1]], conn.positions[p[1]])
                      /\ p[2].op_id <= conn.line.checkpoint /\ p[2].target_op <= m
    BY DEF RowsFit
  <2> DEFINE b == p[1]
             S == RowsOf(conn.rows, b)
             a == conn.positions[b]
  <2>1. /\ Segment(S, L[b], a) /\ p[2].op_id <= conn.line.checkpoint /\ p[2].target_op <= n
        /\ \A x \in conn.rows : x[2].op_id <= conn.line.checkpoint
    BY <1>0 DEF PublishOK, RowsFit
  <2>2. b \in Buckets /\ p[2] \in Op /\ conn.line.checkpoint \in Nat /\ conn.line.checkpoint <= n
    BY PublishFields
  <2>3. \A o \in S : o.op_id <= n
    <3> SUFFICES ASSUME NEW o \in S PROVE o.op_id <= n
      OBVIOUS
    <3>1. o \in Op /\ <<b, o>> \in conn.rows
      BY DEF RowsOf
    <3>2. o.op_id <= conn.line.checkpoint /\ o.op_id \in Nat
      BY <2>1, <3>1, OpFields
    <3> QED BY <1>0, <2>2, <3>2
  <2>4. p[2].target_op \in Nat
    BY <2>2, OpFields
  <2>5. Extends(M[b], L[b], n) /\ IsLogged(E[b], M[b])
    BY <2>2
  <2> HIDE DEF b, S, a, n, L
  <2>6. Segment(S, M[b], a)
    BY <1>0, <2>1, <2>3, <2>5, SegmentGrows
  <2>7. p[2].target_op <= m
    BY <1>0, <2>1, <2>4
  <2> QED BY <2>1, <2>6, <2>7 DEF b, S, a
<1>5. conn.builder \in {"building", "ready"} => ShowsAll(client, M, conn.watched)
  BY <1>0, <1>1, PublishFields DEF PublishOK
<1>6. conn.step = "batch" \/ (conn.step = "sending" /\ ~conn.invalidated) => ShowsAll(client, M, conn.line.checkpoint)
  BY <1>0, <1>1, PublishFields DEF PublishOK
<1>7. conn.hasSent => conn.line.checkpoint <= conn.watched /\ SumsOK(E, M, conn.lastChecksums, conn.line.checkpoint)
  BY <1>0, <1>3, PublishFields DEF PublishOK
<1>8. conn.builder = "ready" => SumsOK(E, M, conn.next.sums, conn.watched)
  BY <1>0, <1>3, PublishFields DEF PublishOK
<1> QED BY <1>2, <1>4, <1>5, <1>6, <1>7, <1>8 DEF PublishOK

LEMMA Storage_Publish ==
  ASSUME PublishInv, OnePerBucket, PositiveHashes, StorageNext
  PROVE  PublishInv'
<1>1. StreamInv' /\ StoreInv' /\ StoreGrows
  BY PublishFields, Storage_Inv, Storage_Store
<1>2. conn' = conn /\ client' = client
  BY DEF StorageNext, CommitParameters, streamVars
<1>3. checkpoint \in Nat /\ checkpoint' \in Nat /\ checkpoint <= checkpoint'
  <2>1. CompactInv /\ StorageOK
    BY PublishFields, StoreFields
  <2>2. op_id \in Nat /\ checkpoint \in Nat /\ checkpoint <= op_id
    BY PublishFields, StoreFields
  <2>3. checkpoint' = checkpoint \/ checkpoint' = op_id
    BY DEF StorageNext, CommitParameters, Commit, Flush, CompactStep, StartCompact, CompactSingleBucket, ScanOp, FlushMoves,
           EndScan, ClearBucket, StopCompact, storageVars
  <2> QED BY <2>2, <2>3
<1> DEFINE E == bucket_data'
           M == log'
<1>4. \A b \in Buckets : Extends(M[b], log[b], checkpoint) /\ IsLogged(E[b], M[b])
  <2>1. StorageOK'
    BY <1>1 DEF StoreInv, LogInv, CompactInv
  <2>2. \A b \in Buckets : /\ M[b] \in SUBSET (PutOp \cup RemoveOp) /\ E[b] \in SUBSET Op
                           /\ op_id' \in Nat /\ OwnIds(E[b], op_id') /\ OwnIds(M[b], op_id')
    BY <2>1 DEF StorageOK, OwnIds
  <2>3. \A b \in Buckets : IsOps(M[b]) /\ IsOps(E[b])
    BY <2>2, BoundedOps DEF OwnIds, Op
  <2> HIDE DEF E, M
  <2>4. \A b \in Buckets : IsLogged(E[b], M[b])
    BY <2>2, <2>3 DEF IsLogged
  <2> QED BY <1>1, <2>4 DEF StoreGrows, E, M
<1>5. \A b \in Buckets, k \in Nat : Overtaken(bucket_data, b, k) => Overtaken(E, b, k)
  BY <1>1 DEF StoreGrows, IsOvertaken, Overtaken
<1> HIDE DEF E, M
<1>6. PublishOK(E, M, checkpoint', conn, client)
  BY <1>3, <1>4, <1>5, PublishGrows
<1> QED BY <1>1, <1>2, <1>6 DEF PublishInv, E, M

(* Steps of the connection and the client. *)
LEMMA PublishStep ==
  ASSUME PublishInv, OnePerBucket, StreamInv', UNCHANGED <<compactVars, bucketsAt>>,
         PublishOK(bucket_data, log, checkpoint, conn', client')
  PROVE  PublishInv'
<1>1. UNCHANGED storageVars /\ compactors' = compactors
  BY DEF compactVars
<1>2. LogInv'
  BY PublishFields, CompactNext_Log DEF StoreInv
<1>3. \A c \in Compactors : ScanBounded(c)
  BY PublishFields DEF StoreInv, TargetsBounded
<1>4. \A c \in Compactors : ScanBounded(c)'
  BY <1>1, <1>3 DEF ScanBounded, storageVars
<1>5. TargetsBounded' /\ PositiveLog'
  BY <1>1, <1>4, PublishFields, StoreSame
<1>6. bucket_data' = bucket_data /\ log' = log /\ checkpoint' = checkpoint
  BY <1>1 DEF storageVars
<1> QED BY <1>2, <1>5, <1>6 DEF PublishInv, StoreInv

LEMMA PublishMoves ==
  ASSUME PublishInv, NEW q, NEW C, \A b \in DOMAIN C.data : b \in DOMAIN client.data /\ C.data[b] = client.data[b],
         q.builder \in {"building", "ready"} => q.builder = conn.builder,
         q.watched = conn.watched, q.line = conn.line, q.hasSent = conn.hasSent, q.lastChecksums = conn.lastChecksums,
         q.next = conn.next, RowsFit(log, checkpoint, q),
         q.step = "batch" \/ (q.step = "sending" /\ ~q.invalidated) => ShowsAll(client, log, conn.line.checkpoint)
  PROVE  PublishOK(bucket_data, log, checkpoint, q, C)
<1>0. PublishOK(bucket_data, log, checkpoint, conn, client)
  BY PublishFields
<1>1. \A k : ShowsAll(client, log, k) => ShowsAll(C, log, k)
  BY ShowsSome
<1> QED BY <1>0, <1>1 DEF PublishOK

LEMMA NoRowsFit ==
  ASSUME NEW L, NEW n, NEW q, q.rows = {}
  PROVE  RowsFit(L, n, q)
BY DEF RowsFit

LEMMA FirstPublish ==
  ASSUME PublishInv, NEW q, NEW C, \A b \in DOMAIN C.data : b \in DOMAIN client.data /\ C.data[b] = client.data[b],
         q.builder = "off", q.step \in {"closed", "idle"}, ~q.hasSent, q.rows = {}
  PROVE  PublishOK(bucket_data, log, checkpoint, q, C)
<1>1. ShowsAll(client, log, checkpoint)
  BY PublishFields DEF PublishOK
<1>2. ShowsAll(C, log, checkpoint)
  BY <1>1, ShowsSome
<1> QED BY <1>2, NoRowsFit DEF PublishOK

LEMMA Connect_Publish ==
  ASSUME PublishInv, OnePerBucket, Connect
  PROVE  PublishInv'
<1> DEFINE after == [b \in DOMAIN client.data |-> client.data[b].position]
<1>1. UNCHANGED <<compactVars, bucketsAt>> /\ StreamInv'
      /\ conn' = [Closed EXCEPT !.step = "idle", !.after = after, !.positions = after]
      /\ client' = [client EXCEPT !.target = << >>]
  BY PublishFields, Connect_Inv DEF Connect
<1>2. client'.data = client.data
  BY <1>1, PublishFields DEF ClientState
<1>3. conn'.builder = "off" /\ conn'.step = "idle" /\ conn'.hasSent = FALSE /\ conn'.rows = {}
  <2> HIDE DEF Closed, after
  <2> QED BY <1>1, ClosedIs DEF ConnState
<1>4. PublishOK(bucket_data, log, checkpoint, conn', client')
  BY <1>2, <1>3, FirstPublish
<1> QED BY <1>1, <1>4, PublishStep

(* The connection ends, and the client may drop what it has. *)
LEMMA Close_Publish ==
  ASSUME PublishInv, OnePerBucket, StreamInv', UNCHANGED <<compactVars, bucketsAt>>, conn' = Closed,
         \A b \in DOMAIN client'.data : b \in DOMAIN client.data /\ client'.data[b] = client.data[b]
  PROVE  PublishInv'
<1>1. PublishOK(bucket_data, log, checkpoint, conn', client')
  BY ClosedIs, FirstPublish
<1> QED BY <1>1, PublishStep

LEMMA StartBuilder_Publish ==
  ASSUME PublishInv, OnePerBucket, StartBuilder
  PROVE  PublishInv'
<1>1. UNCHANGED <<compactVars, bucketsAt>> /\ client' = client /\ StreamInv'
      /\ conn' = [conn EXCEPT !.builder = "watching"] /\ conn.step = "idle" /\ conn \in ConnState
  BY PublishFields, Waits_Inv DEF StartBuilder
<1>2. /\ conn'.builder = "watching" /\ conn'.watched = conn.watched /\ conn'.line = conn.line /\ conn'.hasSent = conn.hasSent
      /\ conn'.lastChecksums = conn.lastChecksums /\ conn'.next = conn.next /\ conn'.step = "idle" /\ conn'.rows = conn.rows
  BY <1>1 DEF ConnState
<1>3. conn.rows = {}
  BY <1>1, PublishFields, StreamFields DEF StreamOK
<1>4. RowsFit(log, checkpoint, conn')
  BY <1>2, <1>3, NoRowsFit
<1>5. PublishOK(bucket_data, log, checkpoint, conn', client')
  BY <1>1, <1>2, <1>4, PublishMoves
<1> QED BY <1>1, <1>5, PublishStep

(* Without lag, the watcher yields the last checkpoint: no target is past it. *)
LEMMA WatchCheckpoint_Publish ==
  ASSUME PublishInv, OnePerBucket, ~NotifyLag, WatchCheckpoint
  PROVE  PublishInv'
<1>1. UNCHANGED <<compactVars, bucketsAt>> /\ client' = client /\ StreamInv' /\ conn \in ConnState
      /\ conn.builder = "watching"
  BY PublishFields, Waits_Inv DEF WatchCheckpoint
<1>2. conn' = [conn EXCEPT !.builder = "building", !.watched = checkpoint] /\ checkpoint \in Nat
  BY PublishFields DEF WatchCheckpoint, Watchable
<1>3. /\ conn'.builder = "building" /\ conn'.watched = checkpoint /\ conn'.line = conn.line /\ conn'.hasSent = conn.hasSent
      /\ conn'.lastChecksums = conn.lastChecksums /\ conn'.step = conn.step /\ conn'.invalidated = conn.invalidated
      /\ conn'.rows = conn.rows /\ conn'.positions = conn.positions
  BY <1>1, <1>2 DEF ConnState
<1>4. /\ ShowsAll(client, log, checkpoint) /\ RowsFit(log, checkpoint, conn)
      /\ conn.step = "batch" \/ (conn.step = "sending" /\ ~conn.invalidated) => ShowsAll(client, log, conn.line.checkpoint)
      /\ conn.hasSent => SumsOK(bucket_data, log, conn.lastChecksums, conn.line.checkpoint)
  BY PublishFields DEF PublishOK
<1>5. RowsFit(log, checkpoint, conn')
  BY <1>3, <1>4 DEF RowsFit
<1>6. conn.hasSent => conn.line.checkpoint <= checkpoint
  BY PublishFields
<1>7. PublishOK(bucket_data, log, checkpoint, conn', client)
  BY <1>3, <1>4, <1>5, <1>6 DEF PublishOK
<1> QED BY <1>1, <1>7, PublishStep

(* The checksums of the buckets are those of the log, unless a CLEAR has overtaken the checkpoint. *)
LEMMA ChecksumOfLog ==
  ASSUME StoreInv, NEW b \in Buckets, NEW k \in Nat
  PROVE  Overtaken(bucket_data, b, k) \/ Checksum(b, k).checksum = SumChecksums(Between(log[b], 0, k))
<1> DEFINE D == bucket_data[b]
           L == log[b]
<1>0. IsLogged(D, L) /\ LogOK(D, L) /\ \A o \in D : o.op_id \in Nat /\ o.op_id > 0
  BY StoreFields, LoggedFields
<1>1. Checksum(b, k).checksum = SumChecksums(Between(D, 0, k))
  BY StoreFields, ChecksumIs
<1>2. CASE \A o \in D : o.op # "CLEAR"
  <2>1. SumChecksums(Between(D, 0, k)) = SumChecksums(Between(L, 0, k))
    BY <1>0, <1>2, SumTail
  <2> QED BY <1>1, <2>1
<1>3. CASE \E o \in D : o.op = "CLEAR" /\ o.op_id <= k
  <2>1. PICK c \in D : c.op = "CLEAR" /\ c.op_id <= k
    BY <1>3
  <2>2. SumChecksums({o \in D : c.op_id <= o.op_id /\ o.op_id <= k}) = SumChecksums(Between(L, 0, k))
    BY <1>0, <2>1, SumFromClear
  <2>3. \A o \in D : c.op_id <= o.op_id
    BY <1>0, <2>1 DEF LogOK, ClearsStart
  <2>4. {o \in D : c.op_id <= o.op_id /\ o.op_id <= k} = Between(D, 0, k)
    BY <1>0, <2>3 DEF Between
  <2> QED BY <1>1, <2>2, <2>4
<1>4. CASE \E o \in D : o.op = "CLEAR" /\ o.op_id > k
  BY <1>4 DEF Overtaken
<1>5. \A o \in D : o.op_id <= k \/ o.op_id > k
  BY <1>0
<1> QED BY <1>2, <1>3, <1>4, <1>5

LEMMA BuildLine_Publish ==
  ASSUME PublishInv, OnePerBucket, BuildLine
  PROVE  PublishInv'
<1>1. UNCHANGED <<compactVars, bucketsAt>> /\ client' = client /\ StreamInv'
  BY PublishFields, BuildLine_Inv DEF BuildLine
<1>2. /\ conn.builder = "building"
      /\ conn'.step = conn.step /\ conn'.line = conn.line /\ conn'.lastChecksums = conn.lastChecksums
      /\ conn'.hasSent = conn.hasSent /\ conn'.positions = conn.positions
      /\ conn'.rows = conn.rows /\ conn'.watched = conn.watched /\ conn'.invalidated = conn.invalidated
      /\ conn'.builder \in {"watching", "ready"} /\ (conn'.builder = "ready" => conn'.next = BuiltLine)
  BY PublishFields, BuildLineIs
<1>3. SumsOK(bucket_data, log, BuiltSums, conn.watched)
  <2>1. /\ DOMAIN BuiltSums = bucketsAt[conn.watched] /\ conn.watched \in Nat
        /\ \A b \in bucketsAt[conn.watched] : b \in Buckets /\ BuiltSums[b] = Checksum(b, conn.watched)
    BY <1>2, PublishFields, BuiltIs
  <2> HIDE DEF BuiltSums
  <2> QED BY <2>1, PublishFields, ChecksumOfLog DEF SumsOK
<1>4. BuiltLine.sums = BuiltSums
  BY DEF BuiltLine
<1>5. /\ ShowsAll(client, log, checkpoint) /\ RowsFit(log, checkpoint, conn) /\ ShowsAll(client, log, conn.watched)
      /\ conn.step = "batch" \/ (conn.step = "sending" /\ ~conn.invalidated) => ShowsAll(client, log, conn.line.checkpoint)
      /\ conn.hasSent => conn.line.checkpoint <= conn.watched /\ SumsOK(bucket_data, log, conn.lastChecksums, conn.line.checkpoint)
  BY <1>2, PublishFields DEF PublishOK
<1> HIDE DEF BuiltLine, BuiltSums
<1>6. RowsFit(log, checkpoint, conn')
  BY <1>2, <1>5 DEF RowsFit
<1>7. PublishOK(bucket_data, log, checkpoint, conn', client)
  BY <1>2, <1>3, <1>4, <1>5, <1>6 DEF PublishOK
<1> QED BY <1>1, <1>7, PublishStep

LEMMA SendLine_Publish ==
  ASSUME PublishInv, OnePerBucket, SendLine
  PROVE  PublishInv'
<1> DEFINE line == conn.next
<1>1. UNCHANGED <<compactVars, bucketsAt>> /\ StreamInv' /\ conn.builder = "ready"
  BY PublishFields, SendLine_Inv DEF SendLine
<1>2. /\ NextOK(conn, bucketsAt)
      /\ conn'.step = "batch" /\ conn'.builder = "off" /\ conn'.line = line
      /\ conn'.watched = conn.watched /\ conn'.lastChecksums = line.sums /\ conn'.rows = {}
      /\ DOMAIN client'.data = DOMAIN client.data \cap DOMAIN line.sums
      /\ \A b \in DOMAIN client'.data : client'.data[b] = client.data[b]
  BY PublishFields, SendLineIs
<1>3. line.checkpoint = conn.watched
  BY <1>2 DEF NextOK
<1>4. ShowsAll(client, log, checkpoint) /\ ShowsAll(client, log, conn.watched) /\ SumsOK(bucket_data, log, line.sums, conn.watched)
  BY <1>1, PublishFields DEF PublishOK
<1>5. ShowsAll(client', log, checkpoint) /\ ShowsAll(client', log, conn.watched)
  BY <1>2, <1>4, ShowsSome
<1>6. conn.watched \in Nat
  BY <1>1, PublishFields
<1> HIDE DEF line
<1>7. PublishOK(bucket_data, log, checkpoint, conn', client')
  BY <1>2, <1>3, <1>4, <1>5, <1>6, NoRowsFit DEF PublishOK
<1> QED BY <1>1, <1>7, PublishStep

LEMMA Interrupt_Publish ==
  ASSUME PublishInv, OnePerBucket, Interrupt
  PROVE  PublishInv'
<1>1. UNCHANGED <<compactVars, bucketsAt>> /\ client' = client /\ StreamInv' /\ conn.step = "batch" /\ conn \in ConnState
      /\ conn' = [conn EXCEPT !.step = "idle"]
  BY PublishFields, Interrupt_Inv DEF Interrupt
<1>2. /\ conn'.builder = conn.builder /\ conn'.watched = conn.watched /\ conn'.line = conn.line /\ conn'.hasSent = conn.hasSent
      /\ conn'.lastChecksums = conn.lastChecksums /\ conn'.next = conn.next /\ conn'.step = "idle" /\ conn'.rows = conn.rows
  BY <1>1 DEF ConnState
<1>3. conn.rows = {}
  BY <1>1, PublishFields, StreamFields DEF StreamOK
<1>4. RowsFit(log, checkpoint, conn')
  BY <1>2, <1>3, NoRowsFit
<1>5. PublishOK(bucket_data, log, checkpoint, conn', client')
  BY <1>1, <1>2, <1>4, PublishMoves
<1> QED BY <1>1, <1>5, PublishStep

(***************************************************************************)
(* A line that is invalidated is given up at the end of the batch (see     *)
(* IsUsable), but not if there is another batch, which forgets it.         *)
(***************************************************************************)
NoneForgotten == conn.step = "sending" /\ conn.rows = {} /\ conn.hasMore => ~conn.invalidated

LEMMA EndBatch_Publish ==
  ASSUME PublishInv, OnePerBucket, NoneForgotten, EndBatch
  PROVE  PublishInv'
<1>0. /\ conn.step = "sending" /\ conn.rows = {} /\ UNCHANGED <<compactVars, bucketsAt, disconnects>> /\ StreamInv'
      /\ client \in ClientState
  BY PublishFields, EndBatch_Inv DEF EndBatch
<1>1. conn.hasMore \/ IsUsable => ShowsAll(client, log, conn.line.checkpoint)
  BY <1>0, PublishFields DEF NoneForgotten, IsUsable, PublishOK
<1>2. CASE \E keep : /\ keep \subseteq DOMAIN client.data /\ conn' = Closed
                     /\ client' = [client EXCEPT !.data = [b \in keep |-> client.data[b]]]
  BY <1>0, <1>2, PublishFields, InvalidOK, Close_Publish
<1>3. ASSUME NEW step \in {"idle", "batch"}, NEW todo \in SUBSET conn.todo, conn' = [conn EXCEPT !.step = step, !.todo = todo],
             client' \in ClientState, client'.target = client.target, client'.checkpoint = client.checkpoint,
             client'.data = client.data, step = "batch" => ShowsAll(client, log, conn.line.checkpoint)
      PROVE  PublishInv'
  <2>1. /\ conn'.step = step /\ conn'.builder = conn.builder /\ conn'.next = conn.next /\ conn'.line = conn.line
        /\ conn'.watched = conn.watched /\ conn'.lastChecksums = conn.lastChecksums /\ conn'.hasSent = conn.hasSent
        /\ conn'.rows = conn.rows
    BY <1>0, <1>3, PublishFields, LoopMoves
  <2>2. RowsFit(log, checkpoint, conn')
    BY <1>0, <2>1, NoRowsFit
  <2>3. PublishOK(bucket_data, log, checkpoint, conn', client')
    BY <1>3, <2>1, <2>2, PublishMoves
  <2> QED BY <1>0, <2>3, PublishStep
<1>4. CASE /\ client' = client
           /\ conn' = [conn EXCEPT !.step = IF conn.hasMore THEN "batch" ELSE "idle", !.todo = conn.todo]
  <2>1. PICK step \in {"idle", "batch"} : /\ conn' = [conn EXCEPT !.step = step, !.todo = conn.todo]
                                          /\ step = "batch" => conn.hasMore
    BY <1>4
  <2> QED BY <1>0, <1>1, <1>3, <1>4, <2>1
<1>5. CASE /\ IsUsable
           /\ client' = [client EXCEPT
                    !.applied = IF IsLastPriority THEN [b \in Completed |-> Shown(b)]
                                ELSE [b \in DOMAIN @ \cup Completed |-> IF b \in Completed THEN Shown(b) ELSE @[b]],
                    !.isComplete = IsLastPriority]
           /\ conn' = [conn EXCEPT !.step = IF IsLastPriority THEN "idle" ELSE "batch",
                                   !.todo = IF IsLastPriority THEN conn.todo ELSE conn.todo \ Current(conn)]
  <2>1. PICK step \in {"idle", "batch"}, todo \in SUBSET conn.todo : conn' = [conn EXCEPT !.step = step, !.todo = todo]
    BY <1>5
  <2>2. Completed \in SUBSET Buckets /\ IsLastPriority \in BOOLEAN
    BY <1>0, PublishFields, CompletedIs DEF IsLastPriority
  <2>3. client' \in ClientState /\ client'.target = client.target /\ client'.checkpoint = client.checkpoint
         /\ client'.data = client.data
    BY <1>0, <1>5, <2>2, AppliedIs
  <2> QED BY <1>1, <1>3, <1>5, <2>1, <2>3
<1> QED BY <1>2, <1>4, <1>5, PublishFields, EndBatchIs

(* A batch is read in order, and without gaps, from where the client is. *)
LEMMA BatchFits ==
  ASSUME PublishInv, conn.step = "batch", NEW q, q.rows = FirstOf(LeftRows, BatchLimit), q.positions = conn.positions,
         q.line = conn.line
  PROVE  RowsFit(log, checkpoint, q)
<1> DEFINE R == FirstOf(LeftRows, BatchLimit)
<1>0. RowsOK(LeftRows) /\ R \subseteq LeftRows /\ BatchLimit \in Nat
  BY PublishFields, LeftOK, StreamLimitsAssumption DEF FirstOf
<1>1. conn.hasSent /\ conn.line.checkpoint \in Nat /\ conn.line.checkpoint <= checkpoint /\ conn.positions \in Partial(Nat)
  BY PublishFields, ConnFields
<1> SUFFICES ASSUME NEW p \in R
             PROVE  /\ Segment(RowsOf(R, p[1]), log[p[1]], conn.positions[p[1]])
                    /\ p[2].op_id <= conn.line.checkpoint /\ p[2].target_op <= checkpoint
  BY DEF RowsFit
<1> DEFINE b == p[1]
           S == RowsOf(R, b)
           D == bucket_data[b]
           a == conn.positions[b]
<1>2. /\ b \in Buckets /\ p[2] \in Op /\ p = <<b, p[2]>> /\ b \in Current(conn) /\ b \in DOMAIN conn.positions
      /\ p[2] \in Between(D, a, conn.line.checkpoint)
  BY <1>0 DEF LeftRows, InQuery
<1>3. a \in Nat
  BY <1>1, <1>2, PartialFields
<1>4. IsLogged(D, log[b]) /\ LogOK(D, log[b]) /\ \A o \in D : o \in Op /\ o.op_id \in Nat /\ o.target_op <= checkpoint
  BY <1>2, PublishFields, StoreFields, LoggedFields DEF TargetsBounded
<1>5. ASSUME NEW o \in S PROVE o \in D /\ a < o.op_id /\ o.op_id <= conn.line.checkpoint /\ <<b, o>> \in R
  <2>1. <<b, o>> \in R
    BY DEF RowsOf
  <2>2. <<b, o>> \in LeftRows
    BY <1>0, <2>1
  <2>3. o \in Between(D, a, conn.line.checkpoint)
    BY <2>2 DEF LeftRows, InQuery
  <2> QED BY <2>1, <2>3 DEF Between
<1>6. ASSUME NEW o \in S, NEW d \in D, a < d.op_id, d.op_id <= o.op_id PROVE d \in S
  <2>1. o \in D /\ o.op_id <= conn.line.checkpoint /\ <<b, o>> \in R /\ o.op_id \in Nat /\ d.op_id \in Nat /\ d \in Op
    BY <1>4, <1>5
  <2>2. CASE d = o
    BY <2>2
  <2>3. CASE d # o
    <3>1. d.op_id # o.op_id
      BY <1>4, <2>1, <2>3, LoggedFields
    <3>2. Before(<<b, d>>, <<b, o>>)
      BY <1>6, <2>1, <3>1 DEF Before
    <3>3. d.op_id <= conn.line.checkpoint
      BY <1>1, <1>6, <2>1
    <3>4. <<b, d>> \in LeftRows
      <4>1. d \in Between(D, a, conn.line.checkpoint)
        BY <1>6, <3>3 DEF Between
      <4> QED BY <1>2, <2>1, <4>1 DEF LeftRows, InQuery
    <3>5. <<b, d>> \in R
      <4> DEFINE x == <<b, d>>
                 y == <<b, o>>
      <4>1. x \in LeftRows /\ y \in FirstOf(LeftRows, BatchLimit) /\ Before(x, y)
        BY <2>1, <3>2, <3>4
      <4> HIDE DEF x, y
      <4>2. x \in FirstOf(LeftRows, BatchLimit)
        BY <1>0, <4>1, FirstClosed
      <4> QED BY <4>2 DEF x
    <3> QED BY <2>1, <3>5 DEF RowsOf
  <2> QED BY <2>2, <2>3
<1>7. p[2] \in D /\ p[2].op_id <= conn.line.checkpoint
  BY <1>2 DEF Between
<1> HIDE DEF S, D, a, b
<1>8. Segment(S, log[b], a)
  <2>1. S \subseteq D /\ \A o \in S : a < o.op_id
    BY <1>5
  <2>2. \A o \in S, d \in D : a < d.op_id /\ d.op_id <= o.op_id => d \in S
    BY <1>6
  <2> QED BY <1>3, <1>4, <2>1, <2>2, QueryIsSegment
<1> QED BY <1>4, <1>7, <1>8 DEF S, a, b

LEMMA StartBatch_Publish ==
  ASSUME PublishInv, OnePerBucket, StartBatch
  PROVE  PublishInv'
<1>1. UNCHANGED <<compactVars, bucketsAt>> /\ client' = client /\ StreamInv' /\ conn.step = "batch"
  BY PublishFields, StartBatch_Inv DEF StartBatch
<1>2. /\ conn'.step = "sending" /\ conn'.builder = conn.builder /\ conn'.next = conn.next /\ conn'.line = conn.line
      /\ conn'.watched = conn.watched /\ conn'.lastChecksums = conn.lastChecksums /\ conn'.hasSent = conn.hasSent
      /\ conn'.positions = conn.positions /\ conn'.rows = FirstOf(LeftRows, BatchLimit)
  BY PublishFields, StartBatchIs
<1>3. RowsFit(log, checkpoint, conn')
  BY <1>1, <1>2, BatchFits
<1>4. ShowsAll(client, log, conn.line.checkpoint)
  BY <1>1, PublishFields DEF PublishOK
<1>5. PublishOK(bucket_data, log, checkpoint, conn', client')
  BY <1>1, <1>2, <1>3, <1>4, PublishMoves
<1> QED BY <1>1, <1>5, PublishStep

(* A data line has the first rows of its bucket, and the rest are after them. *)
LEMMA ChunkSplits ==
  ASSUME NEW R, RowsOK(R), R # {}
  PROVE  LET b == FirstRow(R)[1]
             ops == ChunkOps(R)
             last == LastOp(ops).op_id
             rest == R \ Chunk(R)
         IN  /\ ops = {o \in RowsOf(R, b) : o.op_id <= last}
             /\ RowsOf(rest, b) = {o \in RowsOf(R, b) : last < o.op_id}
             /\ \A d : d # b => RowsOf(rest, d) = RowsOf(R, d)
             /\ \A o \in ops : o.op_id <= last
<1> DEFINE b == FirstRow(R)[1]
           ops == ChunkOps(R)
           last == LastOp(ops).op_id
           C == Chunk(R)
<1>1. /\ b \in Buckets /\ C \subseteq R /\ \A p \in C : p[1] = b
      /\ ops # {} /\ IsOps(ops) /\ LastOp(ops) \in ops /\ last \in Nat
  BY ChunkIs
<1>2. \A o : o \in ops <=> <<b, o>> \in C
  BY ChunkIs
<1>3. \A o \in ops : o \in Op /\ o.op_id \in Nat /\ o.op_id <= last
  BY <1>1, LastOpMax, OpFields DEF IsOps
<1>4. \A p \in R : p[1] = b => (p \in C <=> p \in FirstOf(R, ChunkLimit))
  BY DEF Chunk, FirstOf, Earlier
<1>5. ASSUME NEW o \in RowsOf(R, b), o.op_id <= last PROVE o \in ops
  <2> DEFINE x == <<b, o>>
             y == <<b, LastOp(ops)>>
  <2>1. x \in R /\ y \in C /\ y \in R /\ o \in Op /\ o.op_id \in Nat
    BY <1>1, <1>2, OpFields DEF RowsOf
  <2>2. y \in FirstOf(R, ChunkLimit)
    BY <1>4, <2>1
  <2>3. x = y \/ Before(x, y)
    <3>1. o.op_id = last => x = y
      BY <2>1 DEF RowsOK
    <3>2. o.op_id < last => Before(x, y)
      BY DEF Before
    <3> QED BY <1>1, <1>5, <2>1, <3>1, <3>2
  <2>4. x[1] = b
    OBVIOUS
  <2>5. ChunkLimit \in Nat
    BY StreamLimitsAssumption
  <2> HIDE DEF x, y, C, ops, b, last
  <2>6. x \in FirstOf(R, ChunkLimit)
    BY <2>1, <2>2, <2>3, <2>5, FirstClosed
  <2>7. x \in C
    BY <1>4, <2>1, <2>4, <2>6
  <2> QED BY <1>2, <2>7 DEF x
<1>6. ASSUME NEW o \in ops PROVE o \in RowsOf(R, b)
  BY <1>1, <1>2, <1>3 DEF RowsOf
<1> HIDE DEF ops, last, b, C
<1>7. ops = {o \in RowsOf(R, b) : o.op_id <= last}
  BY <1>3, <1>5, <1>6
<1>8. RowsOf(R \ C, b) = {o \in RowsOf(R, b) : last < o.op_id}
  <2>1. \A o \in Op : o \in RowsOf(R \ C, b) <=> o \in RowsOf(R, b) /\ o \notin ops
    BY <1>2 DEF RowsOf
  <2>2. \A o \in Op : o.op_id \in Nat
    BY OpFields
  <2>3. \A o \in RowsOf(R, b) : o \in Op
    BY DEF RowsOf
  <2>4. \A o \in RowsOf(R \ C, b) : o \in Op
    BY DEF RowsOf
  <2>5. \A o \in RowsOf(R, b) : o \notin ops <=> last < o.op_id
    BY <1>1, <1>7, <2>2, <2>3
  <2> QED BY <2>1, <2>3, <2>4, <2>5
<1>9. \A d : d # b => RowsOf(R \ C, d) = RowsOf(R, d)
  <2> SUFFICES ASSUME NEW d, d # b, NEW o \in Op, <<d, o>> \in R PROVE <<d, o>> \notin C
    BY DEF RowsOf
  <2>1. <<d, o>>[1] = d
    OBVIOUS
  <2> QED BY <1>1, <2>1
<1> QED BY <1>3, <1>7, <1>8, <1>9 DEF ops, last, b, C

(* A data line that invalidates the line, or none that did before. *)
LEMMA ChunkInvalidates ==
  ASSUME conn \in ConnState, SendChunk, ~conn'.invalidated
  PROVE  ~conn.invalidated /\ ~(MaxTarget(ChunkOps(conn.rows)) > conn.line.checkpoint)
<1> DEFINE b == FirstRow(conn.rows)[1]
           ops == ChunkOps(conn.rows)
           rest == conn.rows \ Chunk(conn.rows)
           synced == Min({RaceAfter, conn.synced + Cardinality(ops)})
           last == LastOp(ops).op_id
           rows == IF conn.aborted THEN {} ELSE rest
           step == IF conn.aborted THEN "idle" ELSE "sending"
           hasMore == conn.hasMore \/ MoreRows
           invalidated == conn.invalidated \/ MaxTarget(ops) > conn.line.checkpoint
           positions == [conn.positions EXCEPT ![b] = last]
           pending == IF MoreRows THEN conn.pending ELSE conn.pending \ {b}
           builder == IF synced >= RaceAfter /\ conn.builder = "off" THEN "watching" ELSE conn.builder
<1>1. conn' = [conn EXCEPT
              !.rows = IF conn.aborted THEN {} ELSE rest,
              !.step = IF conn.aborted THEN "idle" ELSE "sending",
              !.hasMore = @ \/ MoreRows,
              !.invalidated = @ \/ MaxTarget(ops) > conn.line.checkpoint,
              !.positions[b] = last,
              !.pending = IF MoreRows THEN @ ELSE @ \ {b},
              !.synced = synced,
              !.builder = IF synced >= RaceAfter /\ @ = "off" THEN "watching" ELSE @]
  BY DEF SendChunk, MoreRows, Chunk, ChunkOps, FirstRow
<1> HIDE DEF b, ops, rest, synced, last
<1>2. conn' = [conn EXCEPT !.rows = rows, !.step = step, !.hasMore = hasMore, !.invalidated = invalidated,
              !.positions = positions, !.pending = pending, !.synced = synced, !.builder = builder]
  BY <1>1
<1> HIDE DEF rows, step, hasMore, invalidated, positions, pending, builder
<1>3. conn'.invalidated = invalidated
  BY <1>2 DEF ConnState
<1> QED BY <1>3 DEF invalidated, ops

(***************************************************************************)
(* A line may be built while an earlier one is downloaded, and what the    *)
(* download still brings may point past the checkpoint of that new line.   *)
(***************************************************************************)
NoneOutrun == conn.builder \in {"building", "ready"} => \A p \in conn.rows : p[2].target_op <= conn.watched

LEMMA SendChunk_Publish ==
  ASSUME PublishInv, OnePerBucket, NoneOutrun, SendChunk
  PROVE  PublishInv'
<1> DEFINE R == conn.rows
           b == FirstRow(R)[1]
           ops == ChunkOps(R)
           last == LastOp(ops).op_id
           rest == R \ Chunk(R)
           a == conn.positions[b]
           L == log[b]
           old == Get(client.data, b, NoData)
           n == conn.line.checkpoint
<1>1. UNCHANGED <<compactVars, bucketsAt>> /\ StreamInv'
  BY PublishFields, SendChunk_Inv DEF SendChunk
<1>2. /\ conn.step = "sending" /\ R # {} /\ RowsOK(R) /\ b \in conn.todo
      /\ (conn'.step = "idle" /\ conn'.rows = {}) \/ (conn'.step = "sending" /\ conn'.rows = rest)
      /\ conn'.builder = conn.builder \/ (conn.builder = "off" /\ conn'.builder = "watching")
      /\ conn'.next = conn.next /\ conn'.line = conn.line
      /\ conn'.watched = conn.watched /\ conn'.lastChecksums = conn.lastChecksums /\ conn'.hasSent = conn.hasSent
      /\ conn'.positions = [conn.positions EXCEPT ![b] = last]
      /\ DOMAIN client'.data = DOMAIN client.data \cup {b}
      /\ client'.data[b] = Received(client, b, ops)
      /\ \A x \in DOMAIN client.data : x # b => client'.data[x] = client.data[x]
  BY PublishFields, SendChunkIs
<1>3. /\ FirstRow(R) \in R /\ b \in Buckets /\ \A o : o \in ops <=> <<b, o>> \in Chunk(R)
      /\ Chunk(R) \subseteq R /\ ops # {} /\ IsOps(ops) /\ LastOp(ops) \in ops /\ last \in Nat
  BY <1>2, ChunkIs
<1>4. /\ ops = {o \in RowsOf(R, b) : o.op_id <= last}
      /\ RowsOf(rest, b) = {o \in RowsOf(R, b) : last < o.op_id}
      /\ \A d : d # b => RowsOf(rest, d) = RowsOf(R, d)
      /\ \A o \in ops : o.op_id <= last
  BY <1>2, ChunkSplits
<1>5. RowsFit(log, checkpoint, conn) /\ PublishOK(bucket_data, log, checkpoint, conn, client)
  BY PublishFields DEF PublishOK
<1>6. /\ Segment(RowsOf(R, b), L, a) /\ a \in Nat /\ b \in DOMAIN conn.positions /\ n \in Nat /\ conn.hasSent
      /\ IsLogged(bucket_data[b], L)
  BY <1>3, <1>5, PublishFields, StoreFields DEF RowsFit
<1>7. \A o \in ops : o \in RowsOf(R, b) /\ <<b, o>> \in R /\ o \in Op /\ a < o.op_id
  BY <1>4, <1>6 DEF RowsOf, Segment
<1>8. \A o \in ops : o.op_id <= n /\ o.target_op <= checkpoint /\ o.target_op \in Nat
                     /\ (conn.builder \in {"building", "ready"} => o.target_op <= conn.watched)
  <2> SUFFICES ASSUME NEW o \in ops
               PROVE  o.op_id <= n /\ o.target_op <= checkpoint /\ o.target_op \in Nat
                      /\ (conn.builder \in {"building", "ready"} => o.target_op <= conn.watched)
    OBVIOUS
  <2> DEFINE p == <<b, o>>
  <2>1. p \in R /\ p[2] = o /\ o \in Op
    BY <1>7
  <2> HIDE DEF p
  <2> QED BY <1>5, <2>1, OpFields DEF RowsFit, NoneOutrun
<1>9. a <= last /\ last <= n
  <2> DEFINE e == LastOp(ops)
  <2>1. e \in ops /\ e.op_id = last /\ last \in Nat /\ a \in Nat /\ n \in Nat
    BY <1>3, <1>6
  <2> HIDE DEF e, last, a, n, ops
  <2>2. a < last /\ last <= n
    BY <1>7, <1>8, <2>1
  <2> QED BY <2>1, <2>2
<1>10. Segment(ops, L, a) /\ Segment(RowsOf(rest, b), L, last)
  <2> DEFINE S == RowsOf(R, b)
  <2>1. ops = {o \in S : o.op_id <= last} /\ RowsOf(rest, b) = {o \in S : last < o.op_id} /\ Segment(S, L, a)
    BY <1>4, <1>6
  <2> HIDE DEF S, ops, last, rest, L, a
  <2>2. Segment({o \in S : o.op_id <= last}, L, a) /\ Segment({o \in S : last < o.op_id}, L, last)
    BY <1>3, <1>6, <1>9, <2>1, SegmentSplit
  <2> QED BY <2>1, <2>2
<1>11. old.position = a /\ old.reduced \in Reduced
       /\ (b \in DOMAIN client.data => old = client.data[b]) /\ (b \notin DOMAIN client.data => old = NoData)
  <2>1. SentOK(conn, client, bucketsAt)
    BY <1>2, PublishFields, LineBuckets
  <2>2. b \in DOMAIN conn.lastChecksums
    BY <1>2, <2>1 DEF SentOK
  <2>3. a = PositionAt(client, b)
    BY <2>1, <2>2 DEF SentOK
  <2>4. old.reduced \in Reduced
    BY PublishFields, DataAt
  <2> QED BY <2>3, <2>4, GetIs DEF PositionAt
<1>12. Received(client, b, ops).position = last /\ Received(client, b, ops).reduced = Reduce(old.reduced, ops)
  BY DEF Received
<1> HIDE DEF R, b, ops, last, rest, a, L, old, n
<1>13. ASSUME NEW k \in Nat, last <= k, \A o \in ops : o.target_op <= k, ShowsAll(client, log, k)
       PROVE  ShowsAll(client', log, k)
  <2>1. Shows(old.reduced, L, a, k)
    <3>1. CASE b \in DOMAIN client.data
      BY <1>11, <1>13, <3>1 DEF ShowsAll, L
    <3>2. CASE b \notin DOMAIN client.data
      BY <1>6, <1>11, <3>2, EmptyBucketIs, ShowsNothing
    <3> QED BY <3>1, <3>2
  <2>2. Shows(Reduce(old.reduced, ops), L, last, k)
    <3> DEFINE e == LastOp(ops)
    <3>1. e \in ops /\ \A o \in ops : o.op_id <= e.op_id
      BY <1>3, <1>4 DEF last
    <3> HIDE DEF e
    <3>2. Shows(Reduce(old.reduced, ops), L, e.op_id, k)
      BY <1>6, <1>10, <1>11, <1>13, <2>1, <3>1, ReadOn
    <3> QED BY <3>2 DEF e, last
  <2> SUFFICES ASSUME NEW x \in DOMAIN client'.data
               PROVE  client'.data[x].position <= k /\ Shows(client'.data[x].reduced, log[x], client'.data[x].position, k)
    BY DEF ShowsAll
  <2>3. CASE x = b
    BY <1>2, <1>12, <1>13, <2>2, <2>3 DEF L
  <2>4. CASE x # b
    BY <1>2, <1>13, <2>4 DEF ShowsAll
  <2> QED BY <2>3, <2>4
<1>14. n <= checkpoint /\ n <= conn.watched /\ conn.watched \in Nat /\ checkpoint \in Nat /\ n \in Nat
  BY <1>5, <1>6, PublishFields DEF PublishOK, n
<1>15. ShowsAll(client', log, checkpoint)
  <2>1. ShowsAll(client, log, checkpoint) /\ last <= checkpoint
    BY <1>3, <1>5, <1>9, <1>14 DEF PublishOK
  <2> QED BY <1>8, <1>13, <1>14, <2>1
<1>16. conn'.builder \in {"building", "ready"} => ShowsAll(client', log, conn'.watched)
  <2> SUFFICES ASSUME conn'.builder \in {"building", "ready"} PROVE ShowsAll(client', log, conn.watched)
    BY <1>2
  <2>1. conn.builder \in {"building", "ready"}
    BY <1>2
  <2>2. ShowsAll(client, log, conn.watched) /\ last <= conn.watched
    BY <1>3, <1>5, <1>9, <1>14, <2>1 DEF PublishOK
  <2> QED BY <1>8, <1>13, <1>14, <2>1, <2>2
<1>17. conn'.step = "batch" \/ (conn'.step = "sending" /\ ~conn'.invalidated) => ShowsAll(client', log, conn'.line.checkpoint)
  <2> SUFFICES ASSUME ~conn'.invalidated PROVE ShowsAll(client', log, n)
    BY <1>2 DEF n
  <2>1. ~conn.invalidated /\ ~(MaxTarget(ops) > n)
    BY PublishFields, ChunkInvalidates DEF ops, n, R
  <2>2. MaxTarget(ops) \in Nat /\ \A o \in ops : o.target_op <= MaxTarget(ops)
    BY <1>3, MaxTargetIs DEF IsOps
  <2>3. \A o \in ops : o.target_op <= n
    BY <1>8, <1>14, <2>1, <2>2
  <2>4. ShowsAll(client, log, n)
    BY <1>2, <1>5, <2>1 DEF PublishOK, n
  <2> QED BY <1>9, <1>13, <1>14, <2>3, <2>4
<1>18. RowsFit(log, checkpoint, conn')
  <2>1. CASE conn'.rows = {}
    BY <2>1, NoRowsFit
  <2>2. CASE conn'.rows = rest
    <3> SUFFICES ASSUME NEW p \in rest
                 PROVE  /\ Segment(RowsOf(rest, p[1]), log[p[1]], conn'.positions[p[1]])
                        /\ p[2].op_id <= conn.line.checkpoint /\ p[2].target_op <= checkpoint
      BY <1>2, <2>2 DEF RowsFit
    <3>1. p \in conn.rows
      BY DEF rest, R
    <3>2. /\ Segment(RowsOf(R, p[1]), log[p[1]], conn.positions[p[1]])
          /\ p[2].op_id <= conn.line.checkpoint /\ p[2].target_op <= checkpoint
      BY <1>5, <3>1 DEF RowsFit, R
    <3>3. CASE p[1] = b
      <4>1. conn'.positions[b] = last
        BY <1>2, <1>6
      <4> QED BY <1>10, <3>2, <3>3, <4>1 DEF L
    <3>4. CASE p[1] # b
      <4>1. conn'.positions[p[1]] = conn.positions[p[1]]
        BY <1>2, <3>1, <3>4, PublishFields
      <4> QED BY <1>4, <3>2, <3>4, <4>1
    <3> QED BY <3>3, <3>4
  <2> QED BY <1>2, <2>1, <2>2
<1>19. conn'.hasSent => conn'.line.checkpoint <= conn'.watched /\ SumsOK(bucket_data, log, conn'.lastChecksums, conn'.line.checkpoint)
  BY <1>2, <1>5 DEF PublishOK
<1>20. conn'.builder = "ready" => SumsOK(bucket_data, log, conn'.next.sums, conn'.watched)
  BY <1>2, <1>5 DEF PublishOK
<1>21. PublishOK(bucket_data, log, checkpoint, conn', client')
  BY <1>15, <1>16, <1>17, <1>18, <1>19, <1>20 DEF PublishOK
<1> QED BY <1>1, <1>21, PublishStep

LEMMA PublishInit ==
  ASSUME Init
  PROVE  PublishInv
<1>1. StreamInv /\ StoreInv
  BY StreamInit_Inv, StoreInit DEF Init
<1>2. conn = Closed /\ client.data = << >>
  BY DEF Init
<1>3. DOMAIN client.data = {}
  BY <1>2, EmptyFunction
<1>4. ShowsAll(client, log, checkpoint)
  BY <1>3 DEF ShowsAll
<1>5. PublishOK(bucket_data, log, checkpoint, conn, client)
  BY <1>2, <1>4, ClosedIs, NoRowsFit DEF PublishOK
<1> QED BY <1>1, <1>5 DEF PublishInv

LEMMA PublishNext ==
  ASSUME PublishInv, OnePerBucket, NoneForgotten, NoneOutrun, ~NotifyLag, PositiveHashes, [Next]_vars
  PROVE  PublishInv'
<1>1. CASE StorageNext
  BY <1>1, Storage_Publish
<1>2. CASE Disconnect
  <2>1. StreamInv' /\ UNCHANGED <<compactVars, bucketsAt>> /\ conn' = Closed /\ client' = client
    BY <1>2, PublishFields, Disconnect_Inv DEF Disconnect
  <2> QED BY <2>1, Close_Publish
<1>3. CASE ServerNext
  BY <1>3, StartBuilder_Publish, WatchCheckpoint_Publish, BuildLine_Publish, SendLine_Publish, StartBatch_Publish,
     Interrupt_Publish, SendChunk_Publish, EndBatch_Publish DEF ServerNext
<1>4. CASE UNCHANGED vars
  <2>1. UNCHANGED <<compactVars, bucketsAt>> /\ conn' = conn /\ client' = client
    BY <1>4 DEF vars, streamVars
  <2>2. StreamInv'
    BY <1>4, PublishFields, StreamNext_Inv
  <2>3. PublishOK(bucket_data, log, checkpoint, conn', client')
    BY <2>1, PublishFields
  <2> QED BY <2>1, <2>2, <2>3, PublishStep
<1> QED BY <1>1, <1>2, <1>3, <1>4, Connect_Publish DEF Next

(* What is published in a step is what the client has of the buckets that complete, and their checksums match. *)
LEMMA EndBatchPublishes ==
  ASSUME StreamInv, EndBatch, client'.applied # client.applied, NEW b \in DOMAIN client'.applied
  PROVE  \/ b \in DOMAIN client.applied /\ client'.applied[b] = client.applied[b]
         \/ /\ conn.step = "sending" /\ b \in Completed /\ IsUsable /\ IsValid(b)
            /\ client'.applied[b] = Shown(b)
<1>0. client \in ClientState /\ conn.step = "sending" /\ conn.rows = {}
  BY StreamFields DEF EndBatch
<1>1. client' # client /\ ~conn.hasMore /\ IsUsable
  BY DEF EndBatch
<1> DEFINE all == \A x \in Completed : IsValid(x)
<1>2. all
  <2> SUFFICES ASSUME ~all PROVE FALSE
    OBVIOUS
  <2>1. client' = [client EXCEPT !.data = [x \in {d \in DOMAIN @ : d \in Completed => IsValid(d)} |-> @[x]]]
    BY <1>1 DEF EndBatch, ReceiveComplete
  <2>2. client'.applied = client.applied
    BY <1>0, <2>1 DEF ClientState
  <2> QED BY <2>2
<1>3. client' = [client EXCEPT
             !.applied = IF IsLastPriority THEN [x \in Completed |-> Shown(x)]
                         ELSE [x \in DOMAIN @ \cup Completed |-> IF x \in Completed THEN Shown(x) ELSE @[x]],
             !.isComplete = IsLastPriority]
  <2>1. \A keep : client' # [client EXCEPT !.data = [x \in keep |-> client.data[x]]]
    <3> SUFFICES ASSUME NEW keep, client' = [client EXCEPT !.data = [x \in keep |-> client.data[x]]] PROVE FALSE
      OBVIOUS
    <3>1. client'.applied = client.applied
      BY <1>0 DEF ClientState
    <3> QED BY <3>1
  <2> QED BY <1>1, <2>1, EndBatchIs
<1>4. Completed \in SUBSET Buckets /\ IsLastPriority \in BOOLEAN
  BY <1>0, CompletedIs DEF IsLastPriority
<1>5. (b \in Completed /\ client'.applied[b] = Shown(b)) \/ (b \in DOMAIN client.applied /\ client'.applied[b] = client.applied[b])
  BY <1>0, <1>3, <1>4, AppliedIs
<1> HIDE DEF Shown
<1> QED BY <1>0, <1>1, <1>2, <1>5

(***************************************************************************)
(* What the client has of a bucket, with the checksum of the line and no   *)
(* target past its checkpoint, is what the bucket was at the checkpoint.   *)
(***************************************************************************)
LEMMA ValidIsConsistent ==
  ASSUME PublishInv, conn.step = "sending", NEW b \in Completed, IsUsable, IsValid(b)
  PROVE  \/ IsOvertaken(b, client.checkpoint)
         \/ Content(Get(client.data, b, NoData).reduced) = Content(Original(b, client.checkpoint))
<1> DEFINE k == client.checkpoint
           L == log[b]
           r == Get(client.data, b, NoData).reduced
           p == Get(client.data, b, NoData).position
<1>1. conn.hasSent /\ SentOK(conn, client, bucketsAt)
  BY PublishFields, LineBuckets
<1>2. k = conn.line.checkpoint /\ client.target = conn.lastChecksums /\ k \in Nat
  BY <1>1, PublishFields DEF SentOK
<1>3. b \in DOMAIN conn.lastChecksums /\ b \in Buckets
  BY PublishFields, CompletedIs
<1>4. ShowsAll(client, log, k) /\ SumsOK(bucket_data, log, conn.lastChecksums, k)
  BY <1>1, <1>2, PublishFields DEF PublishOK, IsUsable
<1>5. IsLogged(bucket_data[b], L) /\ \A o \in L : o.checksum > 0
  BY <1>3, PublishFields, StoreFields DEF PositiveLog
<1>6. p \in Nat /\ p <= k /\ Shows(r, L, p, k)
  <2>1. CASE b \in DOMAIN client.data
    <3>1. Get(client.data, b, NoData) = client.data[b]
      BY <2>1, GetIs
    <3> QED BY <1>4, <2>1, <3>1, PublishFields DEF ShowsAll
  <2>2. CASE b \notin DOMAIN client.data
    <3>1. p = 0 /\ r = EmptyBucket
      BY <2>2, GetIs, EmptyBucketIs
    <3>2. Shows(EmptyBucket, L, 0, k)
      BY <1>5, ShowsNothing
    <3> QED BY <1>2, <3>1, <3>2
  <2> QED BY <2>1, <2>2
<1>7. ReducedChecksum(r) = conn.lastChecksums[b].checksum
  BY <1>2 DEF IsValid
<1>8. ASSUME ~IsOvertaken(b, k) PROVE Content(r) = Content(Original(b, k))
  <2>1. ReducedChecksum(r) = SumChecksums(Between(L, 0, k))
    BY <1>3, <1>4, <1>7, <1>8 DEF SumsOK, Overtaken, IsOvertaken
  <2> HIDE DEF k, L, r, p
  <2>2. r.puts = Live(L, k)
    BY <1>2, <1>5, <1>6, <2>1, ShowsExactly
  <2>3. Original(b, k).puts = Live(L, k)
    BY <1>2, <1>5, ReduceLog DEF Original, L
  <2> QED BY <2>2, <2>3 DEF Content
<1> QED BY <1>8

(***************************************************************************)
(* Whatever is compacted between the queries of a download, the client     *)
(* publishes a bucket as it was at the checkpoint of the line, unless a    *)
(* CLEAR has overtaken that checkpoint. A MOVE keeps the checksum of the   *)
(* operation it replaces and a CLEAR that of all before it, so a client    *)
(* that has read one of them has the right checksum, and may still lack a  *)
(* row until it has read up to its target. A line is not completed when a  *)
(* target is past its checkpoint, and its checksum tells which of the rows *)
(* before the checkpoint are there, as no checksum is 0. That is true when *)
(* the server is told of the last checkpoint, when compactors do not       *)
(* overlap on a bucket, when no later batch forgets that the line is       *)
(* invalidated, and when no next line is built that the download outruns;  *)
(* README section 5 has what happens otherwise.                            *)
(***************************************************************************)
THEOREM PublishedIsConsistent ==
  ASSUME ~NotifyLag, PositiveHashes
  PROVE  Spec /\ []OnePerBucket /\ []NoneForgotten /\ []NoneOutrun => PublishesConsistent
<1> DEFINE Step ==
      \A b \in DOMAIN client'.applied :
        LET shown == client'.applied[b]
        IN \/ b \in DOMAIN client.applied /\ client.applied[b] = shown
           \/ IsOvertaken(b, shown.checkpoint)
           \/ shown.content = Content(Original(b, shown.checkpoint))
<1>1. Init => PublishInv
  BY PublishInit
<1>2. PublishInv /\ OnePerBucket /\ NoneForgotten /\ NoneOutrun /\ [Next]_vars => PublishInv'
  BY PublishNext
<1>3. ASSUME PublishInv, [Next]_vars PROVE Step
  <2> SUFFICES ASSUME NEW b \in DOMAIN client'.applied
               PROVE  \/ b \in DOMAIN client.applied /\ client.applied[b] = client'.applied[b]
                      \/ IsOvertaken(b, client'.applied[b].checkpoint)
                      \/ client'.applied[b].content = Content(Original(b, client'.applied[b].checkpoint))
    OBVIOUS
  <2>1. CASE client'.applied = client.applied
    BY <2>1
  <2>2. CASE client'.applied # client.applied
    <3>1. StreamInv /\ EndBatch
      BY <1>3, <2>2, PublishFields, PublishesAtEnd
    <3>2. CASE conn.step = "sending" /\ b \in Completed /\ IsUsable /\ IsValid(b) /\ client'.applied[b] = Shown(b)
      <4>1. Shown(b).checkpoint = client.checkpoint /\ Shown(b).content = Content(Get(client.data, b, NoData).reduced)
        BY DEF Shown
      <4> HIDE DEF Shown
      <4>2. \/ IsOvertaken(b, client.checkpoint)
            \/ Content(Get(client.data, b, NoData).reduced) = Content(Original(b, client.checkpoint))
        BY <1>3, <3>2, ValidIsConsistent
      <4> QED BY <3>2, <4>1, <4>2
    <3> QED BY <2>2, <3>1, <3>2, EndBatchPublishes
  <2> QED BY <2>1, <2>2
<1> HIDE DEF Step
<1>4. Spec /\ []OnePerBucket /\ []NoneForgotten /\ []NoneOutrun => [][Step]_vars
  BY <1>1, <1>2, <1>3, PTL DEF Spec
<1> QED BY <1>4 DEF PublishesConsistent, Step
===============================================================================
