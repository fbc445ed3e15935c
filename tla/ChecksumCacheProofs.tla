-------------------------- MODULE ChecksumCacheProofs --------------------------
(***************************************************************************)
(* Proofs about ChecksumCache, for every value of its constants.           *)
(***************************************************************************)
EXTENDS ChecksumCache, PostgresCompactorProofs

RequestState ==
  [step : {"idle", "fetch", "resolve", "settle"}, checkpoint : Nat, toFetch : SUBSET Buckets,
   start : Partial(Nat), add : Partial(BucketChecksum), results : Partial(BucketChecksum),
   promises : Partial(Requests), final : Partial(BucketChecksum)]

\* State q of request r, when n is the last op id.
RequestOK(q, r, n) ==
  /\ q.step # "idle" => q.checkpoint \in 1..n
  /\ q.step \in {"idle", "settle"} => q.toFetch = {}
  /\ q.step = "idle" => DOMAIN q.promises = {} /\ DOMAIN q.final = {}
  /\ q.step = "fetch" => DOMAIN q.start = q.toFetch /\ DOMAIN q.add = q.toFetch
  /\ q.step = "resolve" => q.toFetch \subseteq DOMAIN q.results
  /\ \A b \in q.toFetch : b \in DOMAIN q.promises /\ q.promises[b] = r

Fetching(q, b, k) == q.step \in {"fetch", "resolve"} /\ b \in q.toFetch /\ q.checkpoint = k

CacheInv ==
  /\ CompactInv
  /\ op_id <= MaxOp
  /\ cache \in [Keys -> BucketChecksum \cup Requests \cup {None}]
  /\ bucketCheckpoints \in [Buckets -> SUBSET Checkpoints]
  /\ requests \in [Requests -> RequestState]
  /\ \A r \in Requests : RequestOK(requests[r], r, op_id)
  /\ \A b \in Buckets, k \in Checkpoints : cache[<<b, k>>] # None => k <= op_id
  /\ \A b \in Buckets, k \in Checkpoints : InFlight(<<b, k>>) => Fetching(requests[cache[<<b, k>>]], b, k)
  /\ \A r \in Requests : \A b \in DOMAIN requests[r].promises :
       Fetching(requests[requests[r].promises[b]], b, requests[r].checkpoint)

LEMMA PartialAt ==
  ASSUME NEW T, NEW f \in Partial(T)
  PROVE  /\ DOMAIN f \in SUBSET Buckets /\ f \in [DOMAIN f -> T] /\ \A b \in DOMAIN f : b \in Buckets /\ f[b] \in T
         /\ \A S \in SUBSET (DOMAIN f) :
              LET g == Restrict(f, S)
              IN  g \in Partial(T) /\ DOMAIN g = S /\ \A b \in S : g[b] = f[b]
<1>1. PICK U \in SUBSET Buckets : f \in [U -> T]
  BY DEF Partial
<1>2. DOMAIN f = U
  BY <1>1
<1>3. ASSUME NEW S \in SUBSET (DOMAIN f)
      PROVE  LET g == Restrict(f, S)
             IN  g \in Partial(T) /\ DOMAIN g = S /\ \A b \in S : g[b] = f[b]
  <2> DEFINE g == Restrict(f, S)
  <2>1. g = [b \in S |-> f[b]] /\ S \in SUBSET Buckets
    BY <1>2 DEF Restrict
  <2>2. g \in [S -> T] /\ \A b \in S : g[b] = f[b]
    BY <1>1, <1>2, <2>1
  <2> HIDE DEF g
  <2> QED BY <2>1, <2>2, PartialIs DEF g
<1>5. DOMAIN f \in SUBSET Buckets /\ f \in [DOMAIN f -> T] /\ \A b \in DOMAIN f : b \in Buckets /\ f[b] \in T
  BY <1>1, <1>2
<1> QED BY <1>3, <1>5

LEMMA IdleRequestState ==
  /\ IdleRequest \in RequestState
  /\ \A r : RequestOK(IdleRequest, r, op_id)
  /\ DOMAIN IdleRequest.promises = {} /\ DOMAIN IdleRequest.final = {}
<1>1. IdleRequest.step = "idle" /\ IdleRequest.toFetch = {} /\ IdleRequest.promises = << >> /\ IdleRequest.final = << >>
  BY DEF IdleRequest
<1>2. IdleRequest \in RequestState
  BY EmptyFunction DEF IdleRequest, RequestState
<1>3. DOMAIN IdleRequest.promises = {} /\ DOMAIN IdleRequest.final = {}
  BY <1>1, EmptyFunction
<1> QED BY <1>1, <1>2, <1>3 DEF RequestOK

LEMMA RequestFields ==
  ASSUME NEW q \in RequestState
  PROVE  /\ q.step \in {"idle", "fetch", "resolve", "settle"} /\ q.checkpoint \in Nat /\ q.toFetch \in SUBSET Buckets
         /\ q.start \in Partial(Nat) /\ q.add \in Partial(BucketChecksum) /\ q.results \in Partial(BucketChecksum)
         /\ q.promises \in Partial(Requests) /\ q.final \in Partial(BucketChecksum)
BY DEF RequestState

LEMMA CacheAt ==
  ASSUME CacheInv, NEW b \in Buckets, NEW k \in Checkpoints
  PROVE  /\ <<b, k>> \in Keys /\ cache[<<b, k>>] \in BucketChecksum \cup Requests \cup {None}
         /\ k \in Nat /\ k > 0 /\ k <= MaxOp
BY CompactBoundsAssumption DEF CacheInv, Keys, Checkpoints

LEMMA MaxOfNaturals ==
  ASSUME NEW n \in Nat, NEW S \in SUBSET (0..n), S # {}
  PROVE  Max(S) \in S /\ \A j \in S : j <= Max(S)
<1> DEFINE P == {m \in Nat : \A T \in SUBSET (0..m) : T # {} => \E x \in T : \A y \in T : x >= y}
<1>1. 0 \in P
  <2> SUFFICES ASSUME NEW T \in SUBSET (0..0), T # {} PROVE \E x \in T : \A y \in T : x >= y
    OBVIOUS
  <2>1. \A y \in T : y = 0 /\ 0 >= y
    OBVIOUS
  <2>2. 0 \in T
    BY <2>1
  <2> QED BY <2>1, <2>2
<1>2. ASSUME NEW m \in Nat, m \in P PROVE m + 1 \in P
  <2> SUFFICES ASSUME NEW T \in SUBSET (0..(m + 1)), T # {} PROVE \E x \in T : \A y \in T : x >= y
    OBVIOUS
  <2>1. CASE m + 1 \in T
    BY <2>1
  <2>2. CASE m + 1 \notin T
    <3>1. T \in SUBSET (0..m)
      BY <2>2
    <3> QED BY <1>2, <3>1
  <2> QED BY <2>1, <2>2
<1>3. n \in P
  <2> HIDE DEF P
  <2> QED BY <1>1, <1>2, NatSetInduction
<1>4. PICK x \in S : \A y \in S : x >= y
  BY <1>3
<1>5. Max(S) \in S /\ \A y \in S : Max(S) >= y
  BY <1>4 DEF Max
<1> QED BY <1>5

(* A new checksum starts from nothing, or from a cached one before it. *)
LEMMA StartIs ==
  ASSUME CacheInv, NEW b \in Buckets, NEW k \in Nat, k > 0
  PROVE  /\ Start(b, k) \in Nat /\ Start(b, k) < k
         /\ Start(b, k) = 0 \/ (Start(b, k) \in Checkpoints /\ Fetched(<<b, Start(b, k)>>))
<1> DEFINE S == {0} \cup {j \in bucketCheckpoints[b] : j < k /\ Fetched(<<b, j>>)}
<1>1. bucketCheckpoints[b] \subseteq Checkpoints
  BY DEF CacheInv
<1>2. S \in SUBSET (0..MaxOp) /\ S # {}
  BY <1>1, CompactBoundsAssumption DEF Checkpoints
<1>3. Start(b, k) \in S
  <2>1. Max(S) \in S
    <3> HIDE DEF S
    <3> QED BY <1>2, MaxOfNaturals, CompactBoundsAssumption
  <2> QED BY <2>1 DEF Start
<1>4. Start(b, k) \in Nat /\ Start(b, k) < k
  BY <1>1, <1>3, CompactBoundsAssumption DEF Checkpoints
<1> QED BY <1>1, <1>3, <1>4

-----------------------------------------------------------------------------
LEMMA CacheInit_Inv ==
  ASSUME CacheInit
  PROVE  CacheInv
<1>1. CompactInv
  BY CompactInit_Inv DEF CacheInit
<1>2. op_id <= MaxOp
  BY CompactBoundsAssumption DEF CacheInit, CompactInit
<1>3. /\ cache = [key \in Keys |-> None]
      /\ bucketCheckpoints = [b \in Buckets |-> {}]
      /\ requests = [r \in Requests |-> IdleRequest]
  BY DEF CacheInit
<1>4. \A b \in Buckets, k \in Checkpoints : cache[<<b, k>>] = None
  BY <1>3 DEF Keys
<1>5. \A b \in Buckets, k \in Checkpoints : ~InFlight(<<b, k>>)
  BY <1>4, EntriesAssumption DEF InFlight
<1>6. \A r \in Requests : requests[r] = IdleRequest
  BY <1>3
<1>7. requests \in [Requests -> RequestState]
  BY <1>3, IdleRequestState
<1>8. \A r \in Requests : RequestOK(requests[r], r, op_id) /\ DOMAIN requests[r].promises = {}
  BY <1>6, IdleRequestState
<1> QED BY <1>1, <1>2, <1>3, <1>4, <1>5, <1>7, <1>8 DEF CacheInv

(* Storage and compactors take a step. *)
LEMMA CompactStep_Cache ==
  ASSUME CacheInv, CompactNext \/ UNCHANGED compactVars, UNCHANGED cacheVars
  PROVE  CacheInv'
<1>1. CompactInv /\ CompactInv'
  BY CompactNext_Inv DEF CacheInv
<1>2. op_id \in Nat /\ op_id' \in Nat /\ op_id <= op_id' /\ op_id' <= MaxOp
  <2>1. op_id \in Nat /\ op_id <= MaxOp /\ op_id' \in Nat
    BY <1>1 DEF CompactInv, StorageOK, CacheInv
  <2>2. op_id' = op_id \/ (op_id < MaxOp /\ Flush)
    BY DEF CompactNext, Commit, CompactStep, StartCompact, CompactSingleBucket, ScanOp, FlushMoves, EndScan, ClearBucket,
           StopCompact, storageVars, compactVars
  <2>3. Flush => op_id' = op_id + 1
    BY <1>1, FlushIs DEF AppendOp
  <2> QED BY <2>1, <2>2, <2>3, CompactBoundsAssumption
<1>3. cache' = cache /\ bucketCheckpoints' = bucketCheckpoints /\ requests' = requests
  BY DEF cacheVars
<1>4. ASSUME NEW r \in Requests PROVE RequestOK(requests[r], r, op_id')
  <2>1. RequestOK(requests[r], r, op_id)
    BY DEF CacheInv
  <2> QED BY <1>2, <2>1 DEF RequestOK
<1>5. ASSUME NEW b \in Buckets, NEW k \in Checkpoints, cache[<<b, k>>] # None PROVE k <= op_id'
  <2>1. k \in Nat /\ k <= op_id
    BY <1>5, CacheAt DEF CacheInv
  <2> QED BY <1>2, <2>1
<1> QED BY <1>1, <1>2, <1>3, <1>4, <1>5 DEF CacheInv, InFlight

LEMMA CacheKept ==
  ASSUME CacheInv, UNCHANGED compactVars,
         cache' \in [Keys -> BucketChecksum \cup Requests \cup {None}],
         bucketCheckpoints' \in [Buckets -> SUBSET Checkpoints],
         requests' \in [Requests -> RequestState],
         \A r \in Requests : RequestOK(requests'[r], r, op_id),
         \A b \in Buckets, k \in Checkpoints : cache'[<<b, k>>] # None => k <= op_id,
         \A b \in Buckets, k \in Checkpoints : cache'[<<b, k>>] \in Requests => Fetching(requests'[cache'[<<b, k>>]], b, k),
         \A r \in Requests : \A b \in DOMAIN requests'[r].promises :
           Fetching(requests'[requests'[r].promises[b]], b, requests'[r].checkpoint)
  PROVE  CacheInv'
<1>1. CompactInv' /\ op_id' = op_id
  BY CompactNext_Inv DEF CacheInv, compactVars, storageVars
<1> QED BY <1>1 DEF CacheInv, InFlight

(* Entries are lost. *)
LEMMA EntriesLost ==
  ASSUME CacheInv, UNCHANGED compactVars, requests' = requests,
         bucketCheckpoints' \in [Buckets -> SUBSET Checkpoints],
         cache' \in [Keys -> BucketChecksum \cup Requests \cup {None}],
         \A b \in Buckets, k \in Checkpoints : cache'[<<b, k>>] \in {cache[<<b, k>>], None}
  PROVE  CacheInv'
<1>1. \A r \in Requests : None # r
  BY EntriesAssumption
<1>2. \A b \in Buckets, k \in Checkpoints :
        /\ cache'[<<b, k>>] # None => k <= op_id
        /\ cache'[<<b, k>>] \in Requests => Fetching(requests'[cache'[<<b, k>>]], b, k)
  <2> SUFFICES ASSUME NEW b \in Buckets, NEW k \in Checkpoints
               PROVE  /\ cache'[<<b, k>>] # None => k <= op_id
                      /\ cache'[<<b, k>>] \in Requests => Fetching(requests'[cache'[<<b, k>>]], b, k)
    OBVIOUS
  <2>1. cache[<<b, k>>] \in Requests => Fetching(requests[cache[<<b, k>>]], b, k)
    BY DEF CacheInv, InFlight
  <2>2. cache[<<b, k>>] # None => k <= op_id
    BY DEF CacheInv
  <2> QED BY <1>1, <2>1, <2>2
<1>3. /\ requests' \in [Requests -> RequestState]
      /\ \A r \in Requests : RequestOK(requests'[r], r, op_id)
      /\ \A r \in Requests : \A b \in DOMAIN requests'[r].promises :
           Fetching(requests'[requests'[r].promises[b]], b, requests'[r].checkpoint)
  BY DEF CacheInv
<1> QED BY <1>2, <1>3, CacheKept

LEMMA CacheEntry ==
  ASSUME CacheInv, NEW b \in Buckets, NEW k \in Checkpoints, NEW v \in BucketChecksum \cup Requests \cup {None},
         cache' = [cache EXCEPT ![<<b, k>>] = v]
  PROVE  /\ cache' \in [Keys -> BucketChecksum \cup Requests \cup {None}]
         /\ cache'[<<b, k>>] = v
         /\ \A d \in Buckets, j \in Checkpoints : d # b \/ j # k => cache'[<<d, j>>] = cache[<<d, j>>]
<1>1. cache \in [Keys -> BucketChecksum \cup Requests \cup {None}] /\ <<b, k>> \in Keys
  BY CacheAt DEF CacheInv
<1>2. \A d \in Buckets, j \in Checkpoints : <<d, j>> \in Keys /\ (<<d, j>> = <<b, k>> => d = b /\ j = k)
  BY DEF Keys
<1> QED BY <1>1, <1>2

LEMMA Loses_Inv ==
  ASSUME CacheInv,
         Clear \/ \E b \in Buckets, k \in Checkpoints : Evict(b, k) \/ Expire(b, k)
  PROVE  CacheInv'
<1>1. CASE Clear
  <2>1. cache' = [key \in Keys |-> None] /\ bucketCheckpoints' = [b \in Buckets |-> {}]
        /\ UNCHANGED compactVars /\ requests' = requests
    BY <1>1 DEF Clear
  <2>2. \A b \in Buckets, k \in Checkpoints : cache'[<<b, k>>] = None
    BY <2>1, CacheAt
  <2> QED BY <2>1, <2>2, EntriesLost
<1>2. ASSUME NEW b \in Buckets, NEW k \in Checkpoints, Evict(b, k) \/ Expire(b, k) PROVE CacheInv'
  <2>1. cache' = [cache EXCEPT ![<<b, k>>] = None] /\ UNCHANGED compactVars /\ requests' = requests
    BY <1>2 DEF Evict, Expire
  <2>2. bucketCheckpoints' \in [Buckets -> SUBSET Checkpoints]
    BY <1>2 DEF Evict, Expire, CacheInv
  <2>3. /\ cache' \in [Keys -> BucketChecksum \cup Requests \cup {None}]
        /\ cache'[<<b, k>>] = None
        /\ \A d \in Buckets, j \in Checkpoints : d # b \/ j # k => cache'[<<d, j>>] = cache[<<d, j>>]
    BY <2>1, CacheEntry
  <2>4. \A d \in Buckets, j \in Checkpoints : cache'[<<d, j>>] \in {cache[<<d, j>>], None}
    BY <2>3
  <2> QED BY <2>1, <2>2, <2>3, <2>4, EntriesLost
<1> QED BY <1>1, <1>2

(* The state of one request changes. *)
LEMMA OneRequest ==
  ASSUME CacheInv, NEW r \in Requests, NEW n, requests' = [requests EXCEPT ![r] = n], n \in RequestState, RequestOK(n, r, op_id)
  PROVE  /\ requests' \in [Requests -> RequestState] /\ requests'[r] = n
         /\ \A q \in Requests : q # r => requests'[q] = requests[q]
         /\ \A q \in Requests : RequestOK(requests'[q], q, op_id)
<1>1. requests \in [Requests -> RequestState] /\ \A q \in Requests : RequestOK(requests[q], q, op_id)
  BY DEF CacheInv
<1>2. requests' \in [Requests -> RequestState] /\ requests'[r] = n /\ \A q \in Requests : q # r => requests'[q] = requests[q]
  BY <1>1
<1>3. \A q \in Requests : RequestOK(requests'[q], q, op_id)
  <2> TAKE q \in Requests
  <2>1. CASE q = r
    BY <1>2, <2>1
  <2>2. CASE q # r
    <3>1. requests'[q] = requests[q]
      BY <1>2, <2>2
    <3> QED BY <1>1, <3>1
  <2> QED BY <2>1, <2>2
<1> QED BY <1>2, <1>3

LEMMA RequestAt ==
  ASSUME CacheInv, NEW r \in Requests
  PROVE  /\ requests[r] \in RequestState /\ RequestOK(requests[r], r, op_id)
         /\ \A b \in DOMAIN requests[r].promises :
              /\ b \in Buckets /\ requests[r].promises[b] \in Requests
              /\ Fetching(requests[requests[r].promises[b]], b, requests[r].checkpoint)
<1>1. requests[r] \in RequestState /\ RequestOK(requests[r], r, op_id)
  BY DEF CacheInv
<1>2. requests[r].promises \in Partial(Requests)
  BY <1>1, RequestFields
<1>3. \A b \in DOMAIN requests[r].promises : b \in Buckets /\ requests[r].promises[b] \in Requests
  BY <1>2, PartialAt
<1>4. \A b \in DOMAIN requests[r].promises : Fetching(requests[requests[r].promises[b]], b, requests[r].checkpoint)
  BY DEF CacheInv
<1> QED BY <1>1, <1>3, <1>4

LEMMA Return_Inv ==
  ASSUME CacheInv, NEW r \in Requests, Return(r)
  PROVE  CacheInv'
<1>1. /\ requests[r].step = "settle" /\ requests' = [requests EXCEPT ![r] = IdleRequest]
      /\ UNCHANGED compactVars /\ cache' = cache /\ bucketCheckpoints' = bucketCheckpoints
  BY DEF Return
<1>2. /\ requests' \in [Requests -> RequestState] /\ requests'[r] = IdleRequest
      /\ \A q \in Requests : q # r => requests'[q] = requests[q]
      /\ \A q \in Requests : RequestOK(requests'[q], q, op_id)
  BY <1>1, IdleRequestState, OneRequest
<1>3. \A b, k : ~Fetching(requests[r], b, k)
  BY <1>1 DEF Fetching
<1>4. ASSUME NEW b \in Buckets, NEW k \in Checkpoints, cache[<<b, k>>] \in Requests
      PROVE  Fetching(requests'[cache[<<b, k>>]], b, k)
  <2>1. Fetching(requests[cache[<<b, k>>]], b, k)
    BY <1>4 DEF CacheInv, InFlight
  <2>2. cache[<<b, k>>] # r
    BY <1>3, <2>1
  <2> QED BY <1>2, <1>4, <2>1, <2>2
<1>5. ASSUME NEW q \in Requests, NEW b \in DOMAIN requests'[q].promises
      PROVE  Fetching(requests'[requests'[q].promises[b]], b, requests'[q].checkpoint)
  <2>1. q # r
    BY <1>2, IdleRequestState
  <2>2. requests'[q] = requests[q]
    BY <1>2, <2>1
  <2>3. requests[q].promises[b] \in Requests /\ Fetching(requests[requests[q].promises[b]], b, requests[q].checkpoint)
    BY <2>2, RequestAt
  <2>4. requests[q].promises[b] # r
    BY <1>3, <2>3
  <2> QED BY <1>2, <2>2, <2>3, <2>4
<1>6. /\ cache \in [Keys -> BucketChecksum \cup Requests \cup {None}]
      /\ bucketCheckpoints \in [Buckets -> SUBSET Checkpoints]
      /\ \A b \in Buckets, k \in Checkpoints : cache[<<b, k>>] # None => k <= op_id
  BY DEF CacheInv
<1> QED BY <1>1, <1>2, <1>4, <1>5, <1>6, CacheKept

(* What a fetch computes. *)
FetchedSum(r, b) ==
  LET q == requests[r]
  IN  AddBucketChecksums(q.add[b], PartialChecksum(Between(bucket_data[b], q.start[b], q.checkpoint)))

LEMMA FetchedType ==
  ASSUME CacheInv, NEW r \in Requests, requests[r].step = "fetch", NEW b \in requests[r].toFetch
  PROVE  FetchedSum(r, b) \in BucketChecksum
<1> DEFINE q == requests[r]
           ops == Between(bucket_data[b], q.start[b], q.checkpoint)
           p == PartialChecksum(ops)
<1>1. q \in RequestState /\ RequestOK(q, r, op_id)
  BY RequestAt
<1>2. b \in Buckets /\ b \in DOMAIN q.add /\ q.add \in Partial(BucketChecksum)
  BY <1>1, RequestFields DEF RequestOK
<1>3. q.add[b] \in BucketChecksum
  BY <1>2, PartialAt
<1>4. IsOps(bucket_data[b])
  BY <1>2, BucketIsOps DEF CacheInv, CompactInv
<1>5. ops \subseteq Op /\ IsFiniteSet(ops)
  BY <1>4, BetweenIs
<1>6. SumChecksums(ops) \in Nat /\ Cardinality(ops) \in Nat
  BY <1>5, SumType, FS_CardinalityType
<1>7. p.checksum \in Nat /\ p.count \in Nat
  BY <1>6 DEF PartialChecksum
<1>8. q.add[b].checksum \in Nat /\ q.add[b].count \in Nat
  BY <1>3 DEF BucketChecksum
<1> HIDE DEF p, q
<1>9. AddBucketChecksums(q.add[b], p) \in BucketChecksum
  BY <1>7, <1>8 DEF AddBucketChecksums, BucketChecksum
<1> QED BY <1>9 DEF FetchedSum, p, q

LEMMA FetchIs ==
  ASSUME CacheInv, NEW r \in Requests, FetchChecksums(r)
  PROVE  LET q == requests[r]
             results == [b \in q.toFetch |-> FetchedSum(r, b)]
             n == [q EXCEPT !.step = "resolve", !.results = results]
         IN  /\ q.step = "fetch" /\ requests' = [requests EXCEPT ![r] = n]
             /\ n \in RequestState /\ RequestOK(n, r, op_id)
             /\ n.step = "resolve" /\ n.toFetch = q.toFetch /\ n.checkpoint = q.checkpoint
             /\ n.promises = q.promises /\ n.final = q.final /\ n.results = results
             /\ UNCHANGED <<compactVars, cache, bucketCheckpoints>>
<1> DEFINE q == requests[r]
           results == [b \in q.toFetch |-> FetchedSum(r, b)]
           n == [q EXCEPT !.step = "resolve", !.results = results]
<1>1. q.step = "fetch" /\ UNCHANGED <<compactVars, cache, bucketCheckpoints>>
  BY DEF FetchChecksums
<1>2. requests' = [requests EXCEPT ![r] = n]
  BY DEF FetchChecksums, FetchedSum
<1>3. q \in RequestState /\ RequestOK(q, r, op_id)
  BY RequestAt
<1>4. results \in [q.toFetch -> BucketChecksum] /\ q.toFetch \in SUBSET Buckets
  BY <1>1, <1>3, FetchedType, RequestFields
<1>5. results \in Partial(BucketChecksum) /\ DOMAIN results = q.toFetch
  BY <1>4, PartialIs
<1> HIDE DEF results, q
<1>6. n \in RequestState
  BY <1>3, <1>5 DEF RequestState
<1>7. /\ n.step = "resolve" /\ n.toFetch = q.toFetch /\ n.checkpoint = q.checkpoint
      /\ n.promises = q.promises /\ n.final = q.final /\ n.results = results
  BY <1>3 DEF RequestState
<1> HIDE DEF n
<1>8. RequestOK(n, r, op_id)
  BY <1>1, <1>3, <1>5, <1>7 DEF RequestOK
<1> QED BY <1>1, <1>2, <1>6, <1>7, <1>8 DEF n, q, results

LEMMA FetchChecksums_Inv ==
  ASSUME CacheInv, NEW r \in Requests, FetchChecksums(r)
  PROVE  CacheInv'
<1> DEFINE q == requests[r]
           n == [q EXCEPT !.step = "resolve", !.results = [b \in q.toFetch |-> FetchedSum(r, b)]]
<1>1. /\ q.step = "fetch" /\ requests' = [requests EXCEPT ![r] = n]
      /\ n \in RequestState /\ RequestOK(n, r, op_id)
      /\ n.step = "resolve" /\ n.toFetch = q.toFetch /\ n.checkpoint = q.checkpoint
      /\ n.promises = q.promises
      /\ UNCHANGED <<compactVars, cache, bucketCheckpoints>>
  BY FetchIs
<1> HIDE DEF n
<1>2. /\ requests' \in [Requests -> RequestState] /\ requests'[r] = n
      /\ \A d \in Requests : d # r => requests'[d] = requests[d]
      /\ \A d \in Requests : RequestOK(requests'[d], d, op_id)
  BY <1>1, OneRequest
<1>3. ASSUME NEW d \in Requests
      PROVE  /\ requests'[d].promises = requests[d].promises /\ requests'[d].checkpoint = requests[d].checkpoint
             /\ \A b, k : Fetching(requests[d], b, k) => Fetching(requests'[d], b, k)
  <2>1. CASE d = r
    BY <1>1, <1>2, <2>1 DEF Fetching
  <2>2. CASE d # r
    <3>1. requests'[d] = requests[d]
      BY <1>2, <2>2
    <3> QED BY <3>1
  <2> QED BY <2>1, <2>2
<1>4. ASSUME NEW d \in Requests, NEW b \in DOMAIN requests'[d].promises
      PROVE  Fetching(requests'[requests'[d].promises[b]], b, requests'[d].checkpoint)
  <2>1. requests'[d].promises = requests[d].promises /\ requests'[d].checkpoint = requests[d].checkpoint
    BY <1>3
  <2>2. requests[d].promises[b] \in Requests /\ Fetching(requests[requests[d].promises[b]], b, requests[d].checkpoint)
    BY <2>1, RequestAt
  <2> QED BY <1>3, <2>1, <2>2
<1>5. \A b \in Buckets, k \in Checkpoints : cache[<<b, k>>] \in Requests => Fetching(requests'[cache[<<b, k>>]], b, k)
  BY <1>3 DEF CacheInv, InFlight
<1>6. /\ cache \in [Keys -> BucketChecksum \cup Requests \cup {None}]
      /\ bucketCheckpoints \in [Buckets -> SUBSET Checkpoints]
      /\ \A b \in Buckets, k \in Checkpoints : cache[<<b, k>>] # None => k <= op_id
  BY DEF CacheInv
<1> QED BY <1>1, <1>2, <1>4, <1>5, <1>6, CacheKept

LEMMA GetIs ==
  ASSUME CacheInv, NEW r \in Requests, NEW k \in 1..checkpoint, NEW buckets \in SUBSET Buckets, GetChecksumMap(r, k, buckets)
  PROVE  LET hits == {b \in buckets : Fetched(<<b, k>>)}
             toFetch == {b \in buckets \ hits : ~InFlight(<<b, k>>)}
             n == [step |-> IF toFetch = {} THEN "settle" ELSE "fetch",
                   checkpoint |-> k,
                   toFetch |-> toFetch,
                   start |-> [b \in toFetch |-> Start(b, k)],
                   add |-> [b \in toFetch |-> IF Start(b, k) = 0 THEN Zero ELSE cache[<<b, Start(b, k)>>]],
                   results |-> << >>,
                   promises |-> [b \in buckets \ hits |-> IF b \in toFetch THEN r ELSE cache[<<b, k>>]],
                   final |-> [b \in hits |-> cache[<<b, k>>]]]
         IN  /\ requests[r].step = "idle" /\ requests' = [requests EXCEPT ![r] = n]
             /\ n \in RequestState /\ RequestOK(n, r, op_id)
             /\ cache' = [key \in Keys |-> IF key[1] \in toFetch /\ key[2] = k THEN r ELSE cache[key]]
             /\ UNCHANGED <<compactVars, bucketCheckpoints>>
             /\ k \in Checkpoints /\ k <= op_id /\ hits \subseteq Buckets /\ toFetch \subseteq Buckets
<1> DEFINE hits == {b \in buckets : Fetched(<<b, k>>)}
           toFetch == {b \in buckets \ hits : ~InFlight(<<b, k>>)}
           start == [b \in toFetch |-> Start(b, k)]
           add == [b \in toFetch |-> IF Start(b, k) = 0 THEN Zero ELSE cache[<<b, Start(b, k)>>]]
           promises == [b \in buckets \ hits |-> IF b \in toFetch THEN r ELSE cache[<<b, k>>]]
           final == [b \in hits |-> cache[<<b, k>>]]
           n == [step |-> IF toFetch = {} THEN "settle" ELSE "fetch",
                 checkpoint |-> k, toFetch |-> toFetch, start |-> start, add |-> add,
                 results |-> << >>, promises |-> promises, final |-> final]
<1>1. /\ requests[r].step = "idle" /\ requests' = [requests EXCEPT ![r] = n]
      /\ cache' = [key \in Keys |-> IF key[1] \in toFetch /\ key[2] = k THEN r ELSE cache[key]]
      /\ UNCHANGED <<compactVars, bucketCheckpoints>>
  BY DEF GetChecksumMap
<1>2. k \in Nat /\ k > 0 /\ k <= op_id /\ k \in Checkpoints
  <2>1. checkpoint \in Nat /\ checkpoint <= op_id /\ op_id \in Nat /\ op_id <= MaxOp
    BY DEF CacheInv, CompactInv, StorageOK
  <2> QED BY <2>1, CompactBoundsAssumption DEF Checkpoints
<1>3. hits \in SUBSET Buckets /\ toFetch \in SUBSET Buckets /\ buckets \ hits \in SUBSET Buckets
  OBVIOUS
<1>4. \A b \in toFetch : Start(b, k) \in Nat
                         /\ (Start(b, k) # 0 => cache[<<b, Start(b, k)>>] \in BucketChecksum)
  BY <1>2, StartIs DEF Fetched
<1>5. start \in [toFetch -> Nat]
  BY <1>4
<1>6. Zero \in BucketChecksum
  BY DEF Zero, BucketChecksum
<1>7. add \in [toFetch -> BucketChecksum]
  BY <1>4, <1>6
<1>8. final \in [hits -> BucketChecksum]
  BY DEF Fetched
<1>9. promises \in [buckets \ hits -> Requests]
  BY DEF InFlight
<1>10. \A b \in toFetch : b \in buckets \ hits /\ promises[b] = r
  OBVIOUS
<1> HIDE DEF start, add, final, promises
<1>11. /\ start \in Partial(Nat) /\ DOMAIN start = toFetch
       /\ add \in Partial(BucketChecksum) /\ DOMAIN add = toFetch
       /\ final \in Partial(BucketChecksum)
       /\ promises \in Partial(Requests) /\ DOMAIN promises = buckets \ hits
       /\ << >> \in Partial(BucketChecksum)
  BY <1>3, <1>5, <1>7, <1>8, <1>9, PartialIs, EmptyFunction
<1> HIDE DEF toFetch, hits
<1>12. n \in RequestState
  BY <1>2, <1>3, <1>11 DEF RequestState
<1>13. /\ n.step = (IF toFetch = {} THEN "settle" ELSE "fetch") /\ n.checkpoint = k /\ n.toFetch = toFetch
       /\ n.start = start /\ n.add = add /\ n.promises = promises
  OBVIOUS
<1>14. RequestOK(n, r, op_id)
  <2> HIDE DEF n
  <2>1. k \in 1..op_id
    BY <1>2 DEF CacheInv, CompactInv, StorageOK
  <2> QED BY <1>10, <1>11, <1>13, <2>1 DEF RequestOK
<1> QED BY <1>1, <1>2, <1>3, <1>12, <1>14 DEF toFetch, hits, start, add, final, promises

LEMMA GetChecksumMap_Inv ==
  ASSUME CacheInv, NEW r \in Requests, NEW k \in 1..checkpoint, NEW buckets \in SUBSET Buckets, GetChecksumMap(r, k, buckets)
  PROVE  CacheInv'
<1> DEFINE hits == {b \in buckets : Fetched(<<b, k>>)}
           toFetch == {b \in buckets \ hits : ~InFlight(<<b, k>>)}
           promises == [b \in buckets \ hits |-> IF b \in toFetch THEN r ELSE cache[<<b, k>>]]
           n == [step |-> IF toFetch = {} THEN "settle" ELSE "fetch",
                 checkpoint |-> k,
                 toFetch |-> toFetch,
                 start |-> [b \in toFetch |-> Start(b, k)],
                 add |-> [b \in toFetch |-> IF Start(b, k) = 0 THEN Zero ELSE cache[<<b, Start(b, k)>>]],
                 results |-> << >>,
                 promises |-> promises,
                 final |-> [b \in hits |-> cache[<<b, k>>]]]
<1>1. /\ requests[r].step = "idle" /\ requests' = [requests EXCEPT ![r] = n]
      /\ n \in RequestState /\ RequestOK(n, r, op_id)
      /\ cache' = [key \in Keys |-> IF key[1] \in toFetch /\ key[2] = k THEN r ELSE cache[key]]
      /\ UNCHANGED <<compactVars, bucketCheckpoints>>
      /\ k \in Checkpoints /\ k <= op_id /\ hits \subseteq Buckets /\ toFetch \subseteq Buckets
  BY GetIs
<1>2. /\ n.checkpoint = k /\ n.toFetch = toFetch /\ n.promises = promises /\ (toFetch # {} => n.step = "fetch")
      /\ DOMAIN promises = buckets \ hits
      /\ \A b \in buckets \ hits : promises[b] = IF b \in toFetch THEN r ELSE cache[<<b, k>>]
  OBVIOUS
<1>3. \A b \in buckets \ hits : b \in toFetch \/ cache[<<b, k>>] \in Requests
  BY DEF InFlight
<1> HIDE DEF n, hits, toFetch, promises
<1>4. /\ requests' \in [Requests -> RequestState] /\ requests'[r] = n
      /\ \A d \in Requests : d # r => requests'[d] = requests[d]
      /\ \A d \in Requests : RequestOK(requests'[d], d, op_id)
  BY <1>1, OneRequest
<1>5. \A b \in toFetch : Fetching(requests'[r], b, k)
  BY <1>2, <1>4 DEF Fetching
<1>6. \A d \in Requests : \A b, j : Fetching(requests[d], b, j) => Fetching(requests'[d], b, j)
  <2> SUFFICES ASSUME NEW d \in Requests, NEW b, NEW j, Fetching(requests[d], b, j) PROVE Fetching(requests'[d], b, j)
    OBVIOUS
  <2>1. d # r
    BY <1>1 DEF Fetching
  <2>2. requests'[d] = requests[d]
    BY <1>4, <2>1
  <2> QED BY <2>2
<1>7. \A b \in Buckets, j \in Checkpoints : cache[<<b, j>>] \in Requests => Fetching(requests[cache[<<b, j>>]], b, j)
  BY DEF CacheInv, InFlight
<1>8. ASSUME NEW b \in Buckets, NEW j \in Checkpoints
      PROVE  cache'[<<b, j>>] = IF b \in toFetch /\ j = k THEN r ELSE cache[<<b, j>>]
  BY <1>1, CacheAt
<1>9. cache' \in [Keys -> BucketChecksum \cup Requests \cup {None}]
  <2>1. cache \in [Keys -> BucketChecksum \cup Requests \cup {None}]
    BY DEF CacheInv
  <2> QED BY <1>1, <2>1
<1>10. \A b \in Buckets, j \in Checkpoints : cache'[<<b, j>>] # None => j <= op_id
  BY <1>1, <1>8 DEF CacheInv
<1>11. \A b \in Buckets, j \in Checkpoints : cache'[<<b, j>>] \in Requests => Fetching(requests'[cache'[<<b, j>>]], b, j)
  BY <1>5, <1>6, <1>7, <1>8
<1>12. ASSUME NEW d \in Requests, NEW b \in DOMAIN requests'[d].promises
       PROVE  Fetching(requests'[requests'[d].promises[b]], b, requests'[d].checkpoint)
  <2>1. CASE d = r
    <3>1. b \in buckets \ hits /\ requests'[d].checkpoint = k /\ requests'[d].promises[b] = promises[b]
      BY <1>2, <1>4, <2>1
    <3>2. CASE b \in toFetch
      BY <1>2, <1>5, <3>1, <3>2
    <3>3. CASE b \notin toFetch
      <4>1. promises[b] = cache[<<b, k>>] /\ cache[<<b, k>>] \in Requests /\ b \in Buckets
        BY <1>2, <1>3, <3>1, <3>3
      <4> QED BY <1>1, <1>6, <1>7, <3>1, <4>1
    <3> QED BY <3>2, <3>3
  <2>2. CASE d # r
    <3>1. requests'[d] = requests[d]
      BY <1>4, <2>2
    <3>2. requests[d].promises[b] \in Requests /\ Fetching(requests[requests[d].promises[b]], b, requests[d].checkpoint)
      BY <3>1, RequestAt
    <3> QED BY <1>6, <3>1, <3>2
  <2> QED BY <2>1, <2>2
<1>13. bucketCheckpoints \in [Buckets -> SUBSET Checkpoints]
  BY DEF CacheInv
<1> QED BY <1>1, <1>4, <1>9, <1>10, <1>11, <1>12, <1>13, CacheKept

(***************************************************************************)
(* Promises of request r are settled: those for the buckets B.             *)
(***************************************************************************)
SettledPromises(q, r, B) == {b \in B : WaitsFor(q, r, b)}

\* What becomes of the state of a request, except for its step and what it fetches.
SettledRequest(n, q, r, B) ==
  /\ n.checkpoint = q.checkpoint /\ n.results = q.results /\ n.start = q.start /\ n.add = q.add
  /\ DOMAIN n.promises = DOMAIN q.promises \ SettledPromises(q, r, B)
  /\ \A b \in DOMAIN n.promises : n.promises[b] = q.promises[b]

SettledEntry(v, b, k, r, B) ==
  /\ v # None => k <= op_id
  /\ v \in Requests => v = cache[<<b, k>>] /\ ~(v = r /\ b \in B)

LEMMA PromisesSettled ==
  ASSUME CacheInv, UNCHANGED compactVars, NEW r \in Requests, NEW B \in SUBSET requests[r].toFetch,
         requests[r].step \in {"fetch", "resolve"},
         cache' \in [Keys -> BucketChecksum \cup Requests \cup {None}],
         bucketCheckpoints' \in [Buckets -> SUBSET Checkpoints],
         requests' \in [Requests -> RequestState],
         \A b \in Buckets, k \in Checkpoints : SettledEntry(cache'[<<b, k>>], b, k, r, B),
         \A q \in Requests : SettledRequest(requests'[q], requests[q], r, B),
         \A q \in Requests : q # r => requests'[q].step = requests[q].step /\ requests'[q].toFetch = requests[q].toFetch,
         requests'[r].toFetch = requests[r].toFetch \ B,
         requests'[r].step = IF requests'[r].toFetch = {} THEN "settle" ELSE requests[r].step,
         \A q \in Requests : RequestOK(requests'[q], q, op_id)
  PROVE  CacheInv'
<1>1. ASSUME NEW q \in Requests, NEW b, NEW k, Fetching(requests[q], b, k), ~(q = r /\ b \in B)
      PROVE  Fetching(requests'[q], b, k)
  <2>1. requests'[q].checkpoint = k /\ requests[q].step \in {"fetch", "resolve"} /\ b \in requests[q].toFetch
    BY <1>1 DEF Fetching, SettledRequest
  <2>2. CASE q = r
    <3>1. b \in requests'[r].toFetch
      BY <1>1, <2>1, <2>2
    <3> QED BY <2>1, <2>2, <3>1 DEF Fetching
  <2>3. CASE q # r
    BY <2>1, <2>3 DEF Fetching
  <2> QED BY <2>2, <2>3
<1>2. ASSUME NEW b \in Buckets, NEW k \in Checkpoints, cache'[<<b, k>>] \in Requests
      PROVE  Fetching(requests'[cache'[<<b, k>>]], b, k)
  <2>1. cache'[<<b, k>>] = cache[<<b, k>>] /\ ~(cache[<<b, k>>] = r /\ b \in B)
    BY <1>2 DEF SettledEntry
  <2>2. Fetching(requests[cache[<<b, k>>]], b, k)
    BY <1>2, <2>1 DEF CacheInv, InFlight
  <2> QED BY <1>1, <1>2, <2>1, <2>2
<1>3. ASSUME NEW q \in Requests, NEW b \in DOMAIN requests'[q].promises
      PROVE  Fetching(requests'[requests'[q].promises[b]], b, requests'[q].checkpoint)
  <2>1. /\ b \in DOMAIN requests[q].promises /\ ~(b \in B /\ WaitsFor(requests[q], r, b))
        /\ requests'[q].promises[b] = requests[q].promises[b] /\ requests'[q].checkpoint = requests[q].checkpoint
    BY <1>3 DEF SettledPromises, SettledRequest
  <2> DEFINE p == requests[q].promises[b]
  <2>2. p \in Requests /\ Fetching(requests[p], b, requests[q].checkpoint)
    BY <2>1, RequestAt
  <2>3. ~(p = r /\ b \in B)
    BY <2>1, <2>2 DEF WaitsFor, Fetching
  <2> HIDE DEF p
  <2>4. Fetching(requests'[p], b, requests[q].checkpoint)
    BY <1>1, <2>2, <2>3
  <2> QED BY <2>1, <2>4 DEF p
<1>4. \A b \in Buckets, k \in Checkpoints : cache'[<<b, k>>] # None => k <= op_id
  BY DEF SettledEntry
<1> QED BY <1>2, <1>3, <1>4, CacheKept

\* A request that has not asked for the bucket stays as it is.
LEMMA OthersOK ==
  ASSUME NEW q, NEW n, NEW d, NEW r, d # r, NEW B, RequestOK(q, d, op_id),
         SettledRequest(n, q, r, B), n.step = q.step, n.toFetch = q.toFetch,
         \A b \in DOMAIN n.final : b \in DOMAIN q.final \/ b \in SettledPromises(q, r, B)
  PROVE  RequestOK(n, d, op_id)
<1>1. \A b \in SettledPromises(q, r, B) : b \in DOMAIN q.promises /\ q.promises[b] = r
  BY DEF SettledPromises, WaitsFor
<1>2. \A b \in q.toFetch : b \in DOMAIN n.promises /\ n.promises[b] = d
  BY <1>1 DEF RequestOK, SettledRequest
<1>3. q.step = "idle" => DOMAIN n.promises = {} /\ DOMAIN n.final = {}
  BY <1>1 DEF RequestOK, SettledRequest
<1> QED BY <1>2, <1>3 DEF RequestOK, SettledRequest

\* What was answered before, and what is answered now.
SettledFinal(n, q, r, b) ==
  \A d \in DOMAIN n.final :
    \/ d \in SettledPromises(q, r, {b}) /\ n.final[d] = requests[r].results[b]
    \/ d \in DOMAIN q.final /\ n.final[d] = q.final[d]

LEMMA SettledIs ==
  ASSUME CacheInv, NEW r \in Requests, NEW b \in Buckets, requests[r].results[b] \in BucketChecksum, NEW q \in RequestState,
         NEW s, s = Settled(q, r, b)
  PROVE  /\ s \in RequestState /\ s.step = q.step /\ s.toFetch = q.toFetch
         /\ SettledRequest(s, q, r, {b}) /\ SettledFinal(s, q, r, b)
<1> DEFINE v == requests[r].results[b]
           promises == Restrict(q.promises, DOMAIN q.promises \ {b})
           final == [x \in DOMAIN q.final \cup {b} |-> IF x = b THEN v ELSE q.final[x]]
           n == [q EXCEPT !.promises = promises, !.final = final]
<1>1. SettledPromises(q, r, {b}) = IF WaitsFor(q, r, b) THEN {b} ELSE {}
  BY DEF SettledPromises
<1>2. CASE ~WaitsFor(q, r, b)
  BY <1>1, <1>2 DEF Settled, SettledRequest, SettledFinal
<1>3. CASE WaitsFor(q, r, b)
  <2>1. Settled(q, r, b) = n
    BY <1>3 DEF Settled
  <2>2. q.promises \in Partial(Requests) /\ q.final \in Partial(BucketChecksum)
    BY RequestFields
  <2>3. /\ promises \in Partial(Requests) /\ DOMAIN promises = DOMAIN q.promises \ {b}
        /\ \A d \in DOMAIN q.promises \ {b} : promises[d] = q.promises[d]
    BY <2>2, PartialAt
  <2>4. /\ final \in Partial(BucketChecksum) /\ DOMAIN final = DOMAIN q.final \cup {b} /\ final[b] = v
        /\ \A d \in DOMAIN q.final : d # b => final[d] = q.final[d]
    <3> DEFINE f == q.final
    <3>1. f \in Partial(BucketChecksum) /\ v \in BucketChecksum
          /\ final = [x \in DOMAIN f \cup {b} |-> IF x = b THEN v ELSE f[x]]
      BY <2>2
    <3> HIDE DEF f, v, final
    <3>2. /\ final \in Partial(BucketChecksum) /\ DOMAIN final = DOMAIN f \cup {b} /\ final[b] = v
          /\ \A d \in DOMAIN f : d # b => final[d] = f[d]
      BY <3>1, PartialAdd
    <3> QED BY <3>2 DEF f
  <2> HIDE DEF promises, final
  <2>5. n \in RequestState
    BY <2>3, <2>4 DEF RequestState
  <2>6. /\ n.step = q.step /\ n.checkpoint = q.checkpoint /\ n.toFetch = q.toFetch
        /\ n.start = q.start /\ n.add = q.add /\ n.results = q.results
        /\ n.promises = promises /\ n.final = final
    BY DEF RequestState
  <2> HIDE DEF n, v
  <2>7. SettledFinal(n, q, r, b)
    BY <1>1, <1>3, <2>4, <2>6 DEF SettledFinal, v
  <2>8. SettledRequest(n, q, r, {b})
    BY <1>1, <1>3, <2>3, <2>6 DEF SettledRequest
  <2> QED BY <2>1, <2>5, <2>6, <2>7, <2>8
<1> QED BY <1>2, <1>3

LEMMA SettledSame ==
  ASSUME NEW n, NEW s, NEW q, NEW r, NEW b, SettledRequest(s, q, r, {b}), SettledFinal(s, q, r, b),
         n.checkpoint = s.checkpoint, n.promises = s.promises, n.final = s.final, n.results = s.results,
         n.start = s.start, n.add = s.add
  PROVE  SettledRequest(n, q, r, {b}) /\ SettledFinal(n, q, r, b)
BY DEF SettledRequest, SettledFinal

\* What Resolve does, for the checkpoint k of the request and its result v.
Resolves(r, b, k, v) ==
  /\ requests[r].step = "resolve" /\ b \in requests[r].toFetch /\ v \in BucketChecksum
  /\ k \in Checkpoints /\ k <= op_id
  /\ bucketCheckpoints' = [bucketCheckpoints EXCEPT ![b] = @ \cup {k}]
  /\ cache' = [cache EXCEPT ![<<b, k>>] = IF cache[<<b, k>>] = r THEN v ELSE cache[<<b, k>>]]
  /\ UNCHANGED compactVars
  /\ requests' \in [Requests -> RequestState]
  /\ \A q \in Requests : SettledRequest(requests'[q], requests[q], r, {b}) /\ SettledFinal(requests'[q], requests[q], r, b)
  /\ \A q \in Requests : q # r => requests'[q].step = requests[q].step /\ requests'[q].toFetch = requests[q].toFetch
  /\ requests'[r].toFetch = requests[r].toFetch \ {b}
  /\ requests'[r].step = IF requests'[r].toFetch = {} THEN "settle" ELSE requests[r].step

LEMMA ResolveIs ==
  ASSUME CacheInv, NEW r \in Requests, NEW b \in Buckets, Resolve(r, b)
  PROVE  Resolves(r, b, requests[r].checkpoint, requests[r].results[b])
<1> DEFINE k == requests[r].checkpoint
           v == requests[r].results[b]
           New(s) == [s EXCEPT !.toFetch = @ \ {b}, !.step = IF s.toFetch = {b} THEN "settle" ELSE @]
           S(q) == Settled(requests[q], r, b)
<1>1. /\ requests[r].step = "resolve" /\ b \in requests[r].toFetch
      /\ bucketCheckpoints' = [bucketCheckpoints EXCEPT ![b] = @ \cup {k}]
      /\ cache' = [cache EXCEPT ![<<b, k>>] = IF cache[<<b, k>>] = r THEN v ELSE cache[<<b, k>>]]
      /\ UNCHANGED compactVars
  BY DEF Resolve
<1>2. requests' = [q \in Requests |-> IF q # r THEN S(q) ELSE New(S(q))]
  BY DEF Resolve
<1>3. requests[r] \in RequestState /\ RequestOK(requests[r], r, op_id)
  BY RequestAt
<1>4. b \in DOMAIN requests[r].results /\ requests[r].results \in Partial(BucketChecksum)
  BY <1>1, <1>3, RequestFields DEF RequestOK
<1>5. v \in BucketChecksum
  BY <1>4, PartialAt
<1>6. k \in Checkpoints /\ k <= op_id
  <2>1. k \in 1..op_id /\ op_id \in Nat /\ op_id <= MaxOp
    BY <1>1, <1>3 DEF RequestOK, CacheInv, CompactInv, StorageOK
  <2> QED BY <2>1, CompactBoundsAssumption DEF Checkpoints
<1>7. ASSUME NEW q \in Requests
      PROVE  /\ S(q) \in RequestState /\ S(q).step = requests[q].step /\ S(q).toFetch = requests[q].toFetch
             /\ SettledRequest(S(q), requests[q], r, {b}) /\ SettledFinal(S(q), requests[q], r, b)
  BY <1>5, RequestAt, SettledIs
<1>8. ASSUME NEW s \in RequestState
      PROVE  /\ New(s) \in RequestState /\ New(s).toFetch = s.toFetch \ {b}
             /\ New(s).step = (IF s.toFetch = {b} THEN "settle" ELSE s.step)
             /\ New(s).checkpoint = s.checkpoint /\ New(s).promises = s.promises /\ New(s).final = s.final
             /\ New(s).results = s.results /\ New(s).start = s.start /\ New(s).add = s.add
  BY DEF RequestState
<1> HIDE DEF New, S
<1>9. \A q \in Requests : requests'[q] = IF q # r THEN S(q) ELSE New(S(q))
  BY <1>2
<1>10. requests'[r].toFetch = requests[r].toFetch \ {b}
       /\ requests'[r].step = IF requests'[r].toFetch = {} THEN "settle" ELSE requests[r].step
  <2>1. requests'[r] = New(S(r)) /\ S(r) \in RequestState /\ S(r).step = requests[r].step /\ S(r).toFetch = requests[r].toFetch
    BY <1>7, <1>9
  <2>2. New(S(r)).toFetch = requests[r].toFetch \ {b}
        /\ New(S(r)).step = (IF requests[r].toFetch = {b} THEN "settle" ELSE requests[r].step)
    BY <1>8, <2>1
  <2>3. requests[r].toFetch \ {b} = {} <=> requests[r].toFetch = {b}
    BY <1>1
  <2> QED BY <2>1, <2>2, <2>3
<1>11. ASSUME NEW q \in Requests
       PROVE  /\ SettledRequest(requests'[q], requests[q], r, {b}) /\ SettledFinal(requests'[q], requests[q], r, b)
              /\ q # r => requests'[q].step = requests[q].step /\ requests'[q].toFetch = requests[q].toFetch
              /\ requests'[q] \in RequestState
  <2>1. CASE q # r
    <3>1. requests'[q] = S(q)
      BY <1>9, <2>1
    <3> QED BY <1>7, <3>1
  <2>2. CASE q = r
    <3>1. requests'[q] = New(S(q)) /\ S(q) \in RequestState
      BY <1>7, <1>9, <2>2
    <3>2. SettledRequest(New(S(q)), requests[q], r, {b}) /\ SettledFinal(New(S(q)), requests[q], r, b)
      BY <1>7, <1>8, <3>1, SettledSame
    <3> QED BY <1>8, <2>2, <3>1, <3>2
  <2> QED BY <2>1, <2>2
<1>12. requests' \in [Requests -> RequestState]
  BY <1>2, <1>11
<1> QED BY <1>1, <1>5, <1>6, <1>10, <1>11, <1>12 DEF Resolves

LEMMA Resolve_Inv ==
  ASSUME CacheInv, NEW r \in Requests, NEW b \in Buckets, Resolve(r, b)
  PROVE  CacheInv'
<1>0. SUFFICES ASSUME NEW k, NEW v, Resolves(r, b, k, v), k = requests[r].checkpoint
               PROVE  CacheInv'
  BY ResolveIs
<1> DEFINE w == IF cache[<<b, k>>] = r THEN v ELSE cache[<<b, k>>]
<1>1. /\ requests[r].step = "resolve" /\ b \in requests[r].toFetch /\ v \in BucketChecksum
      /\ k \in Checkpoints /\ k <= op_id
      /\ bucketCheckpoints' = [bucketCheckpoints EXCEPT ![b] = @ \cup {k}]
      /\ UNCHANGED compactVars
      /\ requests' \in [Requests -> RequestState]
      /\ requests'[r].toFetch = requests[r].toFetch \ {b}
      /\ requests'[r].step = IF requests'[r].toFetch = {} THEN "settle" ELSE requests[r].step
  BY <1>0 DEF Resolves
<1>2. ASSUME NEW q \in Requests
      PROVE  /\ SettledRequest(requests'[q], requests[q], r, {b}) /\ SettledFinal(requests'[q], requests[q], r, b)
             /\ q # r => requests'[q].step = requests[q].step /\ requests'[q].toFetch = requests[q].toFetch
  BY <1>0 DEF Resolves
<1>3. cache[<<b, k>>] \in BucketChecksum \cup Requests \cup {None} /\ w \in BucketChecksum \cup Requests \cup {None}
  BY <1>1, CacheAt
<1>31. cache' = [cache EXCEPT ![<<b, k>>] = w]
  BY <1>0 DEF Resolves
<1> HIDE DEF w
<1>4. /\ cache' \in [Keys -> BucketChecksum \cup Requests \cup {None}]
      /\ cache'[<<b, k>>] = w
      /\ \A d \in Buckets, j \in Checkpoints : d # b \/ j # k => cache'[<<d, j>>] = cache[<<d, j>>]
  BY <1>1, <1>3, <1>31, CacheEntry
<1>5. bucketCheckpoints' \in [Buckets -> SUBSET Checkpoints]
  BY <1>1 DEF CacheInv
<1>6. ASSUME NEW d \in Buckets, NEW j \in Checkpoints PROVE SettledEntry(cache'[<<d, j>>], d, j, r, {b})
  <2>1. /\ cache[<<d, j>>] # None => j <= op_id
        /\ cache[<<d, j>>] \in Requests => Fetching(requests[cache[<<d, j>>]], d, j)
    BY DEF CacheInv, InFlight
  <2>2. CASE d = b /\ j = k
    <3>1. w = (IF cache[<<b, k>>] = r THEN v ELSE cache[<<b, k>>]) /\ v \notin Requests
      BY <1>1, EntriesAssumption DEF w
    <3> QED BY <1>1, <1>4, <2>2, <3>1 DEF SettledEntry
  <2>3. CASE d # b \/ j # k
    <3>1. cache'[<<d, j>>] = cache[<<d, j>>]
      BY <1>4, <2>3
    <3>2. ~(cache[<<d, j>>] = r /\ d = b)
      BY <1>0, <2>1, <2>3 DEF Fetching
    <3> QED BY <2>1, <3>1, <3>2 DEF SettledEntry
  <2> QED BY <2>2, <2>3
<1>7. ASSUME NEW q \in Requests PROVE RequestOK(requests'[q], q, op_id)
  <2>1. RequestOK(requests[q], q, op_id)
    BY RequestAt
  <2>2. CASE q # r
    <3> DEFINE s == requests[q]
               n == requests'[q]
    <3>1. /\ n.step = s.step /\ n.toFetch = s.toFetch /\ SettledRequest(n, s, r, {b})
          /\ \A d \in DOMAIN n.final : d \in DOMAIN s.final \/ d \in SettledPromises(s, r, {b})
      BY <1>2, <2>2 DEF SettledFinal
    <3>2. RequestOK(s, q, op_id)
      BY <2>1
    <3> HIDE DEF s, n
    <3>3. RequestOK(n, q, op_id)
      BY <2>2, <3>1, <3>2, OthersOK
    <3> QED BY <3>3 DEF n
  <2>3. CASE q = r
    <3> DEFINE n == requests'[r]
    <3>1. n.step \in {"settle", "resolve"} /\ (n.step = "settle" <=> n.toFetch = {}) /\ n.toFetch = requests[r].toFetch \ {b}
      BY <1>1
    <3>2. n.checkpoint = requests[r].checkpoint /\ n.results = requests[r].results
      BY <1>2 DEF SettledRequest
    <3>3. \A d \in n.toFetch : d \in DOMAIN n.promises /\ n.promises[d] = r
      BY <1>2, <2>1, <2>3, <3>1 DEF RequestOK, SettledPromises, SettledRequest
    <3>4. n.toFetch \subseteq DOMAIN n.results /\ n.checkpoint \in 1..op_id
      BY <1>1, <2>1, <2>3, <3>1, <3>2 DEF RequestOK
    <3> HIDE DEF n
    <3>5. RequestOK(n, r, op_id)
      BY <3>1, <3>3, <3>4 DEF RequestOK
    <3> QED BY <2>3, <3>5 DEF n
  <2> QED BY <2>2, <2>3
<1>8. {b} \in SUBSET requests[r].toFetch /\ requests[r].step \in {"fetch", "resolve"}
  BY <1>1
<1> QED BY <1>1, <1>2, <1>4, <1>5, <1>6, <1>7, <1>8, PromisesSettled

LEMMA FailsIs ==
  ASSUME CacheInv, NEW r \in Requests, FetchFails(r)
  PROVE  LET B == requests[r].toFetch
         IN  /\ requests[r].step = "fetch"
             /\ cache' = [key \in Keys |-> IF cache[key] = r THEN None ELSE cache[key]]
             /\ UNCHANGED <<compactVars, bucketCheckpoints>>
             /\ requests' \in [Requests -> RequestState]
             /\ \A q \in Requests : SettledRequest(requests'[q], requests[q], r, B) /\ requests'[q].final = requests[q].final
             /\ \A q \in Requests : q # r => requests'[q].step = requests[q].step /\ requests'[q].toFetch = requests[q].toFetch
             /\ requests'[r].toFetch = {} /\ requests'[r].step = "settle"
<1> DEFINE B == requests[r].toFetch
           P(q) == Restrict(requests[q].promises, DOMAIN requests[q].promises \ SettledPromises(requests[q], r, B))
           s(q) == [requests[q] EXCEPT !.promises = P(q)]
           n(q) == IF q = r THEN [s(q) EXCEPT !.step = "settle", !.toFetch = {}] ELSE s(q)
<1>1. /\ requests[r].step = "fetch"
      /\ cache' = [key \in Keys |-> IF cache[key] = r THEN None ELSE cache[key]]
      /\ UNCHANGED <<compactVars, bucketCheckpoints>>
      /\ requests' = [q \in Requests |-> n(q)]
  BY DEF FetchFails, SettledPromises
<1>2. ASSUME NEW q \in Requests
      PROVE  /\ n(q) \in RequestState
             /\ SettledRequest(n(q), requests[q], r, B) /\ n(q).final = requests[q].final
             /\ q # r => n(q).step = requests[q].step /\ n(q).toFetch = requests[q].toFetch
             /\ q = r => n(q).step = "settle" /\ n(q).toFetch = {}
  <2>1. requests[q] \in RequestState /\ requests[q].promises \in Partial(Requests)
    BY RequestAt, RequestFields
  <2>2. /\ P(q) \in Partial(Requests)
        /\ DOMAIN P(q) = DOMAIN requests[q].promises \ SettledPromises(requests[q], r, B)
        /\ \A d \in DOMAIN P(q) : P(q)[d] = requests[q].promises[d]
    <3> DEFINE f == requests[q].promises
               S == DOMAIN f \ SettledPromises(requests[q], r, B)
    <3>1. f \in Partial(Requests) /\ S \in SUBSET (DOMAIN f) /\ P(q) = Restrict(f, S)
      BY <2>1
    <3> HIDE DEF f, S, P
    <3>2. P(q) \in Partial(Requests) /\ DOMAIN P(q) = S /\ \A d \in S : P(q)[d] = f[d]
      BY <3>1, PartialAt
    <3> QED BY <3>2 DEF f, S
  <2> HIDE DEF P
  <2>3. /\ s(q) \in RequestState /\ s(q).promises = P(q)
        /\ s(q).checkpoint = requests[q].checkpoint /\ s(q).results = requests[q].results
        /\ s(q).start = requests[q].start /\ s(q).add = requests[q].add /\ s(q).final = requests[q].final
        /\ s(q).step = requests[q].step /\ s(q).toFetch = requests[q].toFetch
    BY <2>1, <2>2 DEF RequestState
  <2> HIDE DEF s
  <2>4. CASE q # r
    BY <2>2, <2>3, <2>4 DEF SettledRequest
  <2>5. CASE q = r
    <3> DEFINE t == s(q)
               m == [t EXCEPT !.step = "settle", !.toFetch = {}]
    <3>1. t \in RequestState /\ n(q) = m
      BY <2>3, <2>5
    <3>2. m \in RequestState /\ m.promises = t.promises /\ m.checkpoint = t.checkpoint /\ m.results = t.results
          /\ m.start = t.start /\ m.add = t.add /\ m.final = t.final /\ m.step = "settle" /\ m.toFetch = {}
      <4> HIDE DEF t
      <4> QED BY <3>1 DEF RequestState
    <3> HIDE DEF m, n
    <3> QED BY <2>2, <2>3, <2>5, <3>1, <3>2 DEF SettledRequest
  <2> QED BY <2>4, <2>5
<1> HIDE DEF n
<1>3. requests' \in [Requests -> RequestState] /\ \A q \in Requests : requests'[q] = n(q)
  BY <1>1, <1>2
<1> QED BY <1>1, <1>2, <1>3

LEMMA FetchFails_Inv ==
  ASSUME CacheInv, NEW r \in Requests, FetchFails(r)
  PROVE  CacheInv'
<1> DEFINE B == requests[r].toFetch
<1>1. /\ requests[r].step = "fetch"
      /\ cache' = [key \in Keys |-> IF cache[key] = r THEN None ELSE cache[key]]
      /\ UNCHANGED compactVars /\ bucketCheckpoints' = bucketCheckpoints
      /\ requests' \in [Requests -> RequestState]
      /\ requests'[r].toFetch = {} /\ requests'[r].step = "settle"
  BY FailsIs
<1>2. ASSUME NEW q \in Requests
      PROVE  /\ SettledRequest(requests'[q], requests[q], r, B) /\ requests'[q].final = requests[q].final
             /\ q # r => requests'[q].step = requests[q].step /\ requests'[q].toFetch = requests[q].toFetch
  BY FailsIs
<1>3. cache' \in [Keys -> BucketChecksum \cup Requests \cup {None}]
  BY <1>1 DEF CacheInv
<1>4. ASSUME NEW d \in Buckets, NEW j \in Checkpoints PROVE SettledEntry(cache'[<<d, j>>], d, j, r, B)
  <2>1. cache'[<<d, j>>] = IF cache[<<d, j>>] = r THEN None ELSE cache[<<d, j>>]
    BY <1>1, CacheAt
  <2>2. cache[<<d, j>>] # None => j <= op_id
    BY DEF CacheInv
  <2> QED BY <2>1, <2>2, EntriesAssumption DEF SettledEntry
<1>5. ASSUME NEW q \in Requests PROVE RequestOK(requests'[q], q, op_id)
  <2>1. RequestOK(requests[q], q, op_id)
    BY RequestAt
  <2>2. CASE q # r
    <3> DEFINE s == requests[q]
               n == requests'[q]
    <3>1. /\ n.step = s.step /\ n.toFetch = s.toFetch /\ SettledRequest(n, s, r, B)
          /\ \A d \in DOMAIN n.final : d \in DOMAIN s.final \/ d \in SettledPromises(s, r, B)
      BY <1>2, <2>2
    <3>2. RequestOK(s, q, op_id)
      BY <2>1
    <3> HIDE DEF s, n, B
    <3>3. RequestOK(n, q, op_id)
      BY <2>2, <3>1, <3>2, OthersOK
    <3> QED BY <3>3 DEF n
  <2>3. CASE q = r
    <3>1. requests'[r].checkpoint \in 1..op_id
      BY <1>1, <1>2, <2>1, <2>3 DEF RequestOK, SettledRequest
    <3> QED BY <1>1, <2>3, <3>1 DEF RequestOK
  <2> QED BY <2>2, <2>3
<1>6. B \in SUBSET requests[r].toFetch /\ requests[r].step \in {"fetch", "resolve"} /\ requests'[r].toFetch = requests[r].toFetch \ B
      /\ requests'[r].step = IF requests'[r].toFetch = {} THEN "settle" ELSE requests[r].step
  BY <1>1
<1>7. bucketCheckpoints' \in [Buckets -> SUBSET Checkpoints]
  BY <1>1 DEF CacheInv
<1> HIDE DEF B
<1> QED BY <1>1, <1>2, <1>3, <1>4, <1>5, <1>6, <1>7, PromisesSettled

-----------------------------------------------------------------------------
LEMMA CacheNext_Inv ==
  ASSUME CacheInv, CacheNext \/ UNCHANGED allVars
  PROVE  CacheInv'
<1>1. CASE UNCHANGED allVars
  <2>1. UNCHANGED compactVars /\ UNCHANGED cacheVars
    BY <1>1 DEF allVars
  <2> QED BY <2>1, CompactStep_Cache
<1>2. CASE CompactNext /\ UNCHANGED cacheVars
  BY <1>2, CompactStep_Cache
<1>3. ASSUME NEW r \in Requests, NEW k \in 1..checkpoint, NEW buckets \in RequestSets, GetChecksumMap(r, k, buckets)
      PROVE  CacheInv'
  BY <1>3, RequestSetsAssumption, GetChecksumMap_Inv
<1>4. ASSUME NEW r \in Requests, FetchChecksums(r) \/ FetchFails(r) \/ (\E b \in Buckets : Resolve(r, b)) \/ Return(r)
      PROVE  CacheInv'
  BY <1>4, FetchChecksums_Inv, FetchFails_Inv, Resolve_Inv, Return_Inv
<1>5. CASE Clear \/ \E b \in Buckets, k \in Checkpoints : Evict(b, k) \/ Expire(b, k)
  BY <1>5, Loses_Inv
<1> QED BY <1>1, <1>2, <1>3, <1>4, <1>5 DEF CacheNext

(* The types, and who waits for whom. *)
LEMMA CacheInvariant == CacheSpec => []CacheInv
<1>1. CacheInit => CacheInv
  BY CacheInit_Inv
<1>2. CacheInv /\ [CacheNext]_allVars => CacheInv'
  BY CacheNext_Inv
<1> QED BY <1>1, <1>2, PTL DEF CacheSpec

(***************************************************************************)
(* What is cached or answered is a checksum, and a request asks for what   *)
(* its call waits for.                                                     *)
(***************************************************************************)
THEOREM CacheTypes == CacheSpec => []CacheTypeOK
<1>1. CacheInv => CacheTypeOK
  <2> SUFFICES ASSUME CacheInv PROVE CacheTypeOK
    OBVIOUS
  <2>1. /\ cache \in [Keys -> BucketChecksum \cup Requests \cup {None}]
        /\ \A b \in Buckets : bucketCheckpoints[b] \subseteq Checkpoints
    BY DEF CacheInv
  <2>2. ASSUME NEW r \in Requests
        PROVE  /\ requests[r].step \in {"idle", "fetch", "resolve", "settle"}
               /\ requests[r].toFetch \subseteq DOMAIN requests[r].promises
               /\ \A b \in DOMAIN requests[r].final : requests[r].final[b] \in BucketChecksum
    BY RequestAt, RequestFields, PartialAt DEF RequestOK
  <2> QED BY <2>1, <2>2 DEF CacheTypeOK
<1> QED BY <1>1, CacheInvariant, PTL

(***************************************************************************)
(* No call waits for a promise that nobody settles, whatever is evicted,   *)
(* expires, is cleared or fails, for any number of calls.                  *)
(***************************************************************************)
THEOREM WaitersAreTold == CacheSpec => []NoLostWaiter
<1>1. CacheInv => NoLostWaiter
  BY DEF CacheInv, NoLostWaiter, Fetching
<1> QED BY <1>1, CacheInvariant, PTL

-----------------------------------------------------------------------------
(***************************************************************************)
(* Checksum c of the operations D of a bucket up to k, when L was written. *)
(***************************************************************************)
Matches(c, D, L, k) ==
  \/ \E o \in D : o.op = "CLEAR" /\ o.op_id > k
  \/ c.checksum = SumChecksums(Between(L, 0, k)) /\ c.count >= Cardinality(Between(D, 0, k))

LEMMA MatchesIs == \A c, b, k : IsChecksumOf(c, b, k) <=> Matches(c, bucket_data[b], log[b], k)
BY DEF IsChecksumOf, IsOvertaken, Matches

(***************************************************************************)
(* The checksum that the operations after a are added to is that of all of *)
(* them; if a CLEAR is among these, it is a checksum of the whole itself.  *)
(***************************************************************************)
LEMMA AddedMatches ==
  ASSUME NEW D, NEW L, IsLogged(D, L), LogOK(D, L), NEW a \in Nat, NEW k \in Nat, a < k,
         NEW c \in BucketChecksum, Matches(c, D, L, a)
  PROVE  Matches(AddBucketChecksums(c, PartialChecksum(Between(D, a, k))), D, L, k)
<1> DEFINE S == Between(D, a, k)
           p == PartialChecksum(S)
           sum == AddBucketChecksums(c, p)
<1>1. p.checksum = SumChecksums(S) /\ p.count = Cardinality(S) /\ (p.full <=> \E o \in S : o.op = "CLEAR")
  BY DEF PartialChecksum
<1>2. \A o \in D : o.op_id \in Nat /\ o.op_id > 0
  BY LoggedFields
<1>3. IsOps(D) /\ IsOps(L) /\ S \subseteq D
  BY DEF IsLogged, Between
<1> HIDE DEF p
<1>4. CASE \E o \in D : o.op = "CLEAR" /\ o.op_id > k
  BY <1>4 DEF Matches
<1>5. CASE /\ \A o \in D : o.op = "CLEAR" => o.op_id <= k
           /\ \E o \in D : o.op = "CLEAR" /\ o.op_id > a
  <2>1. PICK o \in D : o.op = "CLEAR" /\ o.op_id > a /\ o.op_id <= k
    BY <1>5
  <2>2. \A q \in D : o.op_id <= q.op_id
    BY <2>1 DEF LogOK, ClearsStart
  <2>3. S = {q \in D : o.op_id <= q.op_id /\ q.op_id <= k} /\ S = Between(D, 0, k) /\ o \in S
    BY <1>2, <2>1, <2>2 DEF Between
  <2>4. SumChecksums({q \in D : o.op_id <= q.op_id /\ q.op_id <= k}) = SumChecksums(Between(L, 0, k))
    BY <2>1, SumFromClear
  <2>5. sum.checksum = p.checksum /\ sum.count = p.count
    BY <1>1, <2>1, <2>3 DEF AddBucketChecksums
  <2>6. Cardinality(S) \in Nat
    BY <1>3, BetweenIs, FS_CardinalityType
  <2> HIDE DEF sum, S
  <2>7. sum.checksum = SumChecksums(Between(L, 0, k)) /\ sum.count >= Cardinality(Between(D, 0, k))
    BY <1>1, <2>3, <2>4, <2>5, <2>6
  <2> QED BY <2>7 DEF Matches, sum, p, S
<1>6. CASE \A o \in D : o.op = "CLEAR" => o.op_id <= a
  <2>1. c.checksum = SumChecksums(Between(L, 0, a)) /\ c.count >= Cardinality(Between(D, 0, a))
    BY <1>2, <1>6 DEF Matches
  <2>2. SumChecksums(S) = SumChecksums(Between(L, a, k))
    BY <1>6, SumTail
  <2>3. SumChecksums(Between(L, 0, k)) = SumChecksums(Between(L, 0, a)) + SumChecksums(Between(L, a, k))
    BY <1>3, SumSplit
  <2>4. ~p.full
    <3>1. \A o \in S : o.op # "CLEAR"
      BY <1>2, <1>6 DEF Between
    <3> QED BY <1>1, <3>1
  <2>5. sum.checksum = c.checksum + p.checksum /\ sum.count = c.count + p.count
    BY <2>4 DEF AddBucketChecksums
  <2> DEFINE B == Between(D, 0, a)
             A == Between(D, 0, k)
  <2>6. A = B \cup S /\ B \cap S = {}
    BY <1>2 DEF Between
  <2>7. IsFiniteSet(B) /\ IsFiniteSet(S)
    BY <1>3, BetweenIs
  <2> HIDE DEF B, A, S
  <2>8. Cardinality(A) = Cardinality(B) + Cardinality(S) /\ Cardinality(B) \in Nat /\ Cardinality(S) \in Nat
    <3>1. Cardinality(B \cup S) = Cardinality(B) + Cardinality(S) - Cardinality(B \cap S)
      BY <2>7, FS_Union
    <3>2. Cardinality(B) \in Nat /\ Cardinality(S) \in Nat /\ Cardinality(B \cap S) = 0
      BY <2>6, <2>7, FS_CardinalityType, FS_EmptySet
    <3> QED BY <2>6, <3>1, <3>2
  <2>9. c.count \in Nat
    BY DEF BucketChecksum
  <2>10. c.count + Cardinality(S) >= Cardinality(A)
    BY <2>1, <2>8, <2>9 DEF B
  <2>11. sum.checksum = SumChecksums(Between(L, 0, k))
    BY <1>1, <2>1, <2>2, <2>3, <2>5
  <2>12. sum.count >= Cardinality(A)
    BY <1>1, <2>5, <2>10
  <2> HIDE DEF sum
  <2> QED BY <2>11, <2>12 DEF Matches, A, sum, p, S
<1> QED BY <1>2, <1>4, <1>5, <1>6

(***************************************************************************)
(* What matches the operations up to n goes on matching: the log of these  *)
(* does not change, their number does not grow, and what is overtaken      *)
(* stays overtaken.                                                        *)
(***************************************************************************)
Kept(D, L, E, M, n) == \A c \in BucketChecksum, k \in Nat : k <= n /\ Matches(c, D, L, k) => Matches(c, E, M, k)

LEMMA KeptSame == \A D, L, n : Kept(D, L, D, L, n)
BY DEF Kept

LEMMA KeptAppended ==
  ASSUME NEW D, NEW L, NEW op, NEW n \in Nat, op.op_id = n + 1
  PROVE  Kept(D, L, D \cup {op}, L \cup {op}, n)
<1> SUFFICES ASSUME NEW c \in BucketChecksum, NEW k \in Nat, k <= n, Matches(c, D, L, k)
             PROVE  Matches(c, D \cup {op}, L \cup {op}, k)
  BY DEF Kept
<1>1. ~(op.op_id <= k)
  OBVIOUS
<1>2. Between(D \cup {op}, 0, k) = Between(D, 0, k) /\ Between(L \cup {op}, 0, k) = Between(L, 0, k)
  BY <1>1 DEF Between
<1> QED BY <1>2 DEF Matches

\* The operations up to k may become fewer, and a CLEAR stays or moves on.
LEMMA KeptFewer ==
  ASSUME NEW D, NEW L, NEW E, NEW n,
         \A k \in Nat :
           \/ \E o \in E : o.op = "CLEAR" /\ o.op_id > k
           \/ /\ \A o \in D : ~(o.op = "CLEAR" /\ o.op_id > k)
              /\ Cardinality(Between(E, 0, k)) <= Cardinality(Between(D, 0, k))
              /\ Cardinality(Between(E, 0, k)) \in Nat /\ Cardinality(Between(D, 0, k)) \in Nat
  PROVE  Kept(D, L, E, L, n)
<1> SUFFICES ASSUME NEW c \in BucketChecksum, NEW k \in Nat, Matches(c, D, L, k) PROVE Matches(c, E, L, k)
  BY DEF Kept
<1>1. CASE \E o \in E : o.op = "CLEAR" /\ o.op_id > k
  BY <1>1 DEF Matches
<1>2. CASE /\ \A o \in D : ~(o.op = "CLEAR" /\ o.op_id > k)
           /\ Cardinality(Between(E, 0, k)) <= Cardinality(Between(D, 0, k))
           /\ Cardinality(Between(E, 0, k)) \in Nat /\ Cardinality(Between(D, 0, k)) \in Nat
  <2>1. c.checksum = SumChecksums(Between(L, 0, k)) /\ c.count >= Cardinality(Between(D, 0, k)) /\ c.count \in Nat
    BY <1>2 DEF Matches, BucketChecksum
  <2>2. c.count >= Cardinality(Between(E, 0, k))
    BY <1>2, <2>1
  <2> QED BY <2>1, <2>2 DEF Matches
<1> QED BY <1>1, <1>2

LEMMA KeptMoved ==
  ASSUME NEW D, NEW L, IsLogged(D, L), NEW n, NEW updates \in SUBSET Update,
         \A u \in updates : \E q \in D \cap L : q.op_id = u.op_id
  PROVE  Kept(D, L, {Moved(o, updates) : o \in D}, L, n)
<1> DEFINE E == {Moved(o, updates) : o \in D}
<1>1. ASSUME NEW o \in D
      PROVE  Moved(o, updates).op_id = o.op_id /\ (o.op = "CLEAR" => Moved(o, updates) = o)
  <2>1. o \in Op
    BY LoggedFields
  <2>2. /\ Moved(o, updates).op_id = o.op_id
        /\ Moved(o, updates) = o \/ \E u \in updates : u.op_id = o.op_id
    BY <2>1, MovedIs
  <2>3. \A u \in updates : u.op_id = o.op_id => o.op # "CLEAR"
    <3> SUFFICES ASSUME NEW u \in updates, u.op_id = o.op_id PROVE o.op # "CLEAR"
      OBVIOUS
    <3>1. PICK q \in D \cap L : q.op_id = u.op_id
      OBVIOUS
    <3>2. q = o /\ q.op \in {"PUT", "REMOVE"}
      BY <3>1, LoggedFields
    <3> QED BY <3>2
  <2> QED BY <2>2, <2>3
<1>2. ASSUME NEW k \in Nat
      PROVE  \/ \E o \in E : o.op = "CLEAR" /\ o.op_id > k
             \/ /\ \A o \in D : ~(o.op = "CLEAR" /\ o.op_id > k)
                /\ Cardinality(Between(E, 0, k)) <= Cardinality(Between(D, 0, k))
                /\ Cardinality(Between(E, 0, k)) \in Nat /\ Cardinality(Between(D, 0, k)) \in Nat
  <2>1. CASE \E o \in D : o.op = "CLEAR" /\ o.op_id > k
    <3>1. PICK o \in D : o.op = "CLEAR" /\ o.op_id > k
      BY <2>1
    <3>2. o \in E
      BY <1>1, <3>1
    <3> QED BY <3>1, <3>2
  <2>2. CASE \A o \in D : ~(o.op = "CLEAR" /\ o.op_id > k)
    <3> DEFINE S == Between(D, 0, k)
               T == Between(E, 0, k)
               f == [o \in S |-> Moved(o, updates)]
    <3>1. S \subseteq D /\ IsFiniteSet(S)
      BY BetweenIs DEF IsLogged
    <3>2. T = {Moved(o, updates) : o \in S}
      BY <1>1 DEF Between
    <3>3. f \in Surjection(S, T)
      <4> HIDE DEF S, T
      <4> QED BY <3>2 DEF Surjection
    <3> HIDE DEF S, T, f
    <3>4. IsFiniteSet(T) /\ Cardinality(T) <= Cardinality(S)
      BY <3>1, <3>3, FS_Surjection
    <3>5. Cardinality(T) \in Nat /\ Cardinality(S) \in Nat
      BY <3>1, <3>4, FS_CardinalityType
    <3> QED BY <2>2, <3>4, <3>5 DEF S, T
  <2> QED BY <2>1, <2>2
<1> HIDE DEF E
<1>3. Kept(D, L, E, L, n)
  BY <1>2, KeptFewer
<1> QED BY <1>3 DEF E

LEMMA KeptCleared ==
  ASSUME NEW D, NEW L, IsLogged(D, L), NEW n, NEW ops, ops \subseteq D, ops # {},
         \A o \in ops, e \in D : e.op_id <= o.op_id => e \in ops
  PROVE  Kept(D, L, (D \ ops) \cup {ClearOf(ops)}, L, n)
<1> DEFINE x == ClearOf(ops)
           E == (D \ ops) \cup {x}
<1>1. IsFiniteSet(ops) /\ ops \subseteq Op
  BY FS_Subset DEF IsLogged, IsOps
<1>2. x.op = "CLEAR" /\ (\A o \in ops : o.op_id <= x.op_id) /\ \E o \in ops : o.op_id = x.op_id
  BY <1>1, ClearOfIs
<1>3. \A o \in D : o.op_id \in Nat /\ o.op_id > 0
  BY LoggedFields
<1> HIDE DEF x
<1>4. x.op_id \in Nat
  BY <1>2, <1>3
<1>5. ASSUME NEW k \in Nat
      PROVE  \/ \E o \in E : o.op = "CLEAR" /\ o.op_id > k
             \/ /\ \A o \in D : ~(o.op = "CLEAR" /\ o.op_id > k)
                /\ Cardinality(Between(E, 0, k)) <= Cardinality(Between(D, 0, k))
                /\ Cardinality(Between(E, 0, k)) \in Nat /\ Cardinality(Between(D, 0, k)) \in Nat
  <2>1. CASE x.op_id > k
    BY <1>2, <2>1
  <2>2. CASE \E o \in D \ ops : o.op = "CLEAR" /\ o.op_id > k
    BY <2>2
  <2>3. CASE /\ x.op_id <= k
             /\ \A o \in D \ ops : ~(o.op = "CLEAR" /\ o.op_id > k)
    <3> DEFINE S == Between(D, 0, k)
               T == Between(E, 0, k)
    <3>1. S \subseteq D /\ IsFiniteSet(S)
      BY BetweenIs DEF IsLogged
    <3>2. PICK o \in ops : o.op_id = x.op_id
      BY <1>2
    <3>3. o \in S
      BY <1>3, <2>3, <3>2 DEF Between
    <3>4. T \subseteq (S \ {o}) \cup {x}
      BY <3>2 DEF Between
    <3> HIDE DEF S, T
    <3>5. IsFiniteSet(S \ {o}) /\ Cardinality(S \ {o}) = Cardinality(S) - 1
      BY <3>1, <3>3, FS_RemoveElement
    <3>6. /\ IsFiniteSet((S \ {o}) \cup {x})
          /\ Cardinality((S \ {o}) \cup {x}) = Cardinality(S \ {o}) \/ Cardinality((S \ {o}) \cup {x}) = Cardinality(S \ {o}) + 1
      BY <3>5, FS_AddElement
    <3>7. IsFiniteSet(T) /\ Cardinality(T) <= Cardinality((S \ {o}) \cup {x})
      BY <3>4, <3>6, FS_Subset
    <3>8. Cardinality(S) \in Nat /\ Cardinality(T) \in Nat
      BY <3>1, <3>7, FS_CardinalityType
    <3>9. Cardinality(T) <= Cardinality(S)
      BY <3>5, <3>6, <3>7, <3>8
    <3>10. \A e \in D : ~(e.op = "CLEAR" /\ e.op_id > k)
      BY <1>2, <1>3, <1>4, <2>3
    <3> QED BY <3>8, <3>9, <3>10 DEF S, T
  <2> QED BY <1>4, <2>1, <2>2, <2>3
<1> HIDE DEF E
<1>6. Kept(D, L, E, L, n)
  BY <1>5, KeptFewer
<1> QED BY <1>6 DEF E, x

(* Whatever the storage and the compactors do. *)
LEMMA StorageKeeps ==
  ASSUME LogInv, OnePerBucket, CompactNext \/ UNCHANGED compactVars
  PROVE  \A b \in Buckets : Kept(bucket_data[b], log[b], bucket_data'[b], log'[b], op_id)
<1>0. CompactInv /\ StorageOK /\ op_id \in Nat /\ \A b \in Buckets : IsLogged(bucket_data[b], log[b])
  BY BucketLogged DEF LogInv, CompactInv, StorageOK
<1>1. CASE UNCHANGED <<bucket_data, log>>
  BY <1>1, KeptSame
<1>2. CASE Flush
  <2>1. PICK b \in Buckets, op \in PutOp \cup RemoveOp : AppendOp(b, op) /\ op.op_id = op_id + 1
    BY <1>0, <1>2, FlushIs
  <2>2. \A d \in Buckets :
          \/ d # b /\ bucket_data'[d] = bucket_data[d] /\ log'[d] = log[d]
          \/ bucket_data'[d] = bucket_data[d] \cup {op} /\ log'[d] = log[d] \cup {op}
    BY <1>0, <2>1 DEF AppendOp, StorageOK
  <2> SUFFICES ASSUME NEW d \in Buckets PROVE Kept(bucket_data[d], log[d], bucket_data'[d], log'[d], op_id)
    OBVIOUS
  <2>3. Kept(bucket_data[d], log[d], bucket_data[d] \cup {op}, log[d] \cup {op}, op_id)
    BY <1>0, <2>1, KeptAppended
  <2> QED BY <2>2, <2>3, KeptSame
<1>3. ASSUME NEW c \in Compactors, FlushMoves(c)
      PROVE  \A d \in Buckets : Kept(bucket_data[d], log[d], bucket_data'[d], log'[d], op_id)
  <2> DEFINE s == compactors[c]
             b == s.bucket
             D == bucket_data[b]
             E == {Moved(o, s.updates) : o \in D}
  <2>1. s.step = "scan" /\ b \in Buckets /\ bucket_data' = [bucket_data EXCEPT ![b] = E] /\ log' = log
    BY <1>0, <1>3, FlushMovesIs
  <2>2. s.updates \in SUBSET Update
    BY <1>0, StateFields
  <2>3. \A u \in s.updates : \E q \in D \cap log[b] : q.op_id = u.op_id
    BY <2>1 DEF LogInv, ScanLogged
  <2>4. IsLogged(D, log[b])
    BY <1>0, <2>1
  <2>5. Kept(D, log[b], E, log[b], op_id)
    <3> HIDE DEF D, b, s
    <3> QED BY <2>2, <2>3, <2>4, KeptMoved
  <2> HIDE DEF E
  <2> SUFFICES ASSUME NEW d \in Buckets PROVE Kept(bucket_data[d], log[d], bucket_data'[d], log'[d], op_id)
    OBVIOUS
  <2>6. bucket_data'[d] = (IF d = b THEN E ELSE bucket_data[d]) /\ log'[d] = log[d]
    BY <1>0, <2>1 DEF StorageOK
  <2> QED BY <2>5, <2>6, KeptSame
<1>4. ASSUME NEW c \in Compactors, ClearBucket(c)
      PROVE  \A d \in Buckets : Kept(bucket_data[d], log[d], bucket_data'[d], log'[d], op_id)
  <2> DEFINE b == compactors[c].bucket
             D == bucket_data[b]
             ops == Cleared(c)
             E == (D \ ops) \cup {ClearOf(ops)}
  <2>1. /\ b \in Buckets /\ log' = log
        /\ bucket_data' = bucket_data \/ (ops # {} /\ bucket_data' = [bucket_data EXCEPT ![b] = E])
    BY <1>0, <1>4, ClearBucketIs
  <2>2. ops \subseteq D /\ \A o \in ops, e \in D : e.op_id <= o.op_id => e \in ops
    BY <1>0, <2>1, ClearedIs
  <2>3. IsLogged(D, log[b])
    BY <1>0, <2>1
  <2> HIDE DEF ops, D
  <2>4. ops # {} => Kept(D, log[b], E, log[b], op_id)
    <3> HIDE DEF b
    <3> QED BY <2>2, <2>3, KeptCleared
  <2> HIDE DEF E
  <2> SUFFICES ASSUME NEW d \in Buckets PROVE Kept(bucket_data[d], log[d], bucket_data'[d], log'[d], op_id)
    OBVIOUS
  <2>5. log'[d] = log[d] /\ (bucket_data'[d] = bucket_data[d] \/ (d = b /\ ops # {} /\ bucket_data'[d] = E))
    BY <1>0, <2>1 DEF StorageOK
  <2> QED BY <2>4, <2>5, KeptSame DEF D
<1>5. CASE CompactNext /\ ~Flush /\ \A c \in Compactors : ~FlushMoves(c) /\ ~ClearBucket(c)
  <2>1. UNCHANGED <<bucket_data, log>>
    BY <1>5 DEF CompactNext, Commit, CompactStep, StartCompact, CompactSingleBucket, ScanOp, EndScan, StopCompact, storageVars
  <2> QED BY <1>1, <2>1
<1> QED BY <1>1, <1>2, <1>3, <1>4, <1>5 DEF compactVars, storageVars

-----------------------------------------------------------------------------
(***************************************************************************)
(* State q of a request, when the buckets are data and their logs entries: *)
(* what it has answered, what it will settle its promises with, and what   *)
(* its fetch starts from, all match.                                       *)
(***************************************************************************)
RequestExact(q, data, entries) ==
  /\ \A b \in DOMAIN q.final : Matches(q.final[b], data[b], entries[b], q.checkpoint)
  /\ q.step = "resolve" => \A b \in q.toFetch : Matches(q.results[b], data[b], entries[b], q.checkpoint)
  /\ q.step = "fetch" =>
       \A b \in q.toFetch : q.start[b] < q.checkpoint /\ Matches(q.add[b], data[b], entries[b], q.start[b])

EntryExact(v, data, entries, b, k) == v \in BucketChecksum => Matches(v, data[b], entries[b], k)

AllExact ==
  /\ \A b \in Buckets, k \in Checkpoints : EntryExact(cache[<<b, k>>], bucket_data, log, b, k)
  /\ \A r \in Requests : RequestExact(requests[r], bucket_data, log)

ExactInv == LogInv /\ CacheInv /\ AllExact

LEMMA IdleExact == \A data, entries : RequestExact(IdleRequest, data, entries)
<1>1. IdleRequest.step = "idle" /\ DOMAIN IdleRequest.final = {}
  BY IdleRequestState DEF IdleRequest
<1> QED BY <1>1 DEF RequestExact

LEMMA ZeroMatches ==
  ASSUME NEW D, NEW L, IsLogged(D, L)
  PROVE  Matches(Zero, D, L, 0)
<1>1. Between(L, 0, 0) = {} /\ Between(D, 0, 0) = {}
  BY LoggedFields DEF Between
<1>2. Zero.checksum = 0 /\ Zero.count = 0 /\ Cardinality({}) = 0
  BY FS_EmptySet DEF Zero
<1>3. Zero.checksum = SumChecksums(Between(L, 0, 0)) /\ Zero.count >= Cardinality(Between(D, 0, 0))
  BY <1>1, <1>2, SumEmpty
<1> QED BY <1>3 DEF Matches

LEMMA CacheInit_Exact ==
  ASSUME CacheInit
  PROVE  ExactInv
<1>1. LogInv /\ CacheInv
  BY CompactInit_Log, CacheInit_Inv DEF CacheInit
<1>2. cache = [key \in Keys |-> None] /\ requests = [r \in Requests |-> IdleRequest]
  BY DEF CacheInit
<1>3. \A b \in Buckets, k \in Checkpoints : cache[<<b, k>>] = None
  BY <1>2 DEF Keys
<1>4. \A b \in Buckets, k \in Checkpoints : EntryExact(cache[<<b, k>>], bucket_data, log, b, k)
  BY <1>3, EntriesAssumption DEF EntryExact
<1>5. \A r \in Requests : RequestExact(requests[r], bucket_data, log)
  BY <1>2, IdleExact
<1> QED BY <1>1, <1>4, <1>5 DEF ExactInv, AllExact

(* What matched still does, after a step of the storage or of a compactor. *)
LEMMA KeptExact ==
  ASSUME NEW data, NEW entries, NEW newData, NEW newEntries, NEW n \in Nat,
         \A b \in Buckets : Kept(data[b], entries[b], newData[b], newEntries[b], n)
  PROVE  /\ \A r \in Requests, q \in RequestState :
              RequestOK(q, r, n) /\ RequestExact(q, data, entries) => RequestExact(q, newData, newEntries)
         /\ \A v : \A b \in Buckets, k \in Nat :
              k <= n /\ EntryExact(v, data, entries, b, k) => EntryExact(v, newData, newEntries, b, k)
<1>1. ASSUME NEW c \in BucketChecksum, NEW b \in Buckets, NEW k \in Nat, k <= n, Matches(c, data[b], entries[b], k)
      PROVE  Matches(c, newData[b], newEntries[b], k)
  <2>1. Kept(data[b], entries[b], newData[b], newEntries[b], n)
    OBVIOUS
  <2> QED BY <1>1, <2>1 DEF Kept
<1>2. ASSUME NEW r \in Requests, NEW q \in RequestState, RequestOK(q, r, n), RequestExact(q, data, entries)
      PROVE  RequestExact(q, newData, newEntries)
  <2>1. /\ q.checkpoint \in Nat /\ q.toFetch \in SUBSET Buckets /\ q.start \in Partial(Nat)
        /\ q.add \in Partial(BucketChecksum) /\ q.results \in Partial(BucketChecksum) /\ q.final \in Partial(BucketChecksum)
    BY RequestFields
  <2>2. q.step # "idle" => q.checkpoint <= n
    BY <1>2 DEF RequestOK
  <2>3. ASSUME NEW b \in DOMAIN q.final PROVE Matches(q.final[b], newData[b], newEntries[b], q.checkpoint)
    <3>1. q.checkpoint <= n
      BY <1>2, <2>2, <2>3 DEF RequestOK
    <3>2. b \in Buckets /\ q.final[b] \in BucketChecksum
      BY <2>1, PartialAt
    <3>3. Matches(q.final[b], data[b], entries[b], q.checkpoint)
      BY <1>2 DEF RequestExact
    <3> QED BY <1>1, <2>1, <3>1, <3>2, <3>3
  <2>4. ASSUME q.step = "resolve", NEW b \in q.toFetch PROVE Matches(q.results[b], newData[b], newEntries[b], q.checkpoint)
    <3>1. q.checkpoint <= n
      BY <2>2, <2>4
    <3>2. b \in Buckets /\ q.results[b] \in BucketChecksum
      BY <1>2, <2>1, <2>4, PartialAt DEF RequestOK
    <3>3. Matches(q.results[b], data[b], entries[b], q.checkpoint)
      BY <1>2, <2>4 DEF RequestExact
    <3> QED BY <1>1, <2>1, <3>1, <3>2, <3>3
  <2>5. ASSUME q.step = "fetch", NEW b \in q.toFetch
        PROVE  q.start[b] < q.checkpoint /\ Matches(q.add[b], newData[b], newEntries[b], q.start[b])
    <3>1. q.checkpoint <= n
      BY <2>2, <2>5
    <3>2. b \in DOMAIN q.add /\ b \in DOMAIN q.start
      BY <1>2, <2>5 DEF RequestOK
    <3>3. b \in Buckets /\ q.add[b] \in BucketChecksum /\ q.start[b] \in Nat
      BY <2>1, <3>2, PartialAt
    <3>4. q.start[b] < q.checkpoint /\ Matches(q.add[b], data[b], entries[b], q.start[b])
      BY <1>2, <2>5 DEF RequestExact
    <3>5. q.start[b] <= n
      BY <2>1, <3>1, <3>3, <3>4
    <3> QED BY <1>1, <3>3, <3>4, <3>5
  <2> QED BY <2>3, <2>4, <2>5 DEF RequestExact
<1>3. ASSUME NEW v, NEW b \in Buckets, NEW k \in Nat, k <= n, EntryExact(v, data, entries, b, k)
      PROVE  EntryExact(v, newData, newEntries, b, k)
  BY <1>1, <1>3 DEF EntryExact
<1> QED BY <1>2, <1>3

LEMMA StorageStep_Exact ==
  ASSUME ExactInv, OnePerBucket, CompactNext \/ UNCHANGED compactVars, UNCHANGED cacheVars
  PROVE  ExactInv'
<1>1. LogInv' /\ CacheInv'
  BY CompactNext_Log, CompactStep_Cache DEF ExactInv
<1>2. op_id \in Nat
  BY DEF ExactInv, LogInv, CompactInv, StorageOK
<1>3. \A b \in Buckets : Kept(bucket_data[b], log[b], bucket_data'[b], log'[b], op_id)
  BY StorageKeeps DEF ExactInv
<1>4. cache' = cache /\ requests' = requests
  BY DEF cacheVars
<1> DEFINE data == bucket_data
           entries == log
           newData == bucket_data'
           newEntries == log'
           n == op_id
<1>5. n \in Nat /\ \A b \in Buckets : Kept(data[b], entries[b], newData[b], newEntries[b], n)
  BY <1>2, <1>3
<1> HIDE DEF data, entries, newData, newEntries, n
<1>6. /\ \A r \in Requests, q \in RequestState :
            RequestOK(q, r, n) /\ RequestExact(q, data, entries) => RequestExact(q, newData, newEntries)
      /\ \A v : \A b \in Buckets, k \in Nat :
            k <= n /\ EntryExact(v, data, entries, b, k) => EntryExact(v, newData, newEntries, b, k)
  BY <1>5, KeptExact
<1>7. ASSUME NEW r \in Requests PROVE RequestExact(requests'[r], newData, newEntries)
  <2>1. requests[r] \in RequestState /\ RequestOK(requests[r], r, n)
    BY RequestAt DEF ExactInv, n
  <2>2. RequestExact(requests[r], data, entries)
    BY DEF ExactInv, AllExact, data, entries
  <2> QED BY <1>4, <1>6, <2>1, <2>2
<1>8. ASSUME NEW b \in Buckets, NEW k \in Checkpoints PROVE EntryExact(cache'[<<b, k>>], newData, newEntries, b, k)
  <2>1. EntryExact(cache[<<b, k>>], data, entries, b, k)
    BY DEF ExactInv, AllExact, data, entries
  <2>2. k \in Nat /\ (cache[<<b, k>>] # None => k <= n)
    BY CacheAt DEF ExactInv, CacheInv, n
  <2>3. cache[<<b, k>>] = None => EntryExact(cache[<<b, k>>], newData, newEntries, b, k)
    BY EntriesAssumption DEF EntryExact
  <2> QED BY <1>4, <1>6, <2>1, <2>2, <2>3
<1>9. AllExact'
  BY <1>7, <1>8 DEF AllExact, newData, newEntries
<1> QED BY <1>1, <1>9 DEF ExactInv

(* The calls leave the buckets alone. *)
LEMMA CallKeeps ==
  ASSUME ExactInv, UNCHANGED compactVars, CacheInv',
         \A b \in Buckets, k \in Checkpoints : EntryExact(cache'[<<b, k>>], bucket_data, log, b, k),
         \A r \in Requests : RequestExact(requests'[r], bucket_data, log)
  PROVE  ExactInv'
<1>1. bucket_data' = bucket_data /\ log' = log /\ compactors' = compactors
  BY DEF compactVars, storageVars
<1>2. LogInv'
  <2>1. CompactInv'
    BY CompactNext_Inv DEF ExactInv, LogInv
  <2> QED BY <1>1, <2>1 DEF ExactInv, LogInv, ScanLogged
<1>3. AllExact'
  BY <1>1 DEF AllExact
<1> QED BY <1>2, <1>3 DEF ExactInv

LEMMA Loses_Exact ==
  ASSUME ExactInv,
         Clear \/ \E b \in Buckets, k \in Checkpoints : Evict(b, k) \/ Expire(b, k)
  PROVE  ExactInv'
<1>1. UNCHANGED compactVars /\ requests' = requests
  BY DEF Clear, Evict, Expire
<1>2. CacheInv'
  BY Loses_Inv DEF ExactInv
<1>3. \A d \in Buckets, j \in Checkpoints : cache'[<<d, j>>] \in {cache[<<d, j>>], None}
  <2>1. CASE Clear
    <3>1. cache' = [key \in Keys |-> None]
      BY <2>1 DEF Clear
    <3> QED BY <3>1 DEF Keys
  <2>2. ASSUME NEW b \in Buckets, NEW k \in Checkpoints, Evict(b, k) \/ Expire(b, k)
        PROVE  \A d \in Buckets, j \in Checkpoints : cache'[<<d, j>>] \in {cache[<<d, j>>], None}
    <3>1. cache' = [cache EXCEPT ![<<b, k>>] = None]
      BY <2>2 DEF Evict, Expire
    <3> QED BY <3>1, CacheEntry DEF ExactInv
  <2> QED BY <2>1, <2>2
<1>4. ASSUME NEW d \in Buckets, NEW j \in Checkpoints PROVE EntryExact(cache'[<<d, j>>], bucket_data, log, d, j)
  <2>1. EntryExact(cache[<<d, j>>], bucket_data, log, d, j)
    BY DEF ExactInv, AllExact
  <2> QED BY <1>3, <2>1, EntriesAssumption DEF EntryExact
<1> QED BY <1>1, <1>2, <1>4, CallKeeps DEF ExactInv, AllExact

LEMMA Return_Exact ==
  ASSUME ExactInv, NEW r \in Requests, Return(r)
  PROVE  ExactInv'
<1>1. UNCHANGED compactVars /\ cache' = cache /\ requests' = [requests EXCEPT ![r] = IdleRequest]
  BY DEF Return
<1>2. CacheInv'
  BY Return_Inv DEF ExactInv
<1>3. \A q \in Requests : requests'[q] = IF q = r THEN IdleRequest ELSE requests[q]
  BY <1>1 DEF ExactInv, CacheInv
<1>4. ASSUME NEW q \in Requests PROVE RequestExact(requests'[q], bucket_data, log)
  BY <1>3, IdleExact DEF ExactInv, AllExact
<1> QED BY <1>1, <1>2, <1>4, CallKeeps DEF ExactInv, AllExact

LEMMA OneRequest_Exact ==
  ASSUME ExactInv, UNCHANGED compactVars, CacheInv', NEW r \in Requests, NEW n,
         \A b \in Buckets, k \in Checkpoints : EntryExact(cache'[<<b, k>>], bucket_data, log, b, k),
         requests' = [requests EXCEPT ![r] = n], RequestExact(n, bucket_data, log)
  PROVE  ExactInv'
<1>1. \A q \in Requests : requests'[q] = IF q = r THEN n ELSE requests[q]
  BY DEF ExactInv, CacheInv
<1>2. ASSUME NEW q \in Requests PROVE RequestExact(requests'[q], bucket_data, log)
  BY <1>1 DEF ExactInv, AllExact
<1> QED BY <1>2, CallKeeps

LEMMA GetChecksumMap_Exact ==
  ASSUME ExactInv, NEW r \in Requests, NEW k \in 1..checkpoint, NEW buckets \in SUBSET Buckets, GetChecksumMap(r, k, buckets)
  PROVE  ExactInv'
<1> DEFINE hits == {b \in buckets : Fetched(<<b, k>>)}
           toFetch == {b \in buckets \ hits : ~InFlight(<<b, k>>)}
           n == [step |-> IF toFetch = {} THEN "settle" ELSE "fetch",
                 checkpoint |-> k,
                 toFetch |-> toFetch,
                 start |-> [b \in toFetch |-> Start(b, k)],
                 add |-> [b \in toFetch |-> IF Start(b, k) = 0 THEN Zero ELSE cache[<<b, Start(b, k)>>]],
                 results |-> << >>,
                 promises |-> [b \in buckets \ hits |-> IF b \in toFetch THEN r ELSE cache[<<b, k>>]],
                 final |-> [b \in hits |-> cache[<<b, k>>]]]
<1>0. CacheInv /\ CacheInv'
  BY GetChecksumMap_Inv DEF ExactInv
<1>1. /\ requests[r].step = "idle" /\ requests' = [requests EXCEPT ![r] = n]
      /\ n \in RequestState /\ RequestOK(n, r, op_id)
      /\ cache' = [key \in Keys |-> IF key[1] \in toFetch /\ key[2] = k THEN r ELSE cache[key]]
      /\ UNCHANGED <<compactVars, bucketCheckpoints>>
      /\ k \in Checkpoints /\ k <= op_id /\ hits \subseteq Buckets /\ toFetch \subseteq Buckets
  BY <1>0, GetIs
<1>2. /\ n.checkpoint = k /\ n.toFetch = toFetch /\ n.step # "resolve"
      /\ DOMAIN n.final = hits /\ \A b \in hits : n.final[b] = cache[<<b, k>>] /\ Fetched(<<b, k>>)
      /\ \A b \in toFetch :
           n.start[b] = Start(b, k) /\ n.add[b] = IF Start(b, k) = 0 THEN Zero ELSE cache[<<b, Start(b, k)>>]
  OBVIOUS
<1> HIDE DEF n, hits, toFetch
<1>3. ASSUME NEW b \in Buckets, NEW j \in Checkpoints, Fetched(<<b, j>>)
      PROVE  Matches(cache[<<b, j>>], bucket_data[b], log[b], j)
  BY <1>3 DEF ExactInv, AllExact, EntryExact, Fetched
<1>4. ASSUME NEW b \in hits PROVE Matches(n.final[b], bucket_data[b], log[b], n.checkpoint)
  <2>1. b \in Buckets /\ Fetched(<<b, k>>) /\ n.final[b] = cache[<<b, k>>] /\ n.checkpoint = k
    BY <1>1, <1>2
  <2> QED BY <1>1, <1>3, <2>1
<1>5. ASSUME NEW b \in toFetch
      PROVE  n.start[b] < n.checkpoint /\ Matches(n.add[b], bucket_data[b], log[b], n.start[b])
  <2> DEFINE a == Start(b, k)
  <2>1. k \in Nat /\ k > 0 /\ b \in Buckets
    BY <1>0, <1>1, CacheAt
  <2>2. a < k /\ (a = 0 \/ (a \in Checkpoints /\ Fetched(<<b, a>>)))
    BY <1>0, <2>1, StartIs
  <2>3. n.start[b] = a /\ n.checkpoint = k /\ n.add[b] = IF a = 0 THEN Zero ELSE cache[<<b, a>>]
    BY <1>2
  <2> HIDE DEF a
  <2>4. Matches(n.add[b], bucket_data[b], log[b], a)
    <3>1. CASE a = 0
      <4>1. IsLogged(bucket_data[b], log[b])
        BY <2>1, BucketLogged DEF ExactInv, LogInv, CompactInv
      <4> QED BY <2>3, <3>1, <4>1, ZeroMatches
    <3>2. CASE a # 0
      BY <1>3, <2>1, <2>2, <2>3, <3>2
    <3> QED BY <3>1, <3>2
  <2> QED BY <2>2, <2>3, <2>4
<1>6. RequestExact(n, bucket_data, log)
  BY <1>2, <1>4, <1>5 DEF RequestExact
<1>7. ASSUME NEW b \in Buckets, NEW j \in Checkpoints PROVE EntryExact(cache'[<<b, j>>], bucket_data, log, b, j)
  <2>1. cache'[<<b, j>>] = IF b \in toFetch /\ j = k THEN r ELSE cache[<<b, j>>]
    BY <1>0, <1>1, CacheAt
  <2>2. EntryExact(cache[<<b, j>>], bucket_data, log, b, j)
    BY DEF ExactInv, AllExact
  <2> QED BY <2>1, <2>2, EntriesAssumption DEF EntryExact
<1> QED BY <1>0, <1>1, <1>6, <1>7, OneRequest_Exact

LEMMA FetchChecksums_Exact ==
  ASSUME ExactInv, NEW r \in Requests, FetchChecksums(r)
  PROVE  ExactInv'
<1> DEFINE q == requests[r]
           results == [b \in q.toFetch |-> FetchedSum(r, b)]
           n == [q EXCEPT !.step = "resolve", !.results = results]
<1>0. CacheInv /\ CacheInv'
  BY FetchChecksums_Inv DEF ExactInv
<1>1. /\ q.step = "fetch" /\ requests' = [requests EXCEPT ![r] = n]
      /\ n.step = "resolve" /\ n.toFetch = q.toFetch /\ n.checkpoint = q.checkpoint
      /\ n.final = q.final /\ n.results = results
      /\ UNCHANGED <<compactVars, cache>>
  BY <1>0, FetchIs
<1>2. \A b \in q.toFetch : results[b] = FetchedSum(r, b)
  OBVIOUS
<1>3. q \in RequestState /\ RequestOK(q, r, op_id) /\ RequestExact(q, bucket_data, log)
  BY <1>0, RequestAt DEF ExactInv, AllExact
<1>31. \A b : FetchedSum(r, b) = AddBucketChecksums(q.add[b], PartialChecksum(Between(bucket_data[b], q.start[b], q.checkpoint)))
  BY DEF FetchedSum
<1> HIDE DEF n, results, q
<1>4. ASSUME NEW b \in q.toFetch PROVE Matches(n.results[b], bucket_data[b], log[b], n.checkpoint)
  <2> DEFINE c == q.add[b]
             a == q.start[b]
             k == q.checkpoint
             D == bucket_data[b]
             L == log[b]
  <2>1. b \in Buckets /\ k \in Nat /\ q.add \in Partial(BucketChecksum) /\ q.start \in Partial(Nat)
    BY <1>3, RequestFields
  <2>2. b \in DOMAIN q.add /\ b \in DOMAIN q.start
    BY <1>1, <1>3 DEF RequestOK
  <2>3. c \in BucketChecksum /\ a \in Nat
    BY <2>1, <2>2, PartialAt
  <2>4. a < k /\ Matches(c, D, L, a)
    BY <1>1, <1>3 DEF RequestExact
  <2>5. IsLogged(D, L) /\ LogOK(D, L)
    BY <2>1, BucketLogged DEF ExactInv, LogInv, CompactInv
  <2>6. n.results[b] = AddBucketChecksums(c, PartialChecksum(Between(D, a, k))) /\ n.checkpoint = k
    BY <1>1, <1>2, <1>31
  <2> HIDE DEF c, a, k, D, L
  <2>7. Matches(AddBucketChecksums(c, PartialChecksum(Between(D, a, k))), D, L, k)
    BY <2>1, <2>3, <2>4, <2>5, AddedMatches DEF k
  <2> QED BY <2>6, <2>7 DEF D, L
<1>5. RequestExact(n, bucket_data, log)
  BY <1>1, <1>3, <1>4 DEF RequestExact
<1>6. \A b \in Buckets, k \in Checkpoints : EntryExact(cache'[<<b, k>>], bucket_data, log, b, k)
  BY <1>1 DEF ExactInv, AllExact
<1> QED BY <1>0, <1>1, <1>5, <1>6, OneRequest_Exact

LEMMA FetchFails_Exact ==
  ASSUME ExactInv, NEW r \in Requests, FetchFails(r)
  PROVE  ExactInv'
<1>0. CacheInv /\ CacheInv'
  BY FetchFails_Inv DEF ExactInv
<1> DEFINE B == requests[r].toFetch
<1>1. /\ cache' = [key \in Keys |-> IF cache[key] = r THEN None ELSE cache[key]]
      /\ UNCHANGED compactVars
      /\ \A q \in Requests : SettledRequest(requests'[q], requests[q], r, B) /\ requests'[q].final = requests[q].final
      /\ \A q \in Requests : q # r => requests'[q].step = requests[q].step /\ requests'[q].toFetch = requests[q].toFetch
      /\ requests'[r].toFetch = {} /\ requests'[r].step = "settle"
  BY <1>0, FailsIs
<1> HIDE DEF B
<1>2. ASSUME NEW q \in Requests PROVE RequestExact(requests'[q], bucket_data, log)
  <2>1. RequestExact(requests[q], bucket_data, log)
    BY DEF ExactInv, AllExact
  <2>2. SettledRequest(requests'[q], requests[q], r, B) /\ requests'[q].final = requests[q].final
    BY <1>1
  <2>3. CASE q = r
    BY <1>1, <2>1, <2>2, <2>3 DEF RequestExact, SettledRequest
  <2>4. CASE q # r
    BY <1>1, <2>1, <2>2, <2>4 DEF RequestExact, SettledRequest
  <2> QED BY <2>3, <2>4
<1>3. ASSUME NEW b \in Buckets, NEW k \in Checkpoints PROVE EntryExact(cache'[<<b, k>>], bucket_data, log, b, k)
  <2>1. cache'[<<b, k>>] = IF cache[<<b, k>>] = r THEN None ELSE cache[<<b, k>>]
    BY <1>0, <1>1, CacheAt
  <2>2. EntryExact(cache[<<b, k>>], bucket_data, log, b, k)
    BY DEF ExactInv, AllExact
  <2> QED BY <2>1, <2>2, EntriesAssumption DEF EntryExact
<1> QED BY <1>0, <1>1, <1>2, <1>3, CallKeeps

(* A result is cached, and answered to those who wait for it: at its own checkpoint. *)
LEMMA Resolve_Exact ==
  ASSUME ExactInv, NEW r \in Requests, NEW b \in Buckets, Resolve(r, b)
  PROVE  ExactInv'
<1>0. CacheInv /\ CacheInv'
  BY Resolve_Inv DEF ExactInv
<1>1. SUFFICES ASSUME NEW k, NEW v, Resolves(r, b, k, v), k = requests[r].checkpoint, v = requests[r].results[b]
               PROVE  ExactInv'
  BY <1>0, ResolveIs
<1>2. /\ requests[r].step = "resolve" /\ b \in requests[r].toFetch /\ v \in BucketChecksum /\ k \in Checkpoints
      /\ cache' = [cache EXCEPT ![<<b, k>>] = IF cache[<<b, k>>] = r THEN v ELSE cache[<<b, k>>]]
      /\ UNCHANGED compactVars
  BY <1>1 DEF Resolves
<1>3. ASSUME NEW q \in Requests
      PROVE  /\ SettledRequest(requests'[q], requests[q], r, {b}) /\ SettledFinal(requests'[q], requests[q], r, b)
             /\ q # r => requests'[q].step = requests[q].step /\ requests'[q].toFetch = requests[q].toFetch
  BY <1>1 DEF Resolves
<1>4. requests'[r].toFetch = requests[r].toFetch \ {b} /\ requests'[r].step \in {"settle", "resolve"}
  BY <1>1, <1>2 DEF Resolves
<1>5. \A q \in Requests : RequestExact(requests[q], bucket_data, log)
  BY DEF ExactInv, AllExact
<1>6. Matches(v, bucket_data[b], log[b], k)
  BY <1>1, <1>2, <1>5 DEF RequestExact
<1>7. ASSUME NEW q \in Requests, NEW d \in DOMAIN requests'[q].final
      PROVE  Matches(requests'[q].final[d], bucket_data[d], log[d], requests'[q].checkpoint)
  <2>1. requests'[q].checkpoint = requests[q].checkpoint
    BY <1>3 DEF SettledRequest
  <2>2. CASE d \in SettledPromises(requests[q], r, {b}) /\ requests'[q].final[d] = requests[r].results[b]
    <3>1. d = b /\ requests[q].checkpoint = k
      BY <1>1, <2>2 DEF SettledPromises, WaitsFor
    <3> QED BY <1>1, <1>6, <2>1, <2>2, <3>1
  <2>3. CASE d \in DOMAIN requests[q].final /\ requests'[q].final[d] = requests[q].final[d]
    <3>1. Matches(requests[q].final[d], bucket_data[d], log[d], requests[q].checkpoint)
      BY <1>5, <2>3 DEF RequestExact
    <3> QED BY <2>1, <2>3, <3>1
  <2> QED BY <1>3, <1>7, <2>2, <2>3 DEF SettledFinal
<1>8. ASSUME NEW q \in Requests PROVE RequestExact(requests'[q], bucket_data, log)
  <2>1. SettledRequest(requests'[q], requests[q], r, {b})
    BY <1>3
  <2>2. CASE q = r
    BY <1>2, <1>4, <1>5, <1>7, <2>1, <2>2 DEF RequestExact, SettledRequest
  <2>3. CASE q # r
    <3>1. requests'[q].step = requests[q].step /\ requests'[q].toFetch = requests[q].toFetch
      BY <1>3, <2>3
    <3> QED BY <1>5, <1>7, <2>1, <3>1 DEF RequestExact, SettledRequest
  <2> QED BY <2>2, <2>3
<1>9. ASSUME NEW d \in Buckets, NEW j \in Checkpoints PROVE EntryExact(cache'[<<d, j>>], bucket_data, log, d, j)
  <2> DEFINE w == IF cache[<<b, k>>] = r THEN v ELSE cache[<<b, k>>]
  <2>0. CacheInv /\ k \in Checkpoints
    BY <1>0, <1>2
  <2>1. w \in BucketChecksum \cup Requests \cup {None}
    BY <1>2, <2>0, CacheAt
  <2>11. cache' = [cache EXCEPT ![<<b, k>>] = w]
    BY <1>2
  <2>2. w = v \/ w = cache[<<b, k>>]
    OBVIOUS
  <2> HIDE DEF w
  <2>3. /\ cache' \in [Keys -> BucketChecksum \cup Requests \cup {None}]
        /\ cache'[<<b, k>>] = w
        /\ \A e \in Buckets, i \in Checkpoints : e # b \/ i # k => cache'[<<e, i>>] = cache[<<e, i>>]
    BY <2>0, <2>1, <2>11, CacheEntry
  <2>4. \A e \in Buckets, i \in Checkpoints : EntryExact(cache[<<e, i>>], bucket_data, log, e, i)
    BY DEF ExactInv, AllExact
  <2>5. EntryExact(w, bucket_data, log, b, k)
    BY <1>2, <1>6, <2>2, <2>4 DEF EntryExact
  <2> QED BY <2>3, <2>4, <2>5
<1> QED BY <1>0, <1>2, <1>8, <1>9, CallKeeps

LEMMA CacheNext_Exact ==
  ASSUME ExactInv, OnePerBucket, CacheNext \/ UNCHANGED allVars
  PROVE  ExactInv'
<1>1. CASE UNCHANGED allVars
  <2>1. UNCHANGED compactVars /\ UNCHANGED cacheVars
    BY <1>1 DEF allVars
  <2> QED BY <2>1, StorageStep_Exact
<1>2. CASE CompactNext /\ UNCHANGED cacheVars
  BY <1>2, StorageStep_Exact
<1>3. ASSUME NEW r \in Requests, NEW k \in 1..checkpoint, NEW buckets \in RequestSets, GetChecksumMap(r, k, buckets)
      PROVE  ExactInv'
  BY <1>3, RequestSetsAssumption, GetChecksumMap_Exact
<1>4. ASSUME NEW r \in Requests, FetchChecksums(r) \/ FetchFails(r) \/ (\E b \in Buckets : Resolve(r, b)) \/ Return(r)
      PROVE  ExactInv'
  BY <1>4, FetchChecksums_Exact, FetchFails_Exact, Resolve_Exact, Return_Exact
<1>5. CASE Clear \/ \E b \in Buckets, k \in Checkpoints : Evict(b, k) \/ Expire(b, k)
  BY <1>5, Loses_Exact
<1> QED BY <1>1, <1>2, <1>3, <1>4, <1>5 DEF CacheNext

LEMMA ExactInvariant == CacheSpec /\ []OnePerBucket => []ExactInv
<1>1. CacheInit => ExactInv
  BY CacheInit_Exact
<1>2. ExactInv /\ OnePerBucket /\ [CacheNext]_allVars => ExactInv'
  BY CacheNext_Exact
<1> QED BY <1>1, <1>2, PTL DEF CacheSpec

(***************************************************************************)
(* Every checksum that is cached or answered is the one of the bucket at   *)
(* its checkpoint, however the part it was computed from got into the      *)
(* cache and whatever was compacted since, as long as no two compactors    *)
(* work on a bucket at the same time.                                      *)
(***************************************************************************)
THEOREM ChecksumsAreExact == CacheSpec /\ []OnePerBucket => []ChecksumsExact
<1>1. ExactInv => ChecksumsExact
  <2> SUFFICES ASSUME ExactInv PROVE ChecksumsExact
    OBVIOUS
  <2>1. ASSUME NEW key \in Keys, Fetched(key) PROVE IsChecksumOf(cache[key], key[1], key[2])
    <3>1. PICK b \in Buckets, k \in Checkpoints : key = <<b, k>>
      BY DEF Keys
    <3>2. Matches(cache[<<b, k>>], bucket_data[b], log[b], k)
      BY <2>1, <3>1 DEF ExactInv, AllExact, EntryExact, Fetched
    <3> QED BY <3>1, <3>2, MatchesIs
  <2>2. ASSUME NEW r \in Requests, NEW b \in DOMAIN requests[r].final
        PROVE  IsChecksumOf(requests[r].final[b], b, requests[r].checkpoint)
    <3>1. Matches(requests[r].final[b], bucket_data[b], log[b], requests[r].checkpoint)
      BY DEF ExactInv, AllExact, RequestExact
    <3> QED BY <3>1, MatchesIs
  <2> QED BY <2>1, <2>2 DEF ChecksumsExact
<1> QED BY <1>1, ExactInvariant, PTL

================================================================================
