----------------------------- MODULE ChecksumCache -----------------------------
(***************************************************************************)
(* The cache of bucket checksums that all connections of a process share   *)
(* (packages/service-core/src/storage/ChecksumCache.ts), on Postgres       *)
(* storage, while the bucket is written to and compacted. A checksum is    *)
(* computed from the newest cached one before it and the operations since. *)
(***************************************************************************)
EXTENDS PostgresCompactor, Functions

CONSTANTS
  Requests,    \* concurrent getChecksumMap() calls
  RequestSets, \* the sets of buckets they ask for
  MaxCalls,    \* bound on the calls
  MaxLosses    \* bound on failed queries and on entries lost by eviction, expiry or clear()

BucketChecksum == [checksum : Nat, count : Nat]

ASSUME RequestSetsAssumption == RequestSets \subseteq SUBSET Buckets
ASSUME EntriesAssumption == None \notin BucketChecksum /\ \A r \in Requests : r # None /\ r \notin BucketChecksum
ASSUME CacheBoundsAssumption == MaxCalls \in Nat /\ MaxLosses \in Nat

VARIABLES
  cache,             \* the LRUCache: [key -> a checksum, the request that fetches it, or None]
  bucketCheckpoints, \* [Buckets -> cached checkpoints]
  requests,          \* [Requests -> the state of its call]
  calls, losses      \* numbers of calls, and of failures and lost entries

cacheVars == <<cache, bucketCheckpoints, requests, calls, losses>>
allVars == <<compactVars, cacheVars>>

Checkpoints == 1..MaxOp
Keys == Buckets \X Checkpoints
Zero == [checksum |-> 0, count |-> 0]

Fetched(key) == cache[key] \in BucketChecksum
InFlight(key) == cache[key] \in Requests

IdleRequest ==
  [step |-> "idle", checkpoint |-> 0, toFetch |-> {}, start |-> << >>, add |-> << >>, results |-> << >>,
   promises |-> << >>, final |-> << >>]

CacheInit ==
  /\ CompactInit
  /\ cache = [key \in Keys |-> None]
  /\ bucketCheckpoints = [b \in Buckets |-> {}]
  /\ requests = [r \in Requests |-> IdleRequest]
  /\ calls = 0 /\ losses = 0

\* The cached checkpoint that a new checksum can start from, or 0.
Start(b, k) == Max({0} \cup {j \in bucketCheckpoints[b] : j < k /\ Fetched(<<b, j>>)})

(***************************************************************************)
(* getChecksumMap(), up to its await: a bucket is a hit, in flight for     *)
(* another request, or to be fetched by this one.                          *)
(***************************************************************************)
GetChecksumMap(r, k, buckets) ==
  LET hits == {b \in buckets : Fetched(<<b, k>>)}
      toFetch == {b \in buckets \ hits : ~InFlight(<<b, k>>)}
  IN /\ requests[r].step = "idle"
     /\ calls < MaxCalls
     /\ requests' = [requests EXCEPT ![r] =
          [step |-> IF toFetch = {} THEN "settle" ELSE "fetch",
           checkpoint |-> k,
           toFetch |-> toFetch,
           start |-> [b \in toFetch |-> Start(b, k)],
           add |-> [b \in toFetch |-> IF Start(b, k) = 0 THEN Zero ELSE cache[<<b, Start(b, k)>>]],
           results |-> << >>,
           promises |-> [b \in buckets \ hits |-> IF b \in toFetch THEN r ELSE cache[<<b, k>>]],
           final |-> [b \in hits |-> cache[<<b, k>>]]]]
     /\ cache' = [key \in Keys |-> IF key[1] \in toFetch /\ key[2] = k THEN r ELSE cache[key]]
     /\ calls' = calls + 1
     /\ UNCHANGED <<compactVars, bucketCheckpoints, losses>>

\* getChecksumsInternal(): one statement reads the ranges of all buckets.
PartialChecksum(ops) ==
  [checksum |-> SumChecksums(ops), count |-> Cardinality(ops), full |-> \E o \in ops : o.op = "CLEAR"]

\* (mutant: a CLEAR is added to the cached checksum)
AddBucketChecksums_Partial(a, b) == [checksum |-> a.checksum + b.checksum, count |-> a.count + b.count]

AddBucketChecksums(a, b) ==
  IF b.full THEN [checksum |-> b.checksum, count |-> b.count]
  ELSE [checksum |-> a.checksum + b.checksum, count |-> a.count + b.count]

FetchChecksums(r) ==
  LET q == requests[r]
      partial(b) == PartialChecksum(Between(bucket_data[b], q.start[b], q.checkpoint))
  IN /\ q.step = "fetch"
     /\ requests' = [requests EXCEPT ![r].step = "resolve",
                                     ![r].results = [b \in q.toFetch |-> AddBucketChecksums(q.add[b], partial(b))]]
     /\ UNCHANGED <<compactVars, cache, bucketCheckpoints, calls, losses>>

\* What the promise that request r made for bucket b at its checkpoint does to
\* the requests that wait for it.
WaitsFor(q, r, b) == b \in DOMAIN q.promises /\ q.promises[b] = r /\ q.checkpoint = requests[r].checkpoint

Settled(q, r, b) ==
  IF WaitsFor(q, r, b)
    THEN [q EXCEPT !.promises = Restrict(@, DOMAIN @ \ {b}),
                   !.final = [x \in DOMAIN @ \cup {b} |-> IF x = b THEN requests[r].results[b] ELSE @[x]]]
    ELSE q

(***************************************************************************)
(* The fetchMethod of one bucket goes on and returns: the value is cached, *)
(* unless its entry has been evicted.                                      *)
(***************************************************************************)
Resolve(r, b) ==
  LET key == <<b, requests[r].checkpoint>>
  IN /\ requests[r].step = "resolve"
     /\ b \in requests[r].toFetch
     /\ bucketCheckpoints' = [bucketCheckpoints EXCEPT ![b] = @ \cup {key[2]}]
     /\ cache' = [cache EXCEPT ![key] = IF @ = r THEN requests[r].results[b] ELSE @]
     /\ requests' = [q \in Requests |->
          LET s == Settled(requests[q], r, b)
          IN IF q # r THEN s
             ELSE [s EXCEPT !.toFetch = @ \ {b}, !.step = IF s.toFetch = {b} THEN "settle" ELSE @]]
     /\ UNCHANGED <<compactVars, calls, losses>>

\* (mutant: only its own call hears of the failure)
FetchFails_Unheard(r) ==
  /\ requests[r].step = "fetch" /\ losses < MaxLosses
  /\ cache' = [key \in Keys |-> IF cache[key] = r THEN None ELSE cache[key]]
  /\ requests' = [requests EXCEPT ![r] = IdleRequest]
  /\ losses' = losses + 1
  /\ UNCHANGED <<compactVars, bucketCheckpoints, calls>>

\* The query fails: so do all promises of the request, and their entries go.
FetchFails(r) ==
  /\ requests[r].step = "fetch" /\ losses < MaxLosses
  /\ cache' = [key \in Keys |-> IF cache[key] = r THEN None ELSE cache[key]]
  /\ requests' = [q \in Requests |->
       LET lost == {b \in requests[r].toFetch : WaitsFor(requests[q], r, b)}
           s == [requests[q] EXCEPT !.promises = Restrict(@, DOMAIN @ \ lost)]
       IN IF q = r THEN [s EXCEPT !.step = "settle", !.toFetch = {}] ELSE s]
  /\ losses' = losses + 1
  /\ UNCHANGED <<compactVars, bucketCheckpoints, calls>>

\* All promises are settled: the call returns, or throws when one was rejected.
Return(r) ==
  /\ requests[r].step = "settle" /\ requests[r].promises = << >>
  /\ requests' = [requests EXCEPT ![r] = IdleRequest]
  /\ UNCHANGED <<compactVars, cache, bucketCheckpoints, calls, losses>>

(***************************************************************************)
(* The cache is full and drops an entry, whichever it is. dispose() is     *)
(* called for values only; a fetch goes on, for those who wait for it.     *)
(***************************************************************************)
Evict(b, k) ==
  /\ losses < MaxLosses
  /\ cache[<<b, k>>] # None
  /\ cache' = [cache EXCEPT ![<<b, k>>] = None]
  /\ bucketCheckpoints' = IF Fetched(<<b, k>>) THEN [bucketCheckpoints EXCEPT ![b] = @ \ {k}] ELSE bucketCheckpoints
  /\ losses' = losses + 1
  /\ UNCHANGED <<compactVars, requests, calls>>

\* ttl: the value is not used again; its checkpoint is forgotten later.
Expire(b, k) ==
  /\ losses < MaxLosses
  /\ Fetched(<<b, k>>)
  /\ cache' = [cache EXCEPT ![<<b, k>>] = None]
  /\ losses' = losses + 1
  /\ UNCHANGED <<compactVars, bucketCheckpoints, requests, calls>>

Clear ==
  /\ losses < MaxLosses
  /\ cache' = [key \in Keys |-> None]
  /\ bucketCheckpoints' = [b \in Buckets |-> {}]
  /\ losses' = losses + 1
  /\ UNCHANGED <<compactVars, requests, calls>>

CacheNext ==
  \/ CompactNext /\ UNCHANGED cacheVars
  \/ \E r \in Requests, k \in 1..checkpoint, buckets \in RequestSets : GetChecksumMap(r, k, buckets)
  \/ \E r \in Requests : FetchChecksums(r) \/ FetchFails(r) \/ (\E b \in Buckets : Resolve(r, b)) \/ Return(r)
  \/ \E b \in Buckets, k \in Checkpoints : Evict(b, k) \/ Expire(b, k)
  \/ Clear

CacheSpec == CacheInit /\ [][CacheNext]_allVars

-----------------------------------------------------------------------------
CacheTypeOK ==
  /\ cache \in [Keys -> BucketChecksum \cup Requests \cup {None}]
  /\ \A b \in Buckets : bucketCheckpoints[b] \subseteq Checkpoints
  /\ \A r \in Requests :
       /\ requests[r].step \in {"idle", "fetch", "resolve", "settle"}
       /\ requests[r].toFetch \subseteq DOMAIN requests[r].promises
       /\ \A b \in DOMAIN requests[r].final : requests[r].final[b] \in BucketChecksum

(***************************************************************************)
(* A checksum, cached or answered, is that of the bucket at its            *)
(* checkpoint, whenever the part it starts from was computed and whatever  *)
(* the compactor did in between; and its count is not below what a reader  *)
(* gets. The exception is a checkpoint that a CLEAR has overtaken, whose   *)
(* data is incomplete too.                                                 *)
(***************************************************************************)
IsChecksumOf(c, b, k) ==
  \/ IsOvertaken(b, k)
  \/ /\ c.checksum = SumChecksums(Between(log[b], 0, k))
     /\ c.count >= Cardinality(Between(bucket_data[b], 0, k))

ChecksumsExact ==
  /\ \A key \in Keys : Fetched(key) => IsChecksumOf(cache[key], key[1], key[2])
  /\ \A r \in Requests : \A b \in DOMAIN requests[r].final :
       IsChecksumOf(requests[r].final[b], b, requests[r].checkpoint)

(***************************************************************************)
(* No call waits for ever: whoever it waits for is still fetching that     *)
(* bucket at that checkpoint, and will tell it the result, also when the   *)
(* entry was evicted and is fetched again by another call.                 *)
(***************************************************************************)
NoLostWaiter ==
  \A r \in Requests : \A b \in DOMAIN requests[r].promises :
    LET q == requests[requests[r].promises[b]]
    IN q.step \in {"fetch", "resolve"} /\ b \in q.toFetch /\ q.checkpoint = requests[r].checkpoint
=============================================================================
