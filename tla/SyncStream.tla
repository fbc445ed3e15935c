------------------------------ MODULE SyncStream ------------------------------
(***************************************************************************)
(* A sync stream (packages/service-core/src/sync: streamResponseInner and  *)
(* BucketChecksumState) from Postgres storage to one client, while         *)
(* replication commits checkpoints and compactors rewrite the buckets.     *)
(*                                                                         *)
(* The server sends its lines in order and learns nothing from the client, *)
(* so a line is received in the step that sends it; a connection that      *)
(* breaks loses the lines that would have followed.                        *)
(***************************************************************************)
EXTENDS PostgresCompactor

CONSTANTS
  BucketSets,     \* what the parameter queries of the user may return
  Priority,       \* [Buckets -> Nat], 0 is the highest
  BatchLimit,     \* rows of a bucket data query
  ChunkLimit,     \* rows of a data line
  RaceAfter,      \* operations after which the next checkpoint may interrupt (1000)
  NotifyLag,      \* whether notifications of checkpoints may arrive late
  MaxDisconnects  \* bound on connections that break

ASSUME BucketsAssumption ==
  Buckets \subseteq Nat /\ \A buckets \in BucketSets : buckets \subseteq Buckets /\ IsFiniteSet(buckets)
ASSUME PriorityAssumption == Priority \in [Buckets -> Nat]
ASSUME StreamLimitsAssumption ==
  BatchLimit \in Nat \ {0} /\ ChunkLimit \in Nat \ {0} /\ RaceAfter \in Nat /\ MaxDisconnects \in Nat
ASSUME LagAssumption == NotifyLag \in BOOLEAN

VARIABLES
  bucketsAt,   \* the user's buckets at every checkpoint there was
  conn,        \* the connection, on the server
  client,      \* the client, whose data survives its connections
  disconnects

streamVars == <<bucketsAt, conn, client, disconnects>>
vars == <<compactVars, streamVars>>

(***************************************************************************)
(* conn.step is the position in the loop of streamResponseInner, and       *)
(* conn.builder that of nextCheckpointPromise: not started, waiting for    *)
(* the watcher, inside buildNextCheckpointLine, or resolved with a line.   *)
(***************************************************************************)
NoLine == [checkpoint |-> 0, full |-> FALSE, sums |-> << >>, updated |-> {}, removed |-> {}, fetch |-> {}]

Closed ==
  [step |-> "closed", after |-> << >>, builder |-> "off", watched |-> -1, next |-> NoLine, line |-> NoLine,
   lastChecksums |-> << >>, hasSent |-> FALSE, positions |-> << >>, pending |-> {}, todo |-> {},
   rows |-> {}, isFull |-> FALSE, hasMore |-> FALSE, invalidated |-> FALSE, synced |-> 0, aborted |-> FALSE]

Init ==
  /\ CompactInit
  /\ \E buckets \in BucketSets : bucketsAt = [k \in {0} |-> buckets]
  /\ conn = Closed
  /\ client = [target |-> << >>, checkpoint |-> 0, data |-> << >>, applied |-> << >>, isComplete |-> FALSE]
  /\ disconnects = 0

\* Parameter lookups change with the operations of a checkpoint.
CommitParameters ==
  /\ Commit
  /\ \E buckets \in BucketSets :
       bucketsAt' = [k \in DOMAIN bucketsAt \cup {checkpoint'} |-> IF k = checkpoint' THEN buckets ELSE bucketsAt[k]]
  /\ UNCHANGED <<conn, client, disconnects>>

(***************************************************************************)
(* The client.                                                             *)
(***************************************************************************)
Get(f, b, default) == IF b \in DOMAIN f THEN f[b] ELSE default

NoData == [position |-> 0, reduced |-> EmptyBucket]

\* A checkpoint replaces what the client knows, a checkpoint_diff changes it.
\* Buckets that are no longer part of it are deleted.
ReceiveLine(line) ==
  LET buckets == IF line.full THEN DOMAIN line.sums ELSE (DOMAIN client.target \ line.removed) \cup line.updated
      target == [b \in buckets |-> IF line.full \/ b \in line.updated THEN line.sums[b] ELSE client.target[b]]
  IN client' = [client EXCEPT !.target = target, !.checkpoint = line.checkpoint,
                              !.data = [b \in DOMAIN @ \cap buckets |-> @[b]]]

ReceiveData(b, ops) ==
  LET old == Get(client.data, b, NoData)
      new == [position |-> LastOp(ops).op_id, reduced |-> Reduce(old.reduced, ops)]
  IN client' = [client EXCEPT !.data = [d \in DOMAIN @ \cup {b} |-> IF d = b THEN new ELSE @[d]]]

IsValid(b) == ReducedChecksum(Get(client.data, b, NoData).reduced) = client.target[b].checksum

Shown(b) == [checkpoint |-> client.checkpoint, content |-> Content(Get(client.data, b, NoData).reduced)]

\* Publish the buckets when all their checksums match; else drop the buckets
\* that do not match, and connect again.
ReceiveComplete(buckets, isComplete, continue) ==
  IF \A b \in buckets : IsValid(b)
    THEN /\ client' = [client EXCEPT
              !.applied = IF isComplete THEN [b \in buckets |-> Shown(b)]
                          ELSE [b \in DOMAIN @ \cup buckets |-> IF b \in buckets THEN Shown(b) ELSE @[b]],
              !.isComplete = isComplete]
         /\ conn' = continue
    ELSE /\ client' = [client EXCEPT !.data = [b \in {d \in DOMAIN @ : d \in buckets => IsValid(d)} |-> @[b]]]
         /\ conn' = Closed

Connect ==
  /\ conn.step = "closed"
  /\ LET after == [b \in DOMAIN client.data |-> client.data[b].position]
     IN conn' = [Closed EXCEPT !.step = "idle", !.after = after, !.positions = after]
  /\ client' = [client EXCEPT !.target = << >>]
  /\ UNCHANGED <<compactVars, bucketsAt, disconnects>>

Disconnect ==
  /\ disconnects < MaxDisconnects
  /\ conn.step # "closed"
  /\ conn' = Closed
  /\ disconnects' = disconnects + 1
  /\ UNCHANGED <<compactVars, bucketsAt, client>>

(***************************************************************************)
(* waitForNewCheckpointLine: the watcher yields a checkpoint, then the     *)
(* line is built with its checksums.                                       *)
(***************************************************************************)
StartBuilder ==
  /\ conn.step = "idle"
  /\ conn.builder = "off"
  /\ conn' = [conn EXCEPT !.builder = "watching"]
  /\ UNCHANGED <<compactVars, bucketsAt, client, disconnects>>

Watchable == IF NotifyLag THEN {k \in DOMAIN bucketsAt : k > conn.watched} ELSE {checkpoint} \ {conn.watched}

WatchCheckpoint ==
  /\ conn.builder = "watching"
  /\ \E k \in Watchable : conn' = [conn EXCEPT !.builder = "building", !.watched = k]
  /\ UNCHANGED <<compactVars, bucketsAt, client, disconnects>>

\* (mutant: counts the operations before the checkpoint only)
Checksum_Exclusive(b, k) ==
  LET ops == Between(bucket_data[b], 0, k - 1) IN [checksum |-> SumChecksums(ops), count |-> Cardinality(ops)]

Checksum(b, k) ==
  LET ops == Between(bucket_data[b], 0, k) IN [checksum |-> SumChecksums(ops), count |-> Cardinality(ops)]

\* (mutant: the diff names no removed buckets)
Removed_None(sums) == {}

Removed(sums) == DOMAIN conn.lastChecksums \ DOMAIN sums

\* (mutant: keeps the downloads of buckets that the user no longer has)
Fetch_Removed(updated, sums) == IF conn.hasSent THEN updated \cup conn.pending ELSE DOMAIN sums

\* (mutant: forgets what the last line left to download)
Fetch_Changed(updated, sums) == IF conn.hasSent THEN updated ELSE DOMAIN sums

Fetch(updated, sums) == IF conn.hasSent THEN updated \cup (conn.pending \cap DOMAIN sums) ELSE DOMAIN sums

InLine == conn.step \in {"batch", "sending"}

\* A line that changes nothing is not sent, and the wait goes on. Otherwise it
\* interrupts the line that is being downloaded.
BuildLine ==
  /\ conn.builder = "building"
  /\ LET k == conn.watched
         sums == [b \in bucketsAt[k] |-> Checksum(b, k)]
         updated == {b \in DOMAIN sums : b \in DOMAIN conn.lastChecksums => conn.lastChecksums[b] # sums[b]}
         removed == Removed(sums)
     IN conn' = IF conn.hasSent /\ updated = {} /\ removed = {} THEN [conn EXCEPT !.builder = "watching"]
                ELSE [conn EXCEPT
                        !.builder = "ready", !.aborted = InLine,
                        !.next = [checkpoint |-> k, full |-> ~conn.hasSent, sums |-> sums, updated |-> updated,
                                  removed |-> removed, fetch |-> Fetch(updated, sums)]]
  /\ UNCHANGED <<compactVars, bucketsAt, client, disconnects>>

(***************************************************************************)
(* The loop: advance() and the checkpoint line, then batches of data, one  *)
(* priority after the other.                                               *)
(***************************************************************************)
\* (mutant: keeps the positions of buckets that the user no longer has)
Positions_Kept(sums) == [b \in DOMAIN conn.positions \cup DOMAIN sums |-> Get(conn.positions, b, 0)]

Positions(sums) == [b \in DOMAIN sums |-> Get(conn.positions, b, 0)]

SendLine ==
  /\ conn.step = "idle"
  /\ conn.builder = "ready"
  /\ LET line == conn.next
     IN /\ conn' = [conn EXCEPT
              !.step = "batch", !.builder = "off", !.next = NoLine, !.line = line,
              !.lastChecksums = line.sums, !.hasSent = TRUE, !.positions = Positions(line.sums),
              !.pending = line.fetch, !.todo = line.fetch, !.synced = 0, !.aborted = FALSE]
        /\ ReceiveLine(line)
  /\ UNCHANGED <<compactVars, bucketsAt, disconnects>>

\* The buckets of the highest priority that is left; none if there is no data.
CurrentBuckets == {b \in conn.todo : \A d \in conn.todo : Priority[b] <= Priority[d]}
IsLastPriority == \A b \in conn.todo : b \in CurrentBuckets

Before(p, q) == p[1] < q[1] \/ (p[1] = q[1] /\ p[2].op_id < q[2].op_id)

(***************************************************************************)
(* getBucketDataBatch: one query, ordered by bucket and op id.             *)
(***************************************************************************)
\* (mutant: no upper bound)
QueryRows_Unbounded(limit) ==
  LET all == UNION {{<<b, o>> : o \in Between(bucket_data[b], conn.positions[b], op_id)} :
                      b \in CurrentBuckets \cap DOMAIN conn.positions}
  IN {p \in all : Cardinality({q \in all : Before(q, p)}) < limit}

QueryRows(limit) ==
  LET all == UNION {{<<b, o>> : o \in Between(bucket_data[b], conn.positions[b], conn.line.checkpoint)} :
                      b \in CurrentBuckets \cap DOMAIN conn.positions}
  IN {p \in all : Cardinality({q \in all : Before(q, p)}) < limit}

StartBatch ==
  /\ conn.step = "batch"
  /\ ~conn.aborted
  /\ conn' = [conn EXCEPT !.step = "sending", !.rows = QueryRows(BatchLimit),
                !.isFull = Cardinality(QueryRows(BatchLimit)) = BatchLimit, !.hasMore = FALSE, !.invalidated = FALSE]
  /\ UNCHANGED <<compactVars, bucketsAt, client, disconnects>>

Interrupt ==
  /\ conn.step = "batch"
  /\ conn.aborted
  /\ conn' = [conn EXCEPT !.step = "idle"]
  /\ UNCHANGED <<compactVars, bucketsAt, client, disconnects>>

\* A data line. Afterwards the wait for the next checkpoint may start.
SendChunk ==
  /\ conn.step = "sending"
  /\ conn.rows # {}
  /\ LET first == CHOOSE p \in conn.rows : \A q \in conn.rows : ~Before(q, p)
         b == first[1]
         chunk == {p \in conn.rows : p[1] = b /\ Cardinality({q \in conn.rows : Before(q, p)}) < ChunkLimit}
         ops == {p[2] : p \in chunk}
         rest == conn.rows \ chunk
         more == IF rest = {} THEN conn.isFull ELSE \E p \in rest : p[1] = b
         synced == Min({RaceAfter, conn.synced + Cardinality(ops)})
     IN /\ ReceiveData(b, ops)
        /\ conn' = [conn EXCEPT
              !.rows = IF conn.aborted THEN {} ELSE rest,
              !.step = IF conn.aborted THEN "idle" ELSE "sending",
              !.hasMore = @ \/ more,
              !.invalidated = @ \/ MaxTarget(ops) > conn.line.checkpoint,
              !.positions[b] = LastOp(ops).op_id,
              !.pending = IF more THEN @ ELSE @ \ {b},
              !.synced = synced,
              !.builder = IF synced >= RaceAfter /\ @ = "off" THEN "watching" ELSE @]
  /\ UNCHANGED <<compactVars, bucketsAt, disconnects>>

\* (mutant: completes a line whatever its operations point at)
IsUsable_Always == TRUE

IsUsable == ~conn.invalidated

\* The buckets of a checkpoint_complete, or of a partial_checkpoint_complete.
Completed ==
  {b \in DOMAIN client.target : IsLastPriority \/ \A d \in CurrentBuckets : Priority[b] <= Priority[d]}

EndBatch ==
  /\ conn.step = "sending"
  /\ conn.rows = {}
  /\ IF conn.hasMore THEN conn' = [conn EXCEPT !.step = "batch"] /\ UNCHANGED client
     ELSE IF ~IsUsable THEN conn' = [conn EXCEPT !.step = "idle"] /\ UNCHANGED client
     ELSE IF IsLastPriority THEN ReceiveComplete(Completed, TRUE, [conn EXCEPT !.step = "idle"])
     ELSE ReceiveComplete(Completed, FALSE, [conn EXCEPT !.step = "batch", !.todo = @ \ CurrentBuckets])
  /\ UNCHANGED <<compactVars, bucketsAt, disconnects>>

ServerNext ==
  \/ StartBuilder
  \/ WatchCheckpoint
  \/ BuildLine
  \/ SendLine
  \/ StartBatch
  \/ Interrupt
  \/ SendChunk
  \/ EndBatch

StorageNext ==
  \/ op_id < MaxOp /\ Flush /\ UNCHANGED streamVars
  \/ CommitParameters
  \/ \E c \in Compactors : CompactStep(c) /\ UNCHANGED streamVars

Next == StorageNext \/ Connect \/ Disconnect \/ ServerNext

Spec == Init /\ [][Next]_vars
FairSpec == Spec /\ WF_vars(Connect) /\ WF_vars(ServerNext)

-----------------------------------------------------------------------------
SyncTypeOK ==
  /\ CompactTypeOK
  /\ DOMAIN bucketsAt \subseteq 0..checkpoint /\ {0, checkpoint} \subseteq DOMAIN bucketsAt
  /\ \A k \in DOMAIN bucketsAt : bucketsAt[k] \in BucketSets
  /\ conn.step \in {"closed", "idle", "batch", "sending"}
  /\ conn.builder \in {"off", "watching", "building", "ready"}
  /\ conn.watched \in DOMAIN bucketsAt \cup {-1}
  /\ conn.todo \subseteq Buckets /\ conn.pending \subseteq DOMAIN conn.lastChecksums
  /\ DOMAIN client.data \cup DOMAIN client.applied \cup DOMAIN client.target \subseteq Buckets
  /\ disconnects \in 0..MaxDisconnects

(***************************************************************************)
(* The positions that the server keeps for a connection are those of the   *)
(* client: updateBucketPosition after each data line, advance() when       *)
(* buckets come and go. If they differed, operations would be sent twice   *)
(* or skipped.                                                             *)
(***************************************************************************)
PositionsAgree ==
  conn.hasSent => conn.positions = [b \in DOMAIN conn.lastChecksums |-> Get(client.data, b, NoData).position]

(***************************************************************************)
(* A bucket that the current line does not download is up to date: its     *)
(* checksum at the client is already that of the line, whatever lines were *)
(* interrupted before it (pendingBucketDownloads).                         *)
(***************************************************************************)
IsCurrent(b) == ReducedChecksum(Get(client.data, b, NoData).reduced) = conn.lastChecksums[b].checksum

SkippedIsCurrent ==
  conn.step \in {"batch", "sending"} =>
    \A b \in DOMAIN conn.lastChecksums \ conn.line.fetch :
      IsCurrent(b)

(***************************************************************************)
(* Whenever a line completes, in full or for a priority, the client has    *)
(* been sent what the buckets were at the checkpoint of the line, before   *)
(* it looks at any checksum. Left out are buckets that the client had past *)
(* the checkpoint when it connected, from a server that was notified       *)
(* earlier, and those that a CLEAR has overtaken: see                      *)
(* StaleReadsInvalidated.                                                  *)
(***************************************************************************)
DownloadsConsistent ==
  conn.step = "sending" /\ conn.rows = {} /\ ~conn.hasMore /\ IsUsable =>
    \A b \in Completed :
      \/ Get(conn.after, b, 0) > conn.line.checkpoint
      \/ IsOvertaken(b, conn.line.checkpoint)
      \/ Content(Get(client.data, b, NoData).reduced) = Content(Original(b, conn.line.checkpoint))

(***************************************************************************)
(* What the client publishes is what the bucket was at the checkpoint, or  *)
(* a CLEAR has overtaken it. Checksums do not see to that: a MOVE keeps    *)
(* the checksum of the operation it replaces.                              *)
(***************************************************************************)
PublishesConsistent ==
  [][\A b \in DOMAIN client'.applied :
       LET shown == client'.applied[b]
       IN \/ b \in DOMAIN client.applied /\ client.applied[b] = shown
          \/ IsOvertaken(b, shown.checkpoint)
          \/ shown.content = Content(Original(b, shown.checkpoint))]_vars

(***************************************************************************)
(* A full completion publishes the user's buckets of its checkpoint, all   *)
(* of them and no other, whatever diffs and interrupted lines led to it.   *)
(***************************************************************************)
CompletesAll ==
  [][client'.isComplete /\ client'.applied # client.applied =>
       /\ DOMAIN client'.applied = bucketsAt[client'.checkpoint]
       /\ \A b \in DOMAIN client'.applied : client'.applied[b].checkpoint = client'.checkpoint]_vars

(***************************************************************************)
(* When nothing more is committed, the client ends up with the content of  *)
(* the last checkpoint, whatever interrupted or invalidated the lines      *)
(* before.                                                                 *)
(***************************************************************************)
IsSynced ==
  /\ client.isComplete
  /\ DOMAIN client.applied = bucketsAt[checkpoint]
  /\ \A b \in DOMAIN client.applied : client.applied[b].content = Content(Original(b, checkpoint))

EventuallySynced == <>[]IsSynced
=============================================================================
