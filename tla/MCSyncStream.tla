----------------------------- MODULE MCSyncStream -----------------------------
(* Small instances of SyncStream. *)
EXTENDS SyncStream

\* Powers of ten: a sum tells how often each operation was counted.
MCHash == [p \in Rows \X (Values \cup {None}) |-> IF p[2] = None THEN 10 ^ (2 * p[1] - 2) ELSE 10 ^ (2 * p[1] - 1)]

\* Bucket n has priority n.
MCPriority == [b \in Buckets |-> b]

\* Bucket 2 comes and goes.
MCBucketSets == {{1}, {1, 2}}

MCOneBucket == {{1}}
=============================================================================
