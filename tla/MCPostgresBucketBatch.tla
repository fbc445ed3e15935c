------------------------ MODULE MCPostgresBucketBatch ------------------------
(* A small instance of PostgresBucketBatch: one table with one row that is in one or two buckets. *)
EXTENDS PostgresBucketBatch

MCTableOf == [r \in Rows |-> "t1"]
MCEvaluateRow == [x \in Xs |-> IF x = 1 THEN {"b1"} ELSE {"b1", "b2"}]
=============================================================================
