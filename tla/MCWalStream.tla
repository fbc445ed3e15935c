---------------------------- MODULE MCWalStream ----------------------------
(* Small instances of WalStream. *)
EXTENDS WalStream

OneTable == [r \in Rows |-> "t1"]
TableEach == [r \in Rows |-> IF r = 1 THEN "t1" ELSE "t2"]
OneBucket == [x \in Xs |-> {"b1"}]
BucketEach == [x \in Xs |-> IF x = 1 THEN {"b1"} ELSE {"b2"}]
SomeBucket == [x \in Xs |-> IF x = 1 THEN {"b1"} ELSE {}]
=============================================================================
