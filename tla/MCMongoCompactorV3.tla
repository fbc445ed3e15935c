------------------------- MODULE MCMongoCompactorV3 -------------------------
(* Small instances of MongoCompactorV3. *)
EXTENDS MongoCompactorV3

\* Powers of ten: a sum tells how often each operation was counted.
MCHash == [p \in Rows \X (Values \cup {None}) |-> IF p[2] = None THEN 10 ^ (2 * p[1] - 2) ELSE 10 ^ (2 * p[1] - 1)]
=============================================================================
