---------------------------- MODULE MCCheckpoints ----------------------------
(* Small instances of Checkpoints. *)
EXTENDS Checkpoints

=============================================================================
