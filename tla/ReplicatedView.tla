---------------------------- MODULE ReplicatedView ----------------------------
(***************************************************************************)
(* What replication promises to the clients of a stream: at any time they  *)
(* see the sync config's view of one single state of the source, at a      *)
(* position that only moves forward. This is the meaning of the storage    *)
(* checkpoint and of its lsn, ReplicationCheckpoint in                     *)
(* packages/service-core/src/storage/SyncRulesBucketStorage.ts.            *)
(***************************************************************************)
EXTENDS Naturals, Sequences

CONSTANTS
  SourceStates,
  Evaluate(_)  \* the sync config, applied to a state of the source

VARIABLES
  history,   \* the states of the source; the position of a state is its index
  position,  \* the position clients see, 0 before the first checkpoint
  view       \* the data clients see

vars == <<history, position, view>>

Init ==
  /\ history \in {<<s>> : s \in SourceStates}
  /\ position = 0
  /\ view = {}

SourceChange ==
  /\ \E s \in SourceStates : history' = Append(history, s)
  /\ UNCHANGED <<position, view>>

Publish ==
  /\ \E p \in 1..Len(history) :
       /\ position <= p
       /\ position' = p
       /\ view' = Evaluate(history[p])
  /\ UNCHANGED history

Next == SourceChange \/ Publish

Spec == Init /\ [][Next]_vars
=============================================================================
