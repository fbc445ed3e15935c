----------------------- MODULE MCReplicationLifecycle -----------------------
(* Instances of ReplicationLifecycle for TLC. *)
EXTENDS ReplicationLifecycle

MCStreams == 1..2
MCStreams3 == 1..3
MCLockIds == 1..3
MCOneConfig == {1}
MCConfigs == {1, 2}
MCApi == {[p \in Processes |-> None]}
\* A rolling deploy of configuration 2 from files, or deploys by the API
MCRolling == MCApi \cup {CHOOSE f \in [Processes -> MCConfigs] : \E p, q \in Processes : f[p] # f[q]}
=============================================================================
