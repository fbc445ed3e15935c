-------------------------- MODULE MCMongoReplication --------------------------
(* Instances of MongoReplication for TLC. *)
EXTENDS MongoReplication

MCOneConfig == [t \in Tables |-> CHOOSE c \in Configs : TRUE]
MCTwoConfigs == CHOOSE f \in [Tables -> Configs] : \A t, u \in Tables : f[t] = f[u] => t = u

\* Only the first table is written to and dropped.
First == CHOOSE t \in Tables : TRUE
Second == CHOOSE t \in Tables : t # First

Scenario(synced, present, writes, drops, markers, starts) ==
  [synced |-> synced, present |-> present,
   writes |-> [t \in Tables |-> IF t = First THEN writes ELSE 0],
   docs |-> Docs, drops |-> [t \in Tables |-> IF t = First THEN drops ELSE 0],
   markers |-> markers, starts |-> starts]

New == {}

\* Two documents are copied while one changes; with a restart, while the last one does.
Copy == Scenario(New, <<<<First, 1>>, <<First, 2>>>>, 1, 0, 0, 1)
CopyAgain == [Copy EXCEPT !.starts = 2, !.docs = {2}]
\* A collection comes into being while another one is copied: the change stream resolves and
\* queues it while the snapshot is marked as done.
Appears == Scenario(New, <<<<Second, 1>>>>, 1, 0, 0, 1)
\* A collection is dropped and comes back, and is copied while it changes.
Recreate == Scenario(Configs, <<>>, 2, 1, 0, 1)
\* Markers of others between the events.
Markers == Scenario(Configs, <<>>, 1, 1, 1, 1)
\* Changes, with a restart.
Restart == Scenario(Configs, <<>>, 2, 0, 0, 2)

MCScenarios == {Copy, CopyAgain, Appears, Recreate, Markers, Restart}

\* A collection is dropped while it is copied.
MCDropped == {Scenario(New, <<<<First, 1>>>>, 0, 1, 0, 1)}
\* A collection is dropped before a restart, when its copy is not complete.
MCStuck == {Scenario(New, <<<<First, 1>>>>, 0, 1, 0, 2)}
\* A config is added to the stream of another.
MCShared == {Scenario({ConfigOf[First]}, <<<<Second, 1>>>>, 1, 0, 0, 1)}
=============================================================================
