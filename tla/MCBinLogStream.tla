---------------------------- MODULE MCBinLogStream ----------------------------
(* Instances of BinLogStream for TLC. *)
EXTENDS BinLogStream, TLC

NoBudget == [dml |-> 0, long |-> 0, create |-> 0, drop |-> 0, truncate |-> 0, alter |-> 0,
             rename |-> 0, swap |-> 0, rotate |-> 0, purge |-> 0, crash |-> 0, offline |-> 0]

Scenario(synced, tables, given) ==
  [synced |-> synced, tables |-> tables, budget |-> given @@ NoBudget]

First == CHOOSE t \in Matched : TRUE
Second == CHOOSE t \in Matched : t # First
Other == CHOOSE t \in Tables : t \notin Matched

\* A new stream, with writes and a restart during its snapshot.
Snapshot == Scenario(FALSE, {First, Second}, [dml |-> 2, crash |-> 1])
\* Two transactions, or a long one, with a restart.
Stream == Scenario(TRUE, {First}, [dml |-> 2, crash |-> 1])
Long == Scenario(TRUE, {First, Second}, [dml |-> 1, long |-> 1, crash |-> 1])
\* A table is created and written to.
New == Scenario(TRUE, {First}, [create |-> 1, dml |-> 2, crash |-> 1])
\* A table gets another name, one comes in under a name of the sync config, two tables
\* change places, or a table changes its key or its columns.
Renamed == Scenario(TRUE, {First}, [rename |-> 1, dml |-> 2])
RenamedIn == Scenario(TRUE, {Other}, [rename |-> 1, dml |-> 1])
Swapped == Scenario(TRUE, {First, Second}, [swap |-> 1, dml |-> 1])
Altered == Scenario(TRUE, {First}, [alter |-> 1, dml |-> 2])
Truncated == Scenario(TRUE, {First}, [truncate |-> 1, dml |-> 2, crash |-> 1])
Dropped == Scenario(TRUE, {First, Second}, [drop |-> 1, create |-> 1, dml |-> 1])
\* The binlog is rotated and purged while the job is down or running.
Purged == Scenario(TRUE, {First}, [dml |-> 1, rotate |-> 1, purge |-> 1, crash |-> 1])

\* A table is created and dropped again, and never written to.
Unused == Scenario(TRUE, {First}, [create |-> 1, drop |-> 1])
\* A table changes its key, or the binlog is rotated, while the job does not stream.
AlteredOffline == Scenario(TRUE, {First}, [alter |-> 1, dml |-> 1, offline |-> 1])
RotatedSnapshot == Scenario(FALSE, {First}, [rotate |-> 1, offline |-> 1])

LiveScenarios ==
  {Snapshot, Stream, Long, New, Renamed, RenamedIn, Swapped, Altered, Truncated, Dropped, Purged, Unused}
SnapshotOnly == {Snapshot}
NewOnly == {New}
LongOnly == {Long}
UnusedOnly == {Unused}
AlteredOfflineOnly == {AlteredOffline}
RotatedOnly == {RotatedSnapshot}
===============================================================================
