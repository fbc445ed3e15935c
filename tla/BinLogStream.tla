----------------------------- MODULE BinLogStream -----------------------------
(***************************************************************************)
(* Replication from MySQL: one job of BinLogStream.ts with its             *)
(* BinLogListener.ts.  The listener reads the binlog through Zongji into a *)
(* queue with one worker; it is paused when the queue is full and while a  *)
(* schema change is handled, and restarted from the position of the last   *)
(* event that was processed.                                               *)
(*                                                                         *)
(* The source is its binlog, a sequence of events, and its state after     *)
(* each transaction.  A position, and the LSN of the GTID at it, is the    *)
(* number of events before it.  A version of a row is the transaction that *)
(* wrote it.                                                               *)
(*                                                                         *)
(* Storage is seen through the writer interface: the source table of each  *)
(* name, the rows the buckets hold, and the checkpoint with the rows as of *)
(* it.  StoresResume selects between MongoDB storage v3, where a blocked   *)
(* commit still records its LSN as the position to resume from, and        *)
(* Postgres storage (and MongoDB storage v1), where it does not.           *)
(* Operation ids are in PostgresBucketBatch; a change of the server's uuid *)
(* is left out, and so is activation.                                      *)
(*                                                                         *)
(* Zongji is a library: what it does is taken from how the listener and    *)
(* the tests use it.  It reads the table of a TABLE_MAP event as it is at  *)
(* present, and fails when that is gone or has other columns.  What it does *)
(* with row events whose TABLE_MAP it was not sent is unknown: it fails, or *)
(* leaves them out.                                                        *)
(***************************************************************************)
EXTENDS Naturals, FiniteSets, SequencesExt

CONSTANTS Tables,        \* names of tables in the source
          Matched,       \* those the sync config selects
          Keys,          \* keys of rows
          Scenarios,     \* where a behaviour starts, and its bounds (see Init)
          QueueLimit,    \* binlog_queue_memory_limit, in events
          StoresResume,  \* whether a blocked commit records where to resume
          None

ASSUME MatchedAssumption == Matched \subseteq Tables
ASSUME QueueAssumption == QueueLimit \in Nat \ {0}
ASSUME StorageAssumption == StoresResume \in BOOLEAN

VARIABLES
  binlog,    \* source: its events
  states,    \* source: states[n + 1] is its state after n transactions
  purged,    \* source: the position from which the binlog is still available
  store,     \* what the stream has in storage
  mem,       \* the rows of the buckets, with the batch that is not flushed yet
  job,       \* phase of the job, its snapshot, and the tables in its cache
  zongji,    \* the current Zongji: status, where it started, the next event to send
  listener,  \* BinLogListener: position, GTID, open transaction, who waits
  queue,     \* processingQueue; the head is the event being processed
  worker,    \* the queue's worker: what it does for the head
  budget     \* bounds: what is left of each kind of statement and fault

source == <<binlog, states, purged>>
reader == <<zongji, listener, queue, worker>>
vars == <<source, store, mem, job, reader, budget>>

-----------------------------------------------------------------------------
(* The source *)

Now == Len(binlog)
Head0 == states[Len(states)]    \* the present state

NoRows == [k \in Keys |-> None]

\* The rows of a table after a row event that removes one key and puts another.
Applied(rows, e) ==
  [k \in Keys |-> IF k = e.put THEN e.v ELSE IF k = e.del THEN None ELSE rows[k]]

\* The transactions up to position p: p is the end of one.
TxAt(p) == IF p = 0 THEN 0 ELSE binlog[p].tx

\* The sync config's view of a source state.
Evaluate(s) ==
  {<<t, k, s[t].rows[k]>> : <<t, k>> \in
     {x \in Matched \X Keys : s[x[1]] # None /\ s[x[1]].rows[x[2]] # None}}

\* A transaction: its GTID event and what follows, and the state after it.
Transaction(events, s) ==
  /\ binlog' = binlog \o [i \in 1..(Len(events) + 1) |->
                            IF i = 1 THEN [kind |-> "gtid", tx |-> Len(states)] ELSE events[i - 1]]
  /\ states' = Append(states, s)
  /\ UNCHANGED <<purged, store, mem, job, reader>>

Spend(what) ==
  /\ budget[what] > 0
  /\ budget' = [budget EXCEPT ![what] = @ - 1]

\* A bound: what the source does in these phases of the job, and at any time where the
\* scenario says so.
Observed(phases) == budget.offline > 0 \/ job.phase \in phases

\* A change of rows, without the position of its TABLE_MAP event.
Change(t, d, p) == [table |-> t, del |-> d, put |-> p, v |-> Len(states)]

\* One change of a row: an insert, a delete, or an update that may move the key.
Changes(s) ==
  UNION {{Change(t, d, p) : <<d, p>> \in
            {x \in (Keys \cup {None}) \X (Keys \cup {None}) :
               /\ x # <<None, None>>
               /\ x[1] # None => s[t].rows[x[1]] # None
               /\ x[2] # None /\ x[2] # x[1] => s[t].rows[x[2]] = None}}
         : t \in {t \in Matched : s[t] # None}}

Changed(s, c) == [s EXCEPT ![c.table].rows = Applied(@, c)]

Marker(kind) == [kind |-> kind, tx |-> Len(states)]

\* A statement's TABLE_MAP event, to be at this position.
TableMap(t) == [kind |-> "map", tx |-> Len(states), table |-> t, cols |-> Head0[t].cols]

\* Row events, of the statement whose TABLE_MAP is at this position.
RowsEvent(c, map) ==
  [kind |-> "rows", tx |-> Len(states), table |-> c.table, del |-> c.del, put |-> c.put,
   v |-> c.v, map |-> map]

\* A transaction of one change, of two statements, or of a statement whose rows take two
\* events behind one TABLE_MAP. Its GTID event is at Now + 1.
Dml ==
  /\ Spend("dml")
  /\ LET begin == Marker("begin")
         xid == Marker("xid")
         m == Now + 3
     IN  \E c \in Changes(Head0) :
           LET one == <<begin, TableMap(c.table), RowsEvent(c, m)>>
           IN  \/ Transaction(one \o <<xid>>, Changed(Head0, c))
               \/ \E d \in Changes(Changed(Head0, c)) :
                    /\ budget.long > 0
                    /\ \/ Transaction(one \o <<TableMap(d.table), RowsEvent(d, m + 2), xid>>,
                                      Changed(Changed(Head0, c), d))
                       \/ /\ d.table = c.table
                          /\ Transaction(one \o <<RowsEvent(d, m), xid>>,
                                         Changed(Changed(Head0, c), d))

\* A DDL statement: no BEGIN and no Xid event. "changes" is what toSchemaChanges()
\* makes of it, after the filter for tables that are not in the sync config.
Ddl(changes, s) ==
  Transaction(<<[kind |-> "query", tx |-> Len(states), changes |-> changes]>>, s)

SchemaChange(type, t, new) == [type |-> type, table |-> t, new |-> new]

Create ==
  /\ Spend("create")
  /\ \E t \in Matched :
       /\ Head0[t] = None
       /\ Ddl(<<>>, [Head0 EXCEPT ![t] = [ident |-> 1, cols |-> 1, rows |-> NoRows]])

DropTable ==
  /\ Spend("drop") /\ Observed({"streaming"})
  /\ \E t \in Matched :
       /\ Head0[t] # None
       /\ Ddl(<<SchemaChange("drop", t, None)>>, [Head0 EXCEPT ![t] = None])

TruncateTable ==
  /\ Spend("truncate")
  /\ \E t \in Matched :
       /\ Head0[t] # None
       /\ Ddl(<<SchemaChange("truncate", t, None)>>, [Head0 EXCEPT ![t].rows = NoRows])

\* The primary key becomes another one, or the columns of the table change.
Alter ==
  /\ Spend("alter") /\ Observed({"streaming"})
  /\ \E t \in Matched :
       /\ Head0[t] # None
       /\ \E s \in {[Head0 EXCEPT ![t].ident = @ + 1], [Head0 EXCEPT ![t].cols = @ + 1]} :
            Ddl(<<SchemaChange("alter", t, None)>>, s)

\* RENAME TABLE t TO u keeps the new name if it is one of the sync config's, and
\* ALTER TABLE t RENAME TO u keeps it anyway.
Rename ==
  /\ Spend("rename") /\ Observed({"streaming"})
  /\ \E t, u \in Tables :
       /\ Head0[t] # None /\ Head0[u] = None
       /\ \E new \in {u, IF u \in Matched THEN u ELSE None} :
            Ddl(IF {t, u} \cap Matched = {} THEN <<>> ELSE <<SchemaChange("rename", t, new)>>,
                [Head0 EXCEPT ![u] = Head0[t], ![t] = None])

\* RENAME TABLE t TO w, u TO t, w TO u: two tables change places in one statement.
Swap ==
  /\ Spend("swap") /\ Observed({"streaming"})
  /\ \E t, u, w \in Tables :
       /\ Head0[t] # None /\ Head0[u] # None /\ Head0[w] = None
       /\ t \in Matched /\ u \in Matched /\ w \notin Matched
       /\ Ddl(<<SchemaChange("rename", t, None), SchemaChange("rename", u, t),
                SchemaChange("rename", w, u)>>,
              [Head0 EXCEPT ![t] = Head0[u], ![u] = Head0[t]])

\* The server starts a new binlog file.
Rotate ==
  /\ Spend("rotate") /\ Observed({"down", "opening", "streaming"})
  /\ binlog' = Append(binlog, [kind |-> "rotate", tx |-> Len(states) - 1])
  /\ UNCHANGED <<states, purged, store, mem, job, reader>>

\* The server removes the binlog files before the present one, unless one is being read.
Purge ==
  /\ Spend("purge")
  /\ \E i \in {i \in 1..Now : binlog[i].kind = "rotate"} :
       /\ purged < i /\ (zongji.status = "running" => i < zongji.next)
       /\ purged' = i
  /\ UNCHANGED <<binlog, states, store, mem, job, reader>>

SourceNext ==
  \/ Dml \/ Create \/ DropTable \/ TruncateTable \/ Alter \/ Rename \/ Swap \/ Rotate \/ Purge

-----------------------------------------------------------------------------
(* Storage, as the connector uses it *)

EmptyStore ==
  [tables |-> [t \in Tables |-> None], rows |-> [t \in Tables |-> NoRows],
   snapshotDone |-> FALSE, noCheckpointBefore |-> 0, resume |-> None,
   checkpoint |-> None, seen |-> 0, lost |-> {}]

Larger(a, b) == IF a = None \/ a < b THEN b ELSE a

RowsOf(rows) ==
  {<<t, k, rows[t][k]>> : <<t, k>> \in {x \in Tables \X Keys : rows[x[1]][x[2]] # None}}

\* getStatus()
IsSnapshotDone == store.snapshotDone /\ store.checkpoint # None
ResumeLsn ==
  IF StoresResume THEN store.resume
  ELSE IF store.checkpoint = None THEN None ELSE store.checkpoint.lsn

\* (mutant: the boundary of the snapshots is not looked at)
CanCheckpoint_NoBoundary(st, lsn) ==
  /\ st.snapshotDone
  /\ st.checkpoint # None => st.checkpoint.lsn <= lsn

CanCheckpoint(st, lsn) ==
  /\ st.snapshotDone
  /\ st.checkpoint # None => st.checkpoint.lsn <= lsn
  /\ st.noCheckpointBefore <= lsn

\* commit() and keepalive(), on a store that is flushed.
Committed(st, lsn) ==
  [st EXCEPT
     !.resume = Larger(@, lsn),
     !.checkpoint = IF CanCheckpoint(st, lsn) THEN [lsn |-> lsn, rows |-> RowsOf(st.rows)] ELSE @]

Flushed == [store EXCEPT !.rows = mem]

\* drop(): the rows of the table and its source table.
DroppedFrom(st, t) == [st EXCEPT !.rows[t] = NoRows, !.tables[t] = None]

\* resolveTables() and the drop of what it found under this name: a source table with the
\* same replica identity is used again.
Resolved(st, t, ident) ==
  IF st.tables[t] # None /\ st.tables[t].ident = ident THEN st
  ELSE [st EXCEPT !.rows[t] = IF st.tables[t] = None THEN @ ELSE NoRows,
                  !.tables[t] = [ident |-> ident, done |-> FALSE]]

\* getReplicationIdentityColumns(): no columns when there is no such table.
IdentNow(t) == IF Head0[t] = None THEN 0 ELSE Head0[t].ident

\* getQualifiedTableNames() for every table of the sync config that exists.
MatchedNow == {t \in Matched : Head0[t] # None}
ResolvedAll(st) ==
  [st EXCEPT !.rows = [t \in Tables |-> IF t \in MatchedNow
                                          THEN Resolved(st, t, IdentNow(t)).rows[t] ELSE @[t]],
             !.tables = [t \in Tables |-> IF t \in MatchedNow
                                            THEN Resolved(st, t, IdentNow(t)).tables[t] ELSE @[t]]]

-----------------------------------------------------------------------------
JobInit == [phase |-> "down", head |-> None, view |-> None, todo |-> {}, cache |-> {}]
ZongjiInit == [status |-> "stopped", from |-> 0, next |-> 0]
ListenerInit == [pos |-> 0, gtid |-> 0, open |-> FALSE, closing |-> 0,
                 draining |-> FALSE, onDrain |-> FALSE]
WorkerInit == [step |-> "idle", table |-> None, change |-> 0, lsn |-> None]

\* The tables of a scenario exist and hold a row each. The stream is new, or in sync.
Init ==
  \E s \in Scenarios :
    /\ binlog = <<>> /\ purged = 0
    /\ states = <<[t \in Tables |->
                     IF t \in s.tables
                       THEN [ident |-> 1, cols |-> 1,
                             rows |-> [NoRows EXCEPT ![CHOOSE k \in Keys : TRUE] = 0]]
                       ELSE None]>>
    /\ store = IF s.synced
                 THEN Committed(
                   [EmptyStore EXCEPT
                      !.tables = [t \in Tables |-> IF t \in s.tables \cap Matched
                                                     THEN [ident |-> 1, done |-> TRUE] ELSE None],
                      !.rows = [t \in Tables |-> IF t \in s.tables \cap Matched
                                                   THEN Head0[t].rows ELSE NoRows],
                      !.snapshotDone = TRUE], 0)
                 ELSE EmptyStore
    /\ mem = store.rows
    /\ job = JobInit /\ zongji = ZongjiInit /\ listener = ListenerInit
    /\ queue = <<>> /\ worker = WorkerInit
    /\ budget = s.budget

\* The job ends: what is in memory is lost.
Ended ==
  /\ job' = JobInit /\ zongji' = ZongjiInit /\ listener' = ListenerInit
  /\ queue' = <<>> /\ worker' = WorkerInit

Fail == Ended /\ mem' = store.rows /\ UNCHANGED <<source, store, budget>>

Crash == job.phase # "down" /\ Spend("crash") /\ Ended /\ mem' = store.rows /\ UNCHANGED <<source, store>>

-----------------------------------------------------------------------------
(* The job: initReplication() and startInitialReplication() *)

\* checkInitialReplicated(): the snapshot is done, and where to resume is still available.
CanResume == IsSnapshotDone /\ (ResumeLsn # None => purged <= ResumeLsn)

Resume ==
  /\ job.phase = "down" /\ CanResume
  /\ store' = ResolvedAll(store)
  /\ mem' = store'.rows
  /\ job' = [job EXCEPT !.phase = "opening", !.cache = MatchedNow]
  /\ UNCHANGED <<source, reader, budget>>

StartSnapshot ==
  /\ job.phase = "down" /\ ~CanResume
  /\ store' = EmptyStore
  /\ mem' = store'.rows
  /\ job' = [job EXCEPT !.phase = "listing", !.head = Now]
  /\ UNCHANGED <<source, reader, budget>>

ListTables ==
  /\ job.phase = "listing"
  /\ store' = ResolvedAll(store)
  /\ job' = [job EXCEPT !.phase = "copying", !.todo = MatchedNow, !.cache = MatchedNow]
  /\ UNCHANGED <<source, mem, reader, budget>>

\* Whether a DDL statement from transaction n on concerns table t.
IsAltered(t, n) ==
  \E i \in 1..Now : /\ binlog[i].kind = "query" /\ binlog[i].tx >= n
                    /\ \E c \in ToSet(binlog[i].changes) : t \in {c.table, c.new}

\* snapshotTable() reads from the view of its transaction, which the first table fixes.
\* A table that was altered or dropped since then cannot be read.
CopyTable ==
  /\ job.phase = "copying"
  /\ \E t \in job.todo :
       LET view == IF job.view = None THEN Len(states) ELSE job.view
       IN  IF states[view][t] = None \/ IsAltered(t, view) THEN Fail
           ELSE /\ store' = [store EXCEPT !.rows[t] = states[view][t].rows,
                                          !.tables[t].done = TRUE,
                                          !.noCheckpointBefore = Larger(@, job.head)]
                /\ mem' = store'.rows
                /\ job' = [job EXCEPT !.view = view, !.todo = @ \ {t}]
                /\ UNCHANGED <<source, reader, budget>>

\* markSnapshotDone() with the position of now, then commit() with the position of the start.
FinishSnapshot ==
  /\ job.phase = "copying" /\ job.todo = {}
  /\ store' = Committed([store EXCEPT !.snapshotDone = TRUE,
                                      !.noCheckpointBefore = Larger(@, Now)], job.head)
  /\ job' = [job EXCEPT !.phase = "opening"]
  /\ UNCHANGED <<source, mem, reader, budget>>

\* streamChanges(): a listener from the recorded position, or from now.
OpenStream ==
  /\ job.phase = "opening"
  /\ LET from == IF ResumeLsn = None THEN Now ELSE ResumeLsn
     IN  IF from < purged THEN Fail
         ELSE /\ job' = [job EXCEPT !.phase = "streaming"]
              /\ zongji' = [status |-> "running", from |-> from, next |-> from + 1]
              /\ listener' = [ListenerInit EXCEPT !.pos = from, !.gtid = from]
              /\ UNCHANGED <<source, store, mem, queue, worker, budget>>

-----------------------------------------------------------------------------
(* Zongji and the queue *)

IsStreaming == job.phase = "streaming"

\* The handler of 'binlog': an event that fills the queue also stops Zongji.
Push(i, z) ==
  /\ queue' = Append(queue, i)
  /\ IF Len(queue) + 1 >= QueueLimit
       THEN /\ zongji' = [z EXCEPT !.status = "stopped"]
            /\ listener' = [listener EXCEPT !.closing = @ + 1]
       ELSE zongji' = z /\ UNCHANGED listener
  /\ UNCHANGED <<source, store, mem, job, worker, budget>>

\* Whether Zongji finds the table of a TABLE_MAP event with the columns it names.
IsCurrent(e) == Head0[e.table] # None /\ Head0[e.table].cols = e.cols

\* Whether this Zongji read such a table before: it may do without another look.
IsKnown(e) ==
  \E j \in (zongji.from + 1)..(zongji.next - 1) :
    binlog[j].kind = "map" /\ binlog[j].table = e.table /\ binlog[j].cols = e.cols

\* Whether this Zongji was sent the TABLE_MAP of a rows event.
IsMapped(e) == e.map > zongji.from

HasNext == IsStreaming /\ zongji.status = "running" /\ zongji.next <= Now
NextEvent == binlog[zongji.next]

SendEvent ==
  /\ HasNext
  /\ NextEvent.kind = "map" => IsCurrent(NextEvent) \/ IsKnown(NextEvent)
  /\ NextEvent.kind = "rows" => IsMapped(NextEvent)
  /\ Push(zongji.next, [zongji EXCEPT !.next = @ + 1])

\* Zongji cannot make anything of an event. The event stays the next one.
RefuseEvent ==
  /\ HasNext
  /\ \/ NextEvent.kind = "map" /\ ~IsCurrent(NextEvent)
     \/ NextEvent.kind = "rows" /\ ~IsMapped(NextEvent)
  /\ zongji' = [zongji EXCEPT !.status = "failed"]
  /\ UNCHANGED <<source, store, mem, job, listener, queue, worker, budget>>

\* Zongji leaves out row events without a TABLE_MAP. "lost" remembers them.
SkipRows ==
  /\ HasNext /\ NextEvent.kind = "rows" /\ ~IsMapped(NextEvent)
  /\ zongji' = [zongji EXCEPT !.next = @ + 1]
  /\ store' = [store EXCEPT !.lost = @ \cup {zongji.next}]
  /\ UNCHANGED <<source, mem, job, listener, queue, worker, budget>>

\* The server sends heartbeats when it has nothing else to send; 0 stands for one.
SendHeartbeat ==
  /\ IsStreaming /\ zongji.status = "running" /\ zongji.next > Now
  /\ 0 \notin ToSet(queue)
  /\ Push(0, zongji)

\* 'stopped' arrives, and the handler that stopped Zongji waits for the queue to drain.
AwaitDrain ==
  /\ IsStreaming /\ listener.closing > 0
  /\ listener' = [listener EXCEPT !.closing = @ - 1, !.draining = TRUE]
  /\ UNCHANGED <<source, store, mem, job, zongji, queue, worker, budget>>

\* restartZongji(), from the position of the last event that was processed.
Restarted(pos) ==
  IF zongji.status # "stopped" THEN zongji
  ELSE [status |-> IF pos < purged THEN "failed" ELSE "running", from |-> pos, next |-> pos + 1]

\* The worker is done with an event, and leaves listener l. When that was the last one
\* of the queue, everybody who waits for it to drain restarts Zongji.
Processed(l) ==
  /\ queue' = Tail(queue)
  /\ worker' = WorkerInit
  /\ IF Len(queue) = 1 /\ (l.draining \/ l.onDrain)
       THEN listener' = [l EXCEPT !.draining = FALSE] /\ zongji' = Restarted(l.pos)
       ELSE listener' = l /\ UNCHANGED zongji

\* The handler of 'error' stops the listener, and the job fails.
ZongjiError == IsStreaming /\ zongji.status = "failed" /\ Fail

-----------------------------------------------------------------------------
(* The queue's worker *)

Current == Head(queue)

\* The worker takes the next event, of this kind.
Takes(kind) ==
  IsStreaming /\ worker.step = "idle" /\ queue # <<>> /\ Current # 0 /\ binlog[Current].kind = kind

ProcessGtid ==
  /\ Takes("gtid")
  /\ Processed([listener EXCEPT !.gtid = Current, !.pos = Current])
  /\ UNCHANGED <<source, store, mem, job, budget>>

ProcessRotate ==
  /\ Takes("rotate")
  /\ Processed([listener EXCEPT !.pos = Current])
  /\ UNCHANGED <<source, store, mem, job, budget>>

\* The position stays before BEGIN: it is read again after a restart.
ProcessBegin ==
  /\ Takes("begin")
  /\ Processed([listener EXCEPT !.open = TRUE])
  /\ UNCHANGED <<source, store, mem, job, budget>>

\* A TABLE_MAP event is of no use to the worker, and does not move the position.
ProcessMap ==
  /\ Takes("map")
  /\ Processed(listener)
  /\ UNCHANGED <<source, store, mem, job, budget>>

\* writeChanges(), for a table in the cache. save() may flush.
ProcessRows ==
  /\ \/ Takes("rows") /\ binlog[Current].table \in job.cache
     \/ worker.step = "write"
  /\ LET e == binlog[Current]
         st == [store EXCEPT !.lost = @ \ {Current}]
     IN  /\ mem' = [mem EXCEPT ![e.table] = Applied(@, e)]
         /\ store' \in {st, [st EXCEPT !.rows = mem']}
  /\ Processed([listener EXCEPT !.pos = Current])
  /\ UNCHANGED <<source, job, budget>>

\* writeChanges(), for a new table.
ProcessNewTable ==
  /\ Takes("rows") /\ binlog[Current].table \notin job.cache
  /\ worker' = [worker EXCEPT !.step = "relation", !.table = binlog[Current].table]
  /\ UNCHANGED <<source, store, mem, job, zongji, listener, queue, budget>>

ProcessXid ==
  /\ Takes("xid")
  /\ store' = Committed(Flushed, Current)
  /\ Processed([listener EXCEPT !.open = FALSE, !.pos = Current, !.gtid = Current])
  /\ UNCHANGED <<source, mem, job, budget>>

\* keepalive() at the last commit, unless a transaction is open.
ProcessHeartbeat ==
  /\ IsStreaming /\ worker.step = "idle" /\ queue # <<>> /\ Current = 0
  /\ store' = IF listener.open THEN store ELSE Committed(Flushed, listener.gtid)
  /\ Processed(listener)
  /\ UNCHANGED <<source, mem, job, budget>>

\* processQueryEvent(), for a statement without schema changes.
ProcessQuery ==
  /\ Takes("query") /\ binlog[Current].changes = <<>>
  /\ IF listener.open THEN Processed(listener) /\ UNCHANGED store
     ELSE /\ store' = Committed(Flushed, Current)
          /\ Processed([listener EXCEPT !.pos = Current, !.gtid = Current])
  /\ UNCHANGED <<source, mem, job, budget>>

\* processQueryEvent(), with schema changes: Zongji is stopped first.
StartChange ==
  /\ Takes("query") /\ binlog[Current].changes # <<>>
  /\ worker' = [worker EXCEPT !.step = IF zongji.status = "running" THEN "stopping" ELSE "change",
                              !.change = 1]
  /\ zongji' = IF zongji.status = "running" THEN [zongji EXCEPT !.status = "stopped"] ELSE zongji
  /\ UNCHANGED <<source, store, mem, job, listener, queue, budget>>

ZongjiStopped ==
  /\ worker.step = "stopping"
  /\ worker' = [worker EXCEPT !.step = "change"]
  /\ UNCHANGED <<source, store, mem, job, zongji, listener, queue, budget>>

NextChange(w) == [w EXCEPT !.step = "change", !.change = @ + 1]
Relate(t) == [worker EXCEPT !.step = "relation", !.table = t]
CurrentChange == binlog[Current].changes[worker.change]
IsChanging == worker.step = "change" /\ worker.change <= Len(binlog[Current].changes)

\* handleSchemaChange(), for a rename: the old name is dropped if it is in the cache.
ChangeRename ==
  /\ IsChanging /\ CurrentChange.type = "rename"
  /\ LET c == CurrentChange
     IN  /\ store' = IF c.table \in job.cache THEN DroppedFrom(Flushed, c.table) ELSE store
         /\ mem' = IF c.table \in job.cache THEN store'.rows ELSE mem
         /\ job' = [job EXCEPT !.cache = @ \ {c.table}]
         /\ worker' = IF c.new = None THEN NextChange(worker) ELSE Relate(c.new)
  /\ UNCHANGED <<source, zongji, listener, queue, budget>>

\* handleSchemaChange(), for the other changes: getTables() throws when the table is not in
\* the cache.
ChangeUnknown ==
  /\ IsChanging /\ CurrentChange.type # "rename" /\ CurrentChange.table \notin job.cache
  /\ Fail

ChangeTable ==
  /\ IsChanging /\ CurrentChange.type # "rename" /\ CurrentChange.table \in job.cache
  /\ LET c == CurrentChange
     IN  /\ store' = CASE c.type = "alter" -> store
                       [] c.type = "truncate" -> [Flushed EXCEPT !.rows[c.table] = NoRows]
                       [] c.type = "drop" -> DroppedFrom(Flushed, c.table)
         /\ mem' = IF c.type = "alter" THEN mem ELSE store'.rows
         /\ job' = IF c.type = "drop" THEN [job EXCEPT !.cache = @ \ {c.table}] ELSE job
         /\ worker' = IF c.type = "alter" THEN Relate(c.table) ELSE NextChange(worker)
  /\ UNCHANGED <<source, zongji, listener, queue, budget>>

\* (mutant: restarts Zongji although events are waiting)
EndChange_AtOnce ==
  /\ worker.step = "change" /\ worker.change > Len(binlog[Current].changes) /\ ~listener.open
  /\ store' = Committed(Flushed, Current)
  /\ queue' = Tail(queue) /\ worker' = WorkerInit
  /\ listener' = [listener EXCEPT !.draining = FALSE, !.pos = Current, !.gtid = Current]
  /\ zongji' = Restarted(Current)
  /\ UNCHANGED <<source, mem, job, budget>>

\* (mutant: relies on who stopped Zongji to restart it)
EndChange_NoHandler ==
  /\ worker.step = "change" /\ worker.change > Len(binlog[Current].changes) /\ ~listener.open
  /\ store' = Committed(Flushed, Current)
  /\ Processed([listener EXCEPT !.pos = Current, !.gtid = Current])
  /\ UNCHANGED <<source, mem, job, budget>>

\* All changes are made: commit, and restart Zongji when the queue is drained. (This event
\* is still in the queue, so it is never idle here.) The handler replaces those that wait.
EndChange ==
  /\ worker.step = "change" /\ worker.change > Len(binlog[Current].changes)
  /\ LET l == [listener EXCEPT !.onDrain = TRUE, !.draining = FALSE]
     IN  IF listener.open THEN Processed(l) /\ UNCHANGED store
         ELSE /\ store' = Committed(Flushed, Current)
              /\ Processed([l EXCEPT !.pos = Current, !.gtid = Current])
  /\ UNCHANGED <<source, mem, job, budget>>

-----------------------------------------------------------------------------
(* handleRelation() with a snapshot, for the table of the worker *)

\* What follows a relation: the row event that needed it, or the next schema change.
Related(w) == IF binlog[Current].kind = "rows" THEN [w EXCEPT !.step = "write"] ELSE NextChange(w)

ResolveTable ==
  /\ worker.step = "relation"
  /\ LET t == worker.table
         st == Resolved(Flushed, t, IdentNow(t))
         snapshots == t \in Matched /\ ~st.tables[t].done
     IN  /\ store' = IF snapshots THEN [st EXCEPT !.rows[t] = NoRows] ELSE st
         /\ mem' = store'.rows
         /\ worker' = IF snapshots THEN [worker EXCEPT !.step = "begin"] ELSE Related(worker)
         /\ job' = [job EXCEPT !.cache = @ \cup {t}]
  /\ UNCHANGED <<source, zongji, listener, queue, budget>>

\* START TRANSACTION, and the position that is to be the table's boundary.
ReadGtid ==
  /\ worker.step = "begin"
  /\ worker' = [worker EXCEPT !.step = "copy", !.lsn = Now]
  /\ UNCHANGED <<source, store, mem, job, zongji, listener, queue, budget>>

\* The first read of the transaction is the one of the table. It fails if there is none.
CopyNow ==
  /\ worker.step = "copy"
  /\ IF Head0[worker.table] = None THEN Fail
     ELSE /\ store' = [Flushed EXCEPT !.rows[worker.table] = Head0[worker.table].rows,
                                      !.seen = Now,
                                      !.lost = {i \in @ : binlog[i].table # worker.table}]
          /\ mem' = store'.rows
          /\ worker' = [worker EXCEPT !.step = "mark"]
          /\ UNCHANGED <<source, job, zongji, listener, queue, budget>>

MarkDone ==
  /\ worker.step = "mark"
  /\ store' = [store EXCEPT !.tables[worker.table].done = TRUE,
                            !.noCheckpointBefore = Larger(@, worker.lsn)]
  /\ worker' = Related(worker)
  /\ UNCHANGED <<source, mem, job, zongji, listener, queue, budget>>

-----------------------------------------------------------------------------
JobNext ==
  \/ Resume \/ StartSnapshot \/ ListTables \/ CopyTable \/ FinishSnapshot \/ OpenStream

ReaderNext == SendEvent \/ RefuseEvent \/ SkipRows \/ AwaitDrain \/ ZongjiError

WorkerNext ==
  \/ ProcessGtid \/ ProcessRotate \/ ProcessBegin \/ ProcessMap \/ ProcessRows \/ ProcessNewTable
  \/ ProcessXid \/ ProcessHeartbeat \/ ProcessQuery \/ StartChange \/ ZongjiStopped
  \/ ChangeRename \/ ChangeUnknown \/ ChangeTable \/ EndChange
  \/ ResolveTable \/ ReadGtid \/ CopyNow \/ MarkDone

Next == SourceNext \/ Crash \/ JobNext \/ ReaderNext \/ SendHeartbeat \/ WorkerNext

Spec == Init /\ [][Next]_vars

FairSpec == /\ Spec
            /\ WF_vars(JobNext) /\ WF_vars(ReaderNext) /\ WF_vars(WorkerNext)
            /\ WF_vars(SendHeartbeat)

-----------------------------------------------------------------------------
(* Properties *)

RowsType == [Tables -> [Keys -> Nat \cup {None}]]

BinLogTypeOK ==
  /\ binlog \in Seq([kind : {"gtid", "begin", "xid", "rotate"}, tx : Nat]
                    \cup [kind : {"query"}, tx : Nat, changes : Seq(
                            [type : {"drop", "truncate", "alter", "rename"},
                             table : Tables, new : Tables \cup {None}])]
                    \cup [kind : {"map"}, tx : Nat, table : Matched, cols : Nat]
                    \cup [kind : {"rows"}, tx : Nat, v : Nat, table : Matched, map : 1..Now,
                          del : Keys \cup {None}, put : Keys \cup {None}])
  /\ purged \in 0..Now
  /\ store.rows \in RowsType /\ mem \in RowsType
  /\ store.tables \in [Tables -> {None} \cup [ident : Nat, done : BOOLEAN]]
  /\ store.snapshotDone \in BOOLEAN
  /\ {store.noCheckpointBefore, store.seen} \subseteq 0..Now
  /\ store.resume \in (0..Now) \cup {None}
  /\ store.lost \subseteq {i \in 1..Now : binlog[i].kind = "rows"}
  /\ job.phase \in {"down", "listing", "copying", "opening", "streaming"}
  /\ job.cache \subseteq Tables /\ job.todo \subseteq Matched
  /\ zongji.status \in {"running", "stopped", "failed"}
  /\ zongji.from \in 0..Now /\ zongji.next \in 0..(Now + 1)
  /\ {listener.pos, listener.gtid} \subseteq 0..Now
  /\ queue \in Seq(0..Now) /\ Len(queue) <= QueueLimit
  /\ worker.step \in {"idle", "stopping", "change", "relation", "begin", "copy", "mark", "write"}
  /\ worker.step # "idle" => IsStreaming /\ queue # <<>>

\* What clients see of a set of rows, leaving out the rows that a skipped event was about.
Seen(rows) ==
  {r \in rows : \A i \in store.lost : ~(r[1] = binlog[i].table /\ r[2] \in {binlog[i].del, binlog[i].put})}

\* A checkpoint is the state of the source at its LSN, once the binlog was read up to where
\* the last new table was copied: between rows of a snapshot, a batch that was flushed before
\* a crash, and what is replayed after it, no checkpoint shows a mix
\* (BinLogStream.ts:startInitialReplication, BinLogListener.ts:createQueueWorker). That is,
\* but for rows of which Zongji left out an event that it could not read.
ConvergedCheckpoint ==
  store.checkpoint # None /\ store.checkpoint.lsn >= store.seen
    => Seen(store.checkpoint.rows) = Seen(Evaluate(states[TxAt(store.checkpoint.lsn) + 1]))

\* The same for every checkpoint.
CheckpointConsistent ==
  store.checkpoint # None
    => Seen(store.checkpoint.rows) = Seen(Evaluate(states[TxAt(store.checkpoint.lsn) + 1]))

\* Whatever pauses and restarts Zongji, the queue goes on where the last processed event
\* ended: nothing comes twice, and nothing is missing but what Zongji left out. Only BEGIN and
\* TABLE_MAP, which do not move the position, may be sent again (BinLogListener.ts:
\* restartZongji, processQueryEvent).
QueueContinues ==
  IsStreaming =>
    LET events == SelectSeq(queue, LAMBDA i : i # 0)
        first == IF events = <<>> THEN zongji.next ELSE events[1]
        last == IF zongji.status = "running" THEN zongji.next - 1
                ELSE IF events = <<>> THEN 0 ELSE Last(events)
    IN  /\ \A n \in 1..(Len(events) - 1) : events[n] < events[n + 1]
        /\ \A i \in ToSet(events) : listener.pos < i /\ i <= last
        /\ \A i \in (listener.pos + 1)..last :
             \/ i \in ToSet(events) \cup store.lost
             \/ i < first /\ binlog[i].kind \in {"begin", "map"}

\* "Tablemap events always need to be included for the other row events to work"
\* (BinLogListener.ts:start): a Zongji is sent the TABLE_MAP of each row event that it is to
\* read. It is not when it started behind the first row event of a statement that has more.
RowsAreMapped == HasNext /\ NextEvent.kind = "rows" => IsMapped(NextEvent)

\* "We should always receive a replication message before the relation is used"
\* (BinLogStream.ts:getTables): a statement on a table finds it in the cache. It does not for
\* a table that was created and not written to before it is dropped.
RelationBeforeUse ==
  IsChanging /\ CurrentChange.type # "rename" => CurrentChange.table \in job.cache

\* The listener comes to read again once its queue is processed: "Resuming BinLog Listener"
\* (BinLogListener.ts:createZongjiListener). It does not when the queue was drained before
\* Zongji had stopped: the handler waits for a drain that was.
NeverStandsStill ==
  ~(IsStreaming /\ zongji.status = "stopped" /\ queue = <<>> /\ listener.draining)

\* Zongji failed at an event that it could not read.
CannotRead == IsStreaming /\ zongji.status = "failed" /\ zongji.next > purged

\* Once the source is quiet, clients get its present state: no pause of the listener and
\* no blocked checkpoint lasts (BinLogListener.ts:createZongjiListener, advanceCommitPosition).
\* The exceptions are a job that comes back to the same event and fails again, because Zongji
\* cannot read it or because it uses a table that the job knows nothing of, and a listener
\* that waits for a drain that was.
EventuallyCheckpointed ==
  <>[](~CannotRead /\ RelationBeforeUse /\ NeverStandsStill)
    => <>[](/\ store.checkpoint # None
            /\ Seen(store.checkpoint.rows) = Seen(Evaluate(Head0)))
=============================================================================
