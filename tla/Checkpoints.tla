----------------------------- MODULE Checkpoints -----------------------------
(***************************************************************************)
(* How a checkpoint reaches the clients of a process, and how a client     *)
(* learns that its own write has been replicated: the checkpoint of the    *)
(* active stream in Postgres storage, its notifications, the shared        *)
(* watcher, its subscribers, and managed write checkpoints.                *)
(*   PostgresSyncRulesStorage.ts: watchActiveCheckpoint,                   *)
(*     watchCheckpointChanges                                              *)
(*   streams/BroadcastIterable.ts, streams/LastValueSink.ts                *)
(*   ConnectionSlot.ts, PostgresWriteCheckpointAPI.ts                      *)
(*   util/write-checkpoint-batcher.ts                                      *)
(* The client here is one user, who writes to the source, asks for a write *)
(* checkpoint and waits for its acknowledgement.                           *)
(***************************************************************************)
EXTENDS Integers, Sequences, FiniteSets

CONSTANTS
  Subscribers,  \* sync streams of the user in one process
  Batches,      \* slots for write checkpoint requests in flight
  Empty,        \* a LastValueSink without a value
  Requery,      \* the null that a new notification connection writes
  Done,         \* end or error: the last value of a sink
  None,
  Supplied,     \* TRUE: /sync/checkpoint-request, FALSE: /write-checkpoint2.json
  CreateEmptyCheckpoints, \* FALSE when source and storage share a database
  MaxRequests, MaxNotifications, \* bounds
  MaxFaults      \* bound on faults, activations and unpublished WAL

ASSUME CheckpointBounds ==
  MaxRequests \in Nat /\ MaxNotifications \in Nat /\ MaxFaults \in Nat

VARIABLES
  wal,          \* the source: <<"write" | "marker" | "noise">>; the LSN is an index
  replicated,   \* LSN up to which replication has read the source
  row,          \* [id, checkpoint, lsn] of the active stream in sync_rules
  connection,   \* the connection that listens: "down", "connecting" or "up"
  notifications,\* payloads under way to it
  watcher,      \* watchActiveCheckpoint() and the BroadcastIterable around it
  subscriber,   \* [Subscribers -> watchCheckpointChanges() and its LastValueSink]
  write_checkpoint, \* the user's row in write_checkpoints, or None
  batch,        \* [Batches -> a request in flight, or None]
  client,       \* the requests of the user
  faults

vars == <<wal, replicated, row, connection, notifications, watcher, subscriber, write_checkpoint, batch, client, faults>>
sourceVars == <<wal, replicated, row>>
watchVars == <<connection, notifications, watcher, subscriber>>
requestVars == <<write_checkpoint, batch, client>>

CurrentLsn == Len(wal)
Visible(lsn) == wal[lsn] # "noise"
Writes(lsn) == Cardinality({n \in 1..lsn : wal[n] = "write"})

Position == [id : Nat, checkpoint : Nat, lsn : Nat]
SinkValue == Position \cup {Empty, Requery, Done}
NoPosition == [id |-> 0, checkpoint |-> 0, lsn |-> 0]

\* A row of write_checkpoints, and a request in flight
WriteCheckpoint == [id : Nat, lsn : Nat]
BatchRequest == [id : Nat, step : {"head", "persist", "marker", "respond"}, head : Nat, stored : Nat, heard : BOOLEAN]

\* What is not a value is told from every value.
ASSUME MarkersDistinct ==
  /\ \A m \in {Empty, Requery, Done, None} : m \notin Position
  /\ None \notin Nat /\ None \notin WriteCheckpoint /\ None \notin BatchRequest
  /\ Empty # Requery /\ Empty # Done /\ Requery # Done

Off == [step |-> "off", id |-> 0, lastOp |-> NoPosition, sink |-> Empty, last |-> Empty, sinks |-> {}]
Unsubscribed == [step |-> "out", sink |-> Empty, cp |-> NoPosition, sent |-> None, lastWriteCheckpoint |-> None]

Init ==
  /\ wal = <<"marker">>
  /\ replicated = 1
  /\ row = [id |-> 1, checkpoint |-> 0, lsn |-> 1]
  /\ connection = "down"
  /\ notifications = << >>
  /\ watcher = Off
  /\ subscriber = [s \in Subscribers |-> Unsubscribed]
  /\ write_checkpoint = None
  /\ batch = [b \in Batches |-> None]
  /\ client = [step |-> "idle", written |-> << >>, acks |-> << >>, expired |-> FALSE]
  /\ faults = 0

-----------------------------------------------------------------------------
(* Replication, and NOTIFY in the transaction of its commit *)

Notify(payload) == notifications' = IF connection = "up" THEN Append(notifications, payload) ELSE notifications

\* commit() at the end of the next transaction, or keepalive at the next logical
\* message. The row stays as it is when there is nothing new and empty
\* checkpoints are off.
Commit ==
  \E lsn \in replicated + 1 .. CurrentLsn :
    LET changed == CreateEmptyCheckpoints \/ Writes(lsn) > row.checkpoint
        new == IF changed THEN [row EXCEPT !.checkpoint = Writes(lsn), !.lsn = lsn] ELSE row
    IN /\ Visible(lsn) /\ \A n \in replicated + 1 .. lsn - 1 : ~Visible(n)
       /\ Len(notifications) < MaxNotifications
       /\ replicated' = lsn
       /\ row' = new
       /\ Notify(new)
       /\ UNCHANGED <<wal, connection, watcher, subscriber, requestVars, faults>>

\* Another stream becomes the active one, at a position of its own.
Activate ==
  /\ faults < MaxFaults /\ Len(notifications) < MaxNotifications
  /\ \E lsn \in 1..replicated :
       LET new == [id |-> row.id + 1, checkpoint |-> Writes(lsn), lsn |-> lsn]
       IN row' = new /\ replicated' = lsn /\ Notify(new)
  /\ faults' = faults + 1
  /\ UNCHANGED <<wal, connection, watcher, subscriber, requestVars>>

\* WAL that no publication sends
Noise ==
  /\ faults < MaxFaults
  /\ wal' = Append(wal, "noise")
  /\ faults' = faults + 1
  /\ UNCHANGED <<replicated, row, watchVars, requestVars>>

-----------------------------------------------------------------------------
(* The notification connection. LastValueSink.write(): the last value wins, *)
(* and nothing is written after the end.                                    *)

Written(sink, value) == IF sink = Done THEN Done ELSE value
Push(value) == watcher' = IF watcher.step = "off" THEN watcher ELSE [watcher EXCEPT !.sink = Written(@, value)]

Deliver ==
  /\ notifications # << >>
  /\ Push(Head(notifications))
  /\ notifications' = Tail(notifications)
  /\ UNCHANGED <<sourceVars, connection, subscriber, requestVars, faults>>

\* What was under way is lost; poke() starts to connect again.
Disconnect ==
  /\ faults < MaxFaults
  /\ connection = "up"
  /\ connection' = "connecting"
  /\ notifications' = << >>
  /\ faults' = faults + 1
  /\ UNCHANGED <<sourceVars, watcher, subscriber, requestVars>>

\* (mutant: nothing is read again)
Connect_Silent ==
  /\ connection = "connecting"
  /\ connection' = "up"
  /\ UNCHANGED <<sourceVars, notifications, watcher, subscriber, requestVars, faults>>

\* LISTEN, then channels-registered
Connect ==
  /\ connection = "connecting"
  /\ connection' = "up"
  /\ Push(Requery)
  /\ UNCHANGED <<sourceVars, notifications, subscriber, requestVars, faults>>

\* The attempts are exhausted: connection-error.
ConnectFails ==
  /\ faults < MaxFaults
  /\ connection = "connecting"
  /\ connection' = "down"
  /\ Push(Done)
  /\ faults' = faults + 1
  /\ UNCHANGED <<sourceVars, notifications, subscriber, requestVars>>

-----------------------------------------------------------------------------
(* watchActiveCheckpoint() and BroadcastIterable *)

ToSinks(w, value) ==
  [s \in Subscribers |-> IF s \in w.sinks THEN [subscriber[s] EXCEPT !.sink = Written(@, value)] ELSE subscriber[s]]

Yield(w, cp) ==
  /\ watcher' = [w EXCEPT !.step = "wait", !.lastOp = cp, !.last = cp]
  /\ subscriber' = ToSinks(w, cp)

\* The end of the source, or an error: passed on, and the next subscriber
\* starts again.
End(w) ==
  /\ watcher' = Off
  /\ subscriber' = ToSinks(w, Done)

\* (mutant: a notification from before the initial read is passed on)
IsNewer_Other(cp, lastOp) == cp # lastOp

\* Neither coordinate may regress, one must advance.
IsNewer(cp, lastOp) ==
  /\ cp.checkpoint >= lastOp.checkpoint /\ cp.lsn >= lastOp.lsn
  /\ cp.checkpoint > lastOp.checkpoint \/ cp.lsn > lastOp.lsn

Handle(w, cp) ==
  \/ cp.id # w.id /\ End(w)
  \/ cp.id = w.id /\ IsNewer(cp, w.lastOp) /\ Yield(w, cp)
  \/ cp.id = w.id /\ ~IsNewer(cp, w.lastOp) /\ watcher' = [w EXCEPT !.step = "wait"] /\ UNCHANGED subscriber

\* The initial document, read after the listener was registered
ReadInitial ==
  /\ watcher.step = "init"
  /\ Yield([watcher EXCEPT !.id = row.id], row)
  /\ UNCHANGED <<sourceVars, connection, notifications, requestVars, faults>>

TakeFromSink ==
  /\ watcher.step = "wait"
  /\ watcher.sink # Empty
  /\ LET value == watcher.sink
         w == [watcher EXCEPT !.sink = Empty]
     IN \/ value = Done /\ End(w)
        \/ value = Requery /\ watcher' = [w EXCEPT !.step = "query"] /\ UNCHANGED subscriber
        \/ value \notin {Done, Requery} /\ Handle(w, value)
  /\ UNCHANGED <<sourceVars, connection, notifications, requestVars, faults>>

QueryAgain ==
  /\ watcher.step = "query"
  /\ Handle(watcher, row)
  /\ UNCHANGED <<sourceVars, connection, notifications, requestVars, faults>>

-----------------------------------------------------------------------------
(* watchCheckpointChanges() of one subscriber *)

\* The first subscriber starts the source, and with it the connection.
Subscribe(s) ==
  /\ subscriber[s].step = "out"
  /\ subscriber' = [subscriber EXCEPT ![s].step = "next", ![s].sink = watcher.last]
  /\ IF watcher.step = "off"
       THEN /\ watcher' = [Off EXCEPT !.step = "init", !.sinks = {s}]
            /\ connection' = IF connection = "down" THEN "connecting" ELSE connection
       ELSE /\ watcher' = [watcher EXCEPT !.sinks = @ \cup {s}]
            /\ UNCHANGED connection
  /\ UNCHANGED <<sourceVars, notifications, requestVars, faults>>

\* The source stops with its last subscriber.
Removed(s) ==
  IF s \notin watcher.sinks THEN watcher
  ELSE IF watcher.sinks = {s} THEN Off ELSE [watcher EXCEPT !.sinks = @ \ {s}]

\* The client goes away.
Unsubscribe(s) ==
  /\ faults < MaxFaults
  /\ subscriber[s].step # "out"
  /\ subscriber' = [subscriber EXCEPT ![s] = Unsubscribed]
  /\ watcher' = Removed(s)
  /\ faults' = faults + 1
  /\ UNCHANGED <<sourceVars, connection, notifications, requestVars>>

NextCheckpoint(s) ==
  /\ subscriber[s].step = "next"
  /\ subscriber[s].sink # Empty
  /\ subscriber' = [subscriber EXCEPT ![s] =
       IF @.sink = Done THEN Unsubscribed
       ELSE [subscriber[s] EXCEPT !.step = "lookup", !.cp = subscriber[s].sink, !.sink = Empty]]
  /\ watcher' = IF subscriber[s].sink = Done THEN Removed(s) ELSE watcher
  /\ UNCHANGED <<sourceVars, connection, notifications, requestVars, faults>>

\* lastManagedWriteCheckpoint()
LastWriteCheckpoint(lsn) ==
  IF write_checkpoint # None /\ write_checkpoint.lsn <= lsn THEN write_checkpoint.id ELSE None

LookUp(s) ==
  /\ subscriber[s].step = "lookup"
  /\ LET cp == subscriber[s].cp
         current == LastWriteCheckpoint(cp.lsn)
         unchanged == /\ subscriber[s].sent # None
                      /\ subscriber[s].sent.checkpoint = cp.checkpoint
                      /\ subscriber[s].lastWriteCheckpoint = current
     IN subscriber' = [subscriber EXCEPT ![s] =
          IF unchanged THEN [subscriber[s] EXCEPT !.step = "next"]
          ELSE [subscriber[s] EXCEPT !.step = "next", !.sent = cp, !.lastWriteCheckpoint = current]]
  /\ UNCHANGED <<sourceVars, connection, notifications, watcher, requestVars, faults>>

-----------------------------------------------------------------------------
(* Write checkpoints: the client, and batches in flight. Of several        *)
(* requests for a user in one batch the batch keeps the greatest, so a     *)
(* batch stands for one request here.                                      *)

InFlight(id) == {b \in Batches : batch[b] # None /\ batch[b].id = id}
NewBatch(id) == [id |-> id, step |-> "head", head |-> 0, stored |-> 0, heard |-> TRUE]

\* The client writes to the source, then asks for a write checkpoint.
Request(b) ==
  LET id == Len(client.written) + 1
  IN /\ client.step = "idle"
     /\ id <= MaxRequests
     /\ batch[b] = None
     /\ wal' = Append(wal, "write")
     /\ client' = [client EXCEPT !.step = "waiting", !.written = Append(@, Len(wal')),
                                 !.acks = Append(@, IF Supplied THEN id ELSE 0)]
     /\ batch' = [batch EXCEPT ![b] = NewBatch(id)]
     /\ UNCHANGED <<replicated, row, watchVars, write_checkpoint, faults>>

\* After an error, or because the answer is late: then it goes unheard.
RetryRequest(b) ==
  LET id == Len(client.written)
  IN /\ client.step = "waiting"
     /\ batch[b] = None
     /\ batch' = [c \in Batches |->
          IF c = b THEN NewBatch(id) ELSE IF batch[c] = None THEN None ELSE [batch[c] EXCEPT !.heard = FALSE]]
     /\ IF \E c \in InFlight(id) : batch[c].heard
          THEN faults < MaxFaults /\ faults' = faults + 1
          ELSE UNCHANGED faults
     /\ UNCHANGED <<sourceVars, watchVars, write_checkpoint, client>>

\* createReplicationHead(): the head first
ReadHead(b) ==
  /\ batch[b] # None /\ batch[b].step = "head"
  /\ batch' = [batch EXCEPT ![b].step = "persist", ![b].head = CurrentLsn]
  /\ UNCHANGED <<sourceVars, watchVars, write_checkpoint, client, faults>>

\* (mutant: a stale request replaces the heads)
Upserted_AnyHead(request) ==
  IF write_checkpoint = None THEN [id |-> request.id, lsn |-> request.head]
  ELSE [id |-> IF request.id > write_checkpoint.id THEN request.id ELSE write_checkpoint.id, lsn |-> request.head]

\* INSERT ... ON CONFLICT DO UPDATE
Upserted(request) ==
  IF ~Supplied
    THEN [id |-> IF write_checkpoint = None THEN 1 ELSE write_checkpoint.id + 1, lsn |-> request.head]
  ELSE IF write_checkpoint = None \/ request.id > write_checkpoint.id
    THEN [id |-> request.id, lsn |-> request.head]
  ELSE write_checkpoint

\* (mutant: only when the row has changed)
ShouldAdvance_Changed(request) == Upserted(request) # write_checkpoint

\* Whenever a checkpoint was matched: its marker may never have been written.
ShouldAdvance(request) == TRUE

Persist(b) ==
  /\ batch[b] # None /\ batch[b].step = "persist"
  /\ write_checkpoint' = Upserted(batch[b])
  /\ batch' = [batch EXCEPT ![b].step = IF ShouldAdvance(batch[b]) THEN "marker" ELSE "respond",
                            ![b].stored = Upserted(batch[b]).id]
  /\ UNCHANGED <<sourceVars, watchVars, client, faults>>

WriteMarker(b) ==
  /\ batch[b] # None /\ batch[b].step = "marker"
  /\ wal' = Append(wal, "marker")
  /\ batch' = [batch EXCEPT ![b].step = "respond"]
  /\ UNCHANGED <<replicated, row, watchVars, write_checkpoint, client, faults>>

Respond(b) ==
  /\ batch[b] # None /\ batch[b].step = "respond"
  /\ batch' = [batch EXCEPT ![b] = None]
  /\ client' = IF batch[b].heard /\ client.step = "waiting" /\ batch[b].id = Len(client.written)
                 THEN [client EXCEPT !.step = "idle", !.acks[batch[b].id] = batch[b].stored]
                 ELSE client
  /\ UNCHANGED <<sourceVars, watchVars, write_checkpoint, faults>>

\* An error at any step, or the end of the process that handles the request
RequestFails(b) ==
  /\ faults < MaxFaults
  /\ batch[b] # None
  /\ batch' = [batch EXCEPT ![b] = None]
  /\ faults' = faults + 1
  /\ UNCHANGED <<sourceVars, watchVars, write_checkpoint, client>>

\* deleteOldCheckpointRequests() of the compactor: generated ones stay.
Expire ==
  /\ faults < MaxFaults
  /\ Supplied /\ write_checkpoint # None
  /\ write_checkpoint' = None
  /\ client' = [client EXCEPT !.expired = TRUE]
  /\ faults' = faults + 1
  /\ UNCHANGED <<sourceVars, watchVars, batch>>

-----------------------------------------------------------------------------
WatcherNext == ReadInitial \/ TakeFromSink \/ QueryAgain
SubscriberNext(s) == Subscribe(s) \/ NextCheckpoint(s) \/ LookUp(s)
BatchNext(b) == ReadHead(b) \/ Persist(b) \/ WriteMarker(b) \/ Respond(b)

Next ==
  \/ Commit \/ Activate \/ Noise
  \/ Deliver \/ Disconnect \/ Connect \/ ConnectFails
  \/ WatcherNext
  \/ \E s \in Subscribers : SubscriberNext(s) \/ Unsubscribe(s)
  \/ \E b \in Batches : Request(b) \/ RetryRequest(b) \/ BatchNext(b) \/ RequestFails(b)
  \/ Expire

Spec == Init /\ [][Next]_vars

\* Replication reads what the source sends, the notification connection is
\* restored and delivers, loops go on, and a client asks again after an error.
Fairness ==
  /\ WF_vars(Commit) /\ WF_vars(Deliver) /\ WF_vars(Connect) /\ WF_vars(WatcherNext)
  /\ \A s \in Subscribers : WF_vars(SubscriberNext(s))
  /\ \A b \in Batches : WF_vars(BatchNext(b))
  /\ WF_vars(client.step = "waiting" /\ InFlight(Len(client.written)) = {} /\ \E b \in Batches : RetryRequest(b))

FairSpec == Spec /\ Fairness

-----------------------------------------------------------------------------
CheckpointTypeOK ==
  /\ wal \in Seq({"write", "marker", "noise"})
  /\ replicated \in 1..CurrentLsn
  /\ row \in Position /\ row.lsn <= replicated
  /\ connection \in {"down", "connecting", "up"}
  /\ connection # "up" => notifications = << >>
  /\ watcher.step \in {"off", "init", "wait", "query"}
  /\ watcher.sink \in SinkValue /\ watcher.last \in Position \cup {Empty}
  \* A source that runs has subscribers, all of whom still wait for more.
  /\ (watcher.step = "off") <=> (watcher.sinks = {})
  /\ \A s \in watcher.sinks : subscriber[s].step # "out" /\ subscriber[s].sink # Done
  /\ \A s \in Subscribers :
       /\ subscriber[s].step \in {"out", "next", "lookup"}
       /\ subscriber[s].sink \in SinkValue \ {Requery}
  /\ write_checkpoint # None => write_checkpoint.id \in Nat /\ write_checkpoint.lsn \in 1..CurrentLsn

\* The subscriber was sent a write checkpoint as high as the one that answers r.
Acked(s, r) ==
  /\ r \in DOMAIN client.acks
  /\ client.acks[r] # 0 /\ subscriber[s].lastWriteCheckpoint # None
  /\ client.acks[r] <= subscriber[s].lastWriteCheckpoint

(***************************************************************************)
(* "write_checkpoint acknowledges a checkpoint request": when a client is  *)
(* sent a write checkpoint, the checkpoint it is sent with has all that    *)
(* the client had written before it asked for that write checkpoint, or an *)
(* earlier one. Requests are retried while an earlier copy is in flight,   *)
(* and a stale copy may be the last to be stored.                          *)
(***************************************************************************)
AckedIsReplicated ==
  \A s \in Subscribers : \A r \in DOMAIN client.acks :
    Acked(s, r) => Writes(client.written[r]) <= subscriber[s].sent.checkpoint

(***************************************************************************)
(* What a subscriber is sent never goes back, in operations or in LSN,     *)
(* although notifications from before its initial document, or from before *)
(* a reconnect, arrive after it.                                           *)
(***************************************************************************)
SentMovesForward ==
  [][\A s \in Subscribers :
       LET old == subscriber[s].sent
           new == subscriber'[s].sent
       IN old # None /\ new # None =>
            new.id = old.id /\ new.checkpoint >= old.checkpoint /\ new.lsn >= old.lsn]_vars

(***************************************************************************)
(* However notifications were lost, replaced or late, every subscriber is  *)
(* sent the last checkpoint in the end.                                    *)
(***************************************************************************)
EventuallyCurrent ==
  <>[](\A s \in Subscribers :
         /\ subscriber[s].sent # None
         /\ subscriber[s].sent.id = row.id /\ subscriber[s].sent.checkpoint = row.checkpoint)

(***************************************************************************)
(* "Idle sources are a correctness concern for checkpoint requests": every *)
(* request is acknowledged, also when nothing else happens at the source,  *)
(* and when storing it succeeded but its marker failed.                    *)
(***************************************************************************)
Acknowledged ==
  \A r \in 1..MaxRequests :
    r \in DOMAIN client.acks ~> client.expired \/ \A s \in Subscribers : Acked(s, r)
=============================================================================
