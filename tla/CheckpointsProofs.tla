-------------------------- MODULE CheckpointsProofs --------------------------
(***************************************************************************)
(* Proofs about Checkpoints, for every value of its constants.             *)
(***************************************************************************)
EXTENDS Checkpoints, FiniteSetTheorems, SequenceTheorems, TLAPS

(***************************************************************************)
(* The writes up to a position of the WAL: a number, which grows with the  *)
(* position and stays when the WAL grows.                                  *)
(***************************************************************************)
WritesIn(w, lsn) == {n \in 1..lsn : w[n] = "write"}

LEMMA WritesFinite ==
  ASSUME NEW w, NEW lsn \in Nat
  PROVE  IsFiniteSet(WritesIn(w, lsn)) /\ Cardinality(WritesIn(w, lsn)) \in Nat
<1>1. IsFiniteSet(1..lsn)
  BY FS_Interval
<1>2. WritesIn(w, lsn) \in SUBSET (1..lsn)
  BY DEF WritesIn
<1>3. IsFiniteSet(WritesIn(w, lsn))
  BY <1>1, <1>2, FS_Subset
<1> QED
  BY <1>3, FS_CardinalityType

LEMMA WritesNat ==
  ASSUME NEW lsn \in Nat
  PROVE  Writes(lsn) \in Nat
BY WritesFinite DEF Writes, WritesIn

LEMMA WritesMonotone ==
  ASSUME NEW a \in Nat, NEW b \in Nat, a <= b
  PROVE  Writes(a) <= Writes(b)
<1>1. WritesIn(wal, a) \in SUBSET WritesIn(wal, b)
  BY DEF WritesIn
<1>2. Cardinality(WritesIn(wal, a)) <= Cardinality(WritesIn(wal, b))
  BY <1>1, WritesFinite, FS_Subset
<1> QED
  BY <1>2 DEF Writes, WritesIn

Entry == {"write", "marker", "noise"}

-----------------------------------------------------------------------------
(* Types *)

Watcher ==
  [step : {"off", "init", "wait", "query"}, id : Nat, lastOp : Position, sink : SinkValue,
   last : Position \cup {Empty}, sinks : SUBSET Subscribers]
Subscription ==
  [step : {"out", "next", "lookup"}, sink : Position \cup {Empty, Done}, cp : Position,
   sent : Position \cup {None}, lastWriteCheckpoint : Nat \cup {None}]
Client == [step : {"idle", "waiting"}, written : Seq(Nat), acks : Seq(Nat), expired : BOOLEAN]

SourceType ==
  /\ wal \in Seq(Entry)
  /\ replicated \in 1..Len(wal)
  /\ row \in Position /\ row.lsn <= replicated

NotifyType ==
  /\ connection \in {"down", "connecting", "up"}
  /\ notifications \in Seq(Position)
  /\ connection # "up" => notifications = << >>

WatchType ==
  /\ watcher \in Watcher
  /\ subscriber \in [Subscribers -> Subscription]

RequestType ==
  /\ write_checkpoint \in WriteCheckpoint \cup {None}
  /\ write_checkpoint # None => write_checkpoint.lsn \in 1..Len(wal)
  /\ batch \in [Batches -> BatchRequest \cup {None}]
  /\ \A b \in Batches : batch[b] # None =>
       batch[b].head <= Len(wal) /\ (batch[b].step # "head" => batch[b].head >= 1)
  /\ client \in Client

(***************************************************************************)
(* Positions reach a subscriber in order: what it was sent, what it looks  *)
(* up, what waits in its sink, and the last value of the watcher. A        *)
(* subscriber that the watcher has ended keeps the order of its own.       *)
(***************************************************************************)
Before(p, q) ==
  p \in Position /\ q \in Position => p.id = q.id /\ p.checkpoint <= q.checkpoint /\ p.lsn <= q.lsn

WatcherOrdered ==
  /\ watcher.step \in {"off", "init"} => watcher.last = Empty
  /\ watcher.step \in {"wait", "query"} =>
       watcher.last \in Position /\ watcher.last = watcher.lastOp /\ watcher.last.id = watcher.id
  /\ (watcher.step = "off") <=> (watcher.sinks = {})

Ordered(u) ==
  /\ Before(u.sent, u.sink)
  /\ u.step = "lookup" => Before(u.sent, u.cp) /\ Before(u.cp, u.sink)

Follows(u, last) ==
  /\ u.step # "out" /\ u.sink # Done
  /\ last = Empty => u.step = "next" /\ u.sink = Empty /\ u.sent = None
  /\ Before(u.sent, last) /\ Before(u.sink, last)
  /\ u.step = "lookup" => Before(u.cp, last)

SubscriberOrdered(s) ==
  /\ Ordered(subscriber[s])
  /\ subscriber[s].step = "out" => subscriber[s] = Unsubscribed
  /\ s \in watcher.sinks => Follows(subscriber[s], watcher.last)
  /\ s \notin watcher.sinks /\ subscriber[s].step # "out" => subscriber[s].sink = Done

Types == SourceType /\ NotifyType /\ WatchType /\ RequestType

LEMMA EmptySequence == << >> \in Seq(Position)
OBVIOUS

LEMMA NotifyKeepsType ==
  ASSUME NotifyType, NEW p \in Position, Notify(p), UNCHANGED connection
  PROVE  NotifyType'
<1>1. Append(notifications, p) \in Seq(Position)
  BY AppendProperties DEF NotifyType
<1> QED
  BY <1>1 DEF NotifyType, Notify

LEMMA AppendKeepsSource ==
  ASSUME SourceType, NEW e \in Entry, wal' = Append(wal, e), UNCHANGED <<replicated, row>>
  PROVE  SourceType' /\ Len(wal') = Len(wal) + 1
<1>1. Append(wal, e) \in Seq(Entry) /\ Len(Append(wal, e)) = Len(wal) + 1
  BY AppendProperties DEF SourceType
<1> QED
  BY <1>1 DEF SourceType

(***************************************************************************)
(* The source and the notifications                                        *)
(***************************************************************************)
CommitRow(lsn) ==
  IF CreateEmptyCheckpoints \/ Writes(lsn) > row.checkpoint
    THEN [row EXCEPT !.checkpoint = Writes(lsn), !.lsn = lsn] ELSE row
ActivateRow(lsn) == [id |-> row.id + 1, checkpoint |-> Writes(lsn), lsn |-> lsn]

LEMMA CommitRowType ==
  ASSUME SourceType, NEW lsn \in replicated + 1 .. Len(wal)
  PROVE  CommitRow(lsn) \in Position /\ CommitRow(lsn).lsn <= lsn
<1>1. lsn \in Nat /\ Writes(lsn) \in Nat /\ row.lsn <= lsn
  BY WritesNat DEF SourceType, Position
<1>2. row \in Position
  BY DEF SourceType
<1>3. CASE CreateEmptyCheckpoints \/ Writes(lsn) > row.checkpoint
  <2>1. CommitRow(lsn) = [row EXCEPT !.checkpoint = Writes(lsn), !.lsn = lsn]
    BY <1>3, Zenon DEF CommitRow
  <2>2. PICK n \in Nat : n = Writes(lsn)
    BY <1>1
  <2>3. CommitRow(lsn) = [row EXCEPT !.checkpoint = n, !.lsn = lsn]
    BY <2>1, <2>2
  <2>4. [row EXCEPT !.checkpoint = n, !.lsn = lsn] \in Position /\ [row EXCEPT !.checkpoint = n, !.lsn = lsn].lsn = lsn
    BY <1>1, <1>2 DEF Position
  <2> QED
    BY <1>1, <2>3, <2>4
<1>4. CASE ~(CreateEmptyCheckpoints \/ Writes(lsn) > row.checkpoint)
  <2>1. CommitRow(lsn) = row
    BY <1>4, Zenon DEF CommitRow
  <2> QED
    BY <1>1, <1>2, <2>1
<1> QED
  BY <1>3, <1>4

LEMMA ActivateRowType ==
  ASSUME SourceType, NEW lsn \in 1 .. replicated
  PROVE  ActivateRow(lsn) \in Position /\ ActivateRow(lsn).lsn = lsn
<1>1. lsn \in Nat /\ Writes(lsn) \in Nat
  BY WritesNat DEF SourceType
<1> QED
  BY <1>1 DEF SourceType, ActivateRow, Position

LEMMA SourceTypeStep ==
  ASSUME Types, [Next]_vars
  PROVE  SourceType' /\ NotifyType' /\ Len(wal') >= Len(wal)
<1> USE DEF Types
<1>0. Len(wal) \in Nat /\ SourceType /\ NotifyType
  BY DEF SourceType
<1>1. ASSUME Commit PROVE SourceType' /\ NotifyType' /\ Len(wal') >= Len(wal)
  <2>1. PICK lsn \in replicated + 1 .. Len(wal) :
          /\ replicated' = lsn /\ row' = CommitRow(lsn) /\ Notify(CommitRow(lsn))
          /\ UNCHANGED <<wal, connection>>
    BY <1>1 DEF Commit, CommitRow, CurrentLsn
  <2>2. CommitRow(lsn) \in Position /\ CommitRow(lsn).lsn <= lsn
    BY <1>0, CommitRowType
  <2>3. NotifyType'
    BY <1>0, <2>1, <2>2, NotifyKeepsType
  <2> QED
    BY <1>0, <2>1, <2>2, <2>3 DEF SourceType
<1>2. ASSUME Activate PROVE SourceType' /\ NotifyType' /\ Len(wal') >= Len(wal)
  <2>1. PICK lsn \in 1 .. replicated :
          /\ replicated' = lsn /\ row' = ActivateRow(lsn) /\ Notify(ActivateRow(lsn))
          /\ UNCHANGED <<wal, connection>>
    BY <1>2 DEF Activate, ActivateRow
  <2>2. ActivateRow(lsn) \in Position /\ ActivateRow(lsn).lsn = lsn
    BY <1>0, ActivateRowType
  <2>3. NotifyType'
    BY <1>0, <2>1, <2>2, NotifyKeepsType
  <2> QED
    BY <1>0, <2>1, <2>2, <2>3 DEF SourceType
<1>3. ASSUME NEW e \in Entry, wal' = Append(wal, e), UNCHANGED <<replicated, row, connection, notifications>>
      PROVE  SourceType' /\ NotifyType' /\ Len(wal') >= Len(wal)
  BY <1>0, <1>3, AppendKeepsSource DEF NotifyType
<1>4. CASE Noise
  BY <1>3, <1>4 DEF Noise, watchVars, Entry
<1>5. CASE \E b \in Batches : Request(b)
  BY <1>3, <1>5 DEF Request, watchVars, Entry
<1>6. CASE \E b \in Batches : WriteMarker(b)
  BY <1>3, <1>6 DEF WriteMarker, watchVars, Entry
<1>7. ASSUME UNCHANGED <<wal, replicated, row>> PROVE SourceType' /\ Len(wal') >= Len(wal)
  BY <1>0, <1>7 DEF SourceType
<1>8. ASSUME UNCHANGED <<connection, notifications>> PROVE NotifyType'
  BY <1>0, <1>8 DEF NotifyType
<1>9. CASE Deliver
  <2>1. Tail(notifications) \in Seq(Position)
    BY <1>0, <1>9, HeadTailProperties DEF Deliver, NotifyType
  <2> QED
    BY <1>0, <1>7, <1>9, <2>1 DEF Deliver, NotifyType, sourceVars
<1>10. CASE Disconnect \/ Connect \/ ConnectFails
  BY <1>0, <1>7, <1>10, EmptySequence DEF Disconnect, Connect, ConnectFails, NotifyType, sourceVars
<1>11. CASE WatcherNext
  BY <1>7, <1>8, <1>11 DEF WatcherNext, ReadInitial, TakeFromSink, QueryAgain, sourceVars
<1>12. CASE \E s \in Subscribers : Subscribe(s)
  BY <1>0, <1>7, <1>12 DEF Subscribe, sourceVars, NotifyType
<1>13. CASE \E s \in Subscribers : NextCheckpoint(s) \/ LookUp(s) \/ Unsubscribe(s)
  BY <1>7, <1>8, <1>13 DEF NextCheckpoint, LookUp, Unsubscribe, sourceVars
<1>14. CASE Expire \/ \E b \in Batches : RetryRequest(b) \/ ReadHead(b) \/ Persist(b) \/ Respond(b) \/ RequestFails(b)
  BY <1>7, <1>8, <1>14 DEF Expire, RetryRequest, ReadHead, Persist, Respond, RequestFails, sourceVars, watchVars
<1>15. CASE UNCHANGED vars
  BY <1>7, <1>8, <1>15 DEF vars
<1> QED
  BY <1>1, <1>2, <1>4, <1>5, <1>6, <1>9, <1>10, <1>11, <1>12, <1>13, <1>14, <1>15 DEF Next, SubscriberNext, BatchNext

(***************************************************************************)
(* Requests: one changes at a time, or all stay while the WAL grows.       *)
(***************************************************************************)
BatchOK(r, n) == r \in BatchRequest \cup {None} /\ (r # None => r.head <= n /\ (r.step # "head" => r.head >= 1))
StoredOK(w, n) == w \in WriteCheckpoint \cup {None} /\ (w # None => w.lsn \in 1..n)
RequestParts ==
  /\ StoredOK(write_checkpoint, Len(wal))
  /\ batch \in [Batches -> BatchRequest \cup {None}] /\ \A b \in Batches : BatchOK(batch[b], Len(wal))
  /\ client \in Client

LEMMA RequestTypeParts == RequestType <=> RequestParts
BY DEF RequestType, RequestParts, StoredOK, BatchOK

LEMMA BatchOKStays ==
  ASSUME NEW m \in Nat, NEW n \in Nat, m <= n, NEW r, BatchOK(r, m)
  PROVE  BatchOK(r, n)
BY DEF BatchOK, BatchRequest

LEMMA StoredOKStays ==
  ASSUME NEW m \in Nat, NEW n \in Nat, m <= n, NEW w, StoredOK(w, m)
  PROVE  StoredOK(w, n)
BY DEF StoredOK, WriteCheckpoint

LEMMA NewBatchOK ==
  ASSUME NEW id \in Nat, NEW n \in Nat
  PROVE  BatchOK(NewBatch(id), n) /\ NewBatch(id) \in BatchRequest
BY DEF BatchOK, BatchRequest, NewBatch

LEMMA UpsertedType ==
  ASSUME RequestType, NEW b \in Batches, batch[b] # None, batch[b].step = "persist"
  PROVE  Upserted(batch[b]) \in WriteCheckpoint /\ Upserted(batch[b]).lsn \in 1..Len(wal)
<1> DEFINE r == batch[b]
<1>1. r \in BatchRequest /\ r.head <= Len(wal) /\ r.head >= 1
  BY DEF RequestType
<1>2. r.id \in Nat /\ r.head \in Nat
  BY <1>1 DEF BatchRequest
<1>3. write_checkpoint = None \/ (write_checkpoint \in WriteCheckpoint /\ write_checkpoint.lsn \in 1..Len(wal))
  BY DEF RequestType
<1> HIDE DEF r
<1>4. Upserted(r) \in WriteCheckpoint /\ Upserted(r).lsn \in 1..Len(wal)
  <2>1. CASE write_checkpoint = None
    BY <1>1, <1>2, <2>1, MarkersDistinct DEF Upserted, WriteCheckpoint
  <2>2. CASE write_checkpoint # None
    BY <1>1, <1>2, <1>3, <2>2 DEF Upserted, WriteCheckpoint
  <2> QED
    BY <2>1, <2>2
<1> QED
  BY <1>4 DEF r

LEMMA ExceptStaysSeq ==
  ASSUME NEW q \in Seq(Nat), NEW i \in Nat, NEW n \in Nat
  PROVE  [q EXCEPT ![i] = n] \in Seq(Nat)
<1>1. CASE i \in 1..Len(q)
  BY <1>1, ExceptSeq
<1>2. CASE i \notin 1..Len(q)
  <2>1. DOMAIN q = 1..Len(q) /\ q = [j \in DOMAIN q |-> q[j]]
    OBVIOUS
  <2>2. [q EXCEPT ![i] = n] = q
    BY <1>2, <2>1
  <2> QED
    BY <2>2
<1> QED
  BY <1>1, <1>2

\* Batch b becomes r
SetBatch(b, r) == batch' = [batch EXCEPT ![b] = r]

LEMMA RequestTypeStep ==
  ASSUME Types, [Next]_vars
  PROVE  RequestType'
<1>0. /\ SourceType /\ RequestType /\ RequestParts /\ Len(wal) \in Nat /\ Len(wal') \in Nat /\ Len(wal') >= Len(wal)
      /\ client \in Client
  BY SourceTypeStep, RequestTypeParts DEF Types, SourceType, RequestParts
<1>1. StoredOK(write_checkpoint, Len(wal')) /\ \A b \in Batches : BatchOK(batch[b], Len(wal'))
  BY <1>0, BatchOKStays, StoredOKStays DEF RequestParts
<1> DEFINE Stored == StoredOK(write_checkpoint', Len(wal'))
           Batched == batch' \in [Batches -> BatchRequest \cup {None}] /\ \A b \in Batches : BatchOK(batch'[b], Len(wal'))
<1>2. ASSUME Stored, Batched, client' \in Client PROVE RequestType'
  BY <1>2 DEF RequestType, StoredOK, BatchOK
<1>3. ASSUME UNCHANGED write_checkpoint PROVE Stored
  BY <1>1, <1>3
<1>4. ASSUME UNCHANGED batch PROVE Batched
  BY <1>0, <1>1, <1>4 DEF RequestParts
<1>5. ASSUME NEW b \in Batches, NEW r \in BatchRequest \cup {None}, BatchOK(r, Len(wal')), SetBatch(b, r)
      PROVE  Batched
  BY <1>0, <1>1, <1>5 DEF RequestParts, SetBatch
<1>6. BatchOK(None, Len(wal'))
  BY DEF BatchOK
<1>7. \A id \in Nat : BatchOK(NewBatch(id), Len(wal')) /\ NewBatch(id) \in BatchRequest
  BY <1>0, NewBatchOK
<1>8. Len(client.written) \in Nat
  BY <1>0 DEF Client
<1> HIDE DEF Stored, Batched
<1>9. ASSUME NEW b \in Batches, Request(b) PROVE RequestType'
  <2> DEFINE id == Len(client.written) + 1
             ack == IF Supplied THEN id ELSE 0
  <2>1. SetBatch(b, NewBatch(id))
    BY <1>9 DEF Request, SetBatch
  <2>2. client.written \in Seq(Nat) /\ client.acks \in Seq(Nat) /\ Len(wal') \in Nat /\ ack \in Nat
    BY <1>0, <1>8 DEF Client
  <2>3. client' = [client EXCEPT !.step = "waiting", !.written = Append(client.written, Len(wal')),
                                 !.acks = Append(client.acks, ack)]
    BY <1>9 DEF Request
  <2> HIDE DEF ack
  <2>4. Append(client.written, Len(wal')) \in Seq(Nat) /\ Append(client.acks, ack) \in Seq(Nat)
    BY <2>2, AppendProperties
  <2>5. client' \in Client
    BY <1>0, <2>3, <2>4 DEF Client
  <2>6. Stored
    BY <1>3, <1>9 DEF Request
  <2> QED
    BY <1>2, <1>5, <1>7, <1>8, <2>1, <2>5, <2>6
<1>10. ASSUME NEW b \in Batches, RetryRequest(b) PROVE RequestType'
  <2> DEFINE id == Len(client.written)
  <2>1. batch' = [c \in Batches |->
          IF c = b THEN NewBatch(id) ELSE IF batch[c] = None THEN None ELSE [batch[c] EXCEPT !.heard = FALSE]]
    BY <1>10 DEF RetryRequest
  <2>2. ASSUME NEW c \in Batches
        PROVE  batch'[c] \in BatchRequest \cup {None} /\ BatchOK(batch'[c], Len(wal'))
    <3>1. CASE c = b
      BY <1>7, <1>8, <2>1, <3>1
    <3>2. CASE c # b /\ batch[c] = None
      BY <1>6, <2>1, <3>2
    <3>3. CASE c # b /\ batch[c] # None
      <4>1. batch[c] \in BatchRequest /\ BatchOK(batch[c], Len(wal'))
        BY <1>0, <1>1, <3>3 DEF RequestParts
      <4>2. batch'[c] = [batch[c] EXCEPT !.heard = FALSE]
        BY <2>1, <3>3
      <4> QED
        BY <3>3, <4>1, <4>2 DEF BatchOK, BatchRequest
    <3> QED
      BY <3>1, <3>2, <3>3
  <2>3. Batched
    BY <2>1, <2>2 DEF Batched
  <2>4. UNCHANGED <<write_checkpoint, client>>
    BY <1>10 DEF RetryRequest
  <2> QED
    BY <1>0, <1>2, <1>3, <2>3, <2>4
<1>11. ASSUME NEW b \in Batches, ReadHead(b) \/ Persist(b) \/ WriteMarker(b) PROVE RequestType'
  <2>1. batch[b] # None /\ batch[b] \in BatchRequest /\ BatchOK(batch[b], Len(wal')) /\ UNCHANGED client
    BY <1>0, <1>1, <1>11 DEF ReadHead, Persist, WriteMarker, RequestParts
  <2>2. CASE ReadHead(b)
    <3> DEFINE r == [batch[b] EXCEPT !.step = "persist", !.head = Len(wal)]
    <3>0. UNCHANGED <<wal, write_checkpoint>> /\ Len(wal) >= 1
      BY <1>0, <2>2 DEF ReadHead, sourceVars, SourceType
    <3>1. SetBatch(b, r)
      BY <1>0, <2>2 DEF ReadHead, SetBatch, CurrentLsn, RequestParts
    <3>2. r \in BatchRequest /\ BatchOK(r, Len(wal'))
      BY <1>0, <2>1, <3>0 DEF BatchOK, BatchRequest
    <3> QED
      BY <1>0, <1>2, <1>3, <1>5, <2>1, <3>0, <3>1, <3>2
  <2>3. CASE Persist(b)
    <3> DEFINE new == Upserted(batch[b])
               r == [batch[b] EXCEPT !.step = IF ShouldAdvance(batch[b]) THEN "marker" ELSE "respond", !.stored = new.id]
    <3>1. SetBatch(b, r) /\ UNCHANGED wal /\ write_checkpoint' = new /\ batch[b].step = "persist"
      BY <2>3 DEF Persist, SetBatch, sourceVars
    <3>2. new \in WriteCheckpoint /\ new.lsn \in 1..Len(wal)
      BY <1>0, <2>1, <3>1, UpsertedType
    <3> HIDE DEF new
    <3>3. Stored /\ new.id \in Nat
      BY <3>1, <3>2 DEF Stored, StoredOK, WriteCheckpoint
    <3>4. r \in BatchRequest /\ BatchOK(r, Len(wal'))
      BY <2>1, <3>1, <3>3 DEF BatchOK, BatchRequest
    <3> QED
      BY <1>0, <1>2, <1>5, <2>1, <3>1, <3>3, <3>4
  <2>4. CASE WriteMarker(b)
    <3> DEFINE r == [batch[b] EXCEPT !.step = "respond"]
    <3>1. SetBatch(b, r) /\ UNCHANGED write_checkpoint /\ batch[b].step = "marker"
      BY <2>4 DEF WriteMarker, SetBatch
    <3>2. r \in BatchRequest /\ BatchOK(r, Len(wal'))
      BY <2>1, <3>1 DEF BatchOK, BatchRequest
    <3> QED
      BY <1>0, <1>2, <1>3, <1>5, <2>1, <3>1, <3>2
  <2> QED
    BY <1>11, <2>2, <2>3, <2>4
<1>12. ASSUME NEW b \in Batches, Respond(b) PROVE RequestType'
  <2>1. batch[b] \in BatchRequest /\ SetBatch(b, None) /\ UNCHANGED write_checkpoint
    BY <1>0, <1>12 DEF Respond, SetBatch, RequestParts
  <2>2. client.acks \in Seq(Nat) /\ batch[b].stored \in Nat /\ batch[b].id \in Nat
    BY <1>0, <2>1 DEF Client, BatchRequest
  <2>3. [client.acks EXCEPT ![batch[b].id] = batch[b].stored] \in Seq(Nat)
    BY <2>2, ExceptStaysSeq
  <2>4. client' = client \/ client' = [client EXCEPT !.step = "idle", !.acks = [client.acks EXCEPT ![batch[b].id] = batch[b].stored]]
    BY <1>12 DEF Respond
  <2>5. client' \in Client
    BY <1>0, <2>3, <2>4 DEF Client
  <2> QED
    BY <1>2, <1>3, <1>5, <1>6, <2>1, <2>5
<1>13. ASSUME NEW b \in Batches, RequestFails(b) PROVE RequestType'
  <2>1. SetBatch(b, None) /\ UNCHANGED <<write_checkpoint, client>>
    BY <1>13 DEF RequestFails, SetBatch
  <2> QED
    BY <1>0, <1>2, <1>3, <1>5, <1>6, <2>1
<1>14. CASE Expire
  <2>1. Stored
    BY <1>14 DEF Expire, Stored, StoredOK
  <2>2. client' \in Client
    BY <1>0, <1>14 DEF Expire, Client
  <2> QED
    BY <1>2, <1>4, <1>14, <2>1, <2>2 DEF Expire
<1>15. CASE UNCHANGED requestVars
  BY <1>0, <1>2, <1>3, <1>4, <1>15 DEF requestVars
<1>16. CASE Commit \/ Activate \/ Noise \/ Deliver \/ Disconnect \/ Connect \/ ConnectFails
  BY <1>15, <1>16 DEF Commit, Activate, Noise, Deliver, Disconnect, Connect, ConnectFails
<1>17. CASE WatcherNext
  BY <1>15, <1>17 DEF WatcherNext, ReadInitial, TakeFromSink, QueryAgain
<1>18. CASE \E s \in Subscribers : SubscriberNext(s) \/ Unsubscribe(s)
  BY <1>15, <1>18 DEF SubscriberNext, Subscribe, NextCheckpoint, LookUp, Unsubscribe
<1>19. CASE UNCHANGED vars
  BY <1>15, <1>19 DEF vars, requestVars
<1> QED
  BY <1>9, <1>10, <1>11, <1>12, <1>13, <1>14, <1>16, <1>17, <1>18, <1>19 DEF Next, BatchNext

-----------------------------------------------------------------------------
(* The order of positions, for one subscription *)

LEMMA PositionFields ==
  ASSUME NEW p \in Position
  PROVE  p.id \in Nat /\ p.checkpoint \in Nat /\ p.lsn \in Nat /\ p \notin {Empty, Requery, Done, None}
BY MarkersDistinct DEF Position

LEMMA BeforeTransitive ==
  ASSUME NEW p, NEW q \in Position, NEW r, Before(p, q), Before(q, r)
  PROVE  Before(p, r)
<1> SUFFICES ASSUME p \in Position, r \in Position PROVE p.id = r.id /\ p.checkpoint <= r.checkpoint /\ p.lsn <= r.lsn
  BY DEF Before
<1> QED
  BY PositionFields DEF Before

LEMMA BeforeItself == ASSUME NEW p PROVE Before(p, p)
BY PositionFields DEF Before

LEMMA MarkersUnordered ==
  ASSUME NEW p, NEW m \in {Empty, Requery, Done, None}
  PROVE  Before(p, m) /\ Before(m, p)
BY PositionFields DEF Before

\* A later value in the sink of one who follows
LEMMA FollowsNewer ==
  ASSUME NEW u \in Subscription, NEW last \in Position \cup {Empty}, NEW cp \in Position,
         Ordered(u), Follows(u, last), Before(last, cp), NEW v, v = [u EXCEPT !.sink = Written(u.sink, cp)]
  PROVE  v \in Subscription /\ Ordered(v) /\ Follows(v, cp)
<1>0. v = [u EXCEPT !.sink = cp]
  BY DEF Follows, Written
<1>1. /\ v \in Subscription /\ v.step = u.step /\ v.sink = cp /\ v.cp = u.cp /\ v.sent = u.sent
      /\ u.cp \in Position
  BY <1>0 DEF Subscription
<1>2. cp # Empty /\ cp # Done
  BY PositionFields
<1>3. Before(u.sent, cp) /\ (u.step = "lookup" => Before(u.cp, cp))
  <2>1. CASE last = Empty
    BY <2>1, MarkersUnordered DEF Follows
  <2>2. CASE last \in Position
    BY <2>2, BeforeTransitive DEF Follows
  <2> QED
    BY <2>1, <2>2
<1>4. Ordered(v)
  BY <1>1, <1>3 DEF Ordered
<1>5. Follows(v, cp)
  BY <1>1, <1>2, <1>3, BeforeItself DEF Follows
<1> QED
  BY <1>1, <1>4, <1>5

\* The end in the sink of one who follows
LEMMA FollowsEnd ==
  ASSUME NEW u \in Subscription, NEW last, Ordered(u), Follows(u, last), NEW v, v = [u EXCEPT !.sink = Written(u.sink, Done)]
  PROVE  v \in Subscription /\ Ordered(v) /\ v.step # "out" /\ v.sink = Done
<1>1. /\ v \in Subscription /\ v.step = u.step /\ v.sink = Done /\ v.cp = u.cp /\ v.sent = u.sent
  BY DEF Subscription, Written
<1>2. Ordered(v)
  BY <1>1, MarkersUnordered DEF Ordered
<1> QED
  BY <1>1, <1>2 DEF Follows

-----------------------------------------------------------------------------
(* Steps of the watcher *)

Watched == WatchType /\ WatcherOrdered /\ \A s \in Subscribers : SubscriberOrdered(s)

\* Only the sink of the watcher, or whether it queries, changes.
LEMMA WatcherSinkStep ==
  ASSUME Watched, watcher.step # "off", UNCHANGED subscriber,
         NEW w \in Watcher, w.id = watcher.id, w.lastOp = watcher.lastOp, w.last = watcher.last, w.sinks = watcher.sinks,
         w.step = watcher.step \/ {w.step, watcher.step} \subseteq {"wait", "query"},
         watcher' = w
  PROVE  Watched'
<1>1. WatchType'
  BY DEF Watched, WatchType
<1>2. WatcherOrdered'
  BY DEF Watched, WatcherOrdered
<1>3. \A s \in Subscribers : SubscriberOrdered(s)'
  BY DEF Watched, SubscriberOrdered
<1> QED
  BY <1>1, <1>2, <1>3 DEF Watched

LEMMA PushStep ==
  ASSUME Watched, NEW value \in SinkValue, Push(value), UNCHANGED subscriber
  PROVE  Watched'
<1>1. CASE watcher.step = "off"
  BY <1>1 DEF Push, Watched, WatchType, WatcherOrdered, SubscriberOrdered
<1>2. CASE watcher.step # "off"
  <2> DEFINE w == [watcher EXCEPT !.sink = Written(watcher.sink, value)]
  <2>1. watcher' = w
    BY <1>2 DEF Push
  <2>2. watcher \in Watcher /\ Written(watcher.sink, value) \in SinkValue
    BY DEF Watched, WatchType, Written, SinkValue
  <2>3. w \in Watcher /\ w.id = watcher.id /\ w.lastOp = watcher.lastOp /\ w.last = watcher.last
        /\ w.sinks = watcher.sinks /\ w.step = watcher.step
    BY <2>2 DEF Watcher
  <2> HIDE DEF w
  <2> QED
    BY <1>2, <2>1, <2>3, WatcherSinkStep
<1> QED
  BY <1>1, <1>2

LEMMA OffType == Off \in Watcher
BY DEF Off, Watcher, Position, NoPosition, SinkValue

LEMMA UnsubscribedType == Unsubscribed \in Subscription
BY DEF Unsubscribed, Subscription, Position, NoPosition

LEMMA YieldStep ==
  ASSUME Watched, NEW w \in Watcher, w.last = watcher.last, w.sinks = watcher.sinks, watcher.step # "off",
         NEW cp \in Position, w.id = cp.id, Before(w.last, cp), Yield(w, cp)
  PROVE  Watched'
<1>0. watcher \in Watcher /\ subscriber \in [Subscribers -> Subscription]
  BY DEF Watched, WatchType
<1>1. watcher' = [w EXCEPT !.step = "wait", !.lastOp = cp, !.last = cp]
  BY DEF Yield
<1>2. /\ watcher' \in Watcher /\ watcher'.step = "wait" /\ watcher'.lastOp = cp /\ watcher'.last = cp
      /\ watcher'.id = cp.id /\ watcher'.sinks = watcher.sinks
  BY <1>1 DEF Watcher
<1>3. subscriber' = ToSinks(w, cp)
  BY DEF Yield
<1>4. ASSUME NEW s \in Subscribers, s \in watcher.sinks
      PROVE  subscriber'[s] \in Subscription /\ Ordered(subscriber'[s]) /\ Follows(subscriber'[s], cp)
  <2>1. subscriber'[s] = [subscriber[s] EXCEPT !.sink = Written(subscriber[s].sink, cp)]
    BY <1>3, <1>4 DEF ToSinks
  <2>2. subscriber[s] \in Subscription /\ Ordered(subscriber[s]) /\ Follows(subscriber[s], watcher.last)
    BY <1>0, <1>4 DEF Watched, SubscriberOrdered
  <2>3. watcher.last \in Position \cup {Empty}
    BY <1>0 DEF Watcher
  <2> QED
    BY <2>1, <2>2, <2>3, FollowsNewer
<1>5. ASSUME NEW s \in Subscribers, s \notin watcher.sinks PROVE subscriber'[s] = subscriber[s]
  BY <1>3, <1>5 DEF ToSinks
<1>6. subscriber' \in [Subscribers -> Subscription]
  BY <1>0, <1>3, <1>4, <1>5 DEF ToSinks
<1>7. WatcherOrdered'
  BY <1>2, PositionFields DEF Watched, WatcherOrdered
<1>8. ASSUME NEW s \in Subscribers PROVE SubscriberOrdered(s)'
  <2>1. CASE s \in watcher.sinks
    BY <1>2, <1>4, <2>1 DEF SubscriberOrdered, Follows
  <2>2. CASE s \notin watcher.sinks
    BY <1>2, <1>5, <2>2 DEF SubscriberOrdered, Watched
  <2> QED
    BY <2>1, <2>2
<1> QED
  BY <1>2, <1>6, <1>7, <1>8 DEF Watched, WatchType

LEMMA EndStep ==
  ASSUME Watched, NEW w, w.sinks = watcher.sinks, End(w)
  PROVE  Watched'
<1>0. watcher \in Watcher /\ subscriber \in [Subscribers -> Subscription]
  BY DEF Watched, WatchType
<1>1. watcher' = Off /\ watcher' \in Watcher /\ subscriber' = ToSinks(w, Done)
  BY OffType DEF End
<1>2. ASSUME NEW s \in Subscribers, s \in watcher.sinks
      PROVE  subscriber'[s] \in Subscription /\ Ordered(subscriber'[s]) /\ subscriber'[s].step # "out" /\ subscriber'[s].sink = Done
  <2>1. subscriber'[s] = [subscriber[s] EXCEPT !.sink = Written(subscriber[s].sink, Done)]
    BY <1>1, <1>2 DEF ToSinks
  <2>2. subscriber[s] \in Subscription /\ Ordered(subscriber[s]) /\ Follows(subscriber[s], watcher.last)
    BY <1>0, <1>2 DEF Watched, SubscriberOrdered
  <2> QED
    BY <2>1, <2>2, FollowsEnd
<1>3. ASSUME NEW s \in Subscribers, s \notin watcher.sinks PROVE subscriber'[s] = subscriber[s]
  BY <1>1, <1>3 DEF ToSinks
<1>4. subscriber' \in [Subscribers -> Subscription]
  BY <1>0, <1>1, <1>2, <1>3 DEF ToSinks
<1>5. WatcherOrdered'
  BY <1>1 DEF WatcherOrdered, Off
<1>6. ASSUME NEW s \in Subscribers PROVE SubscriberOrdered(s)'
  <2>0. s \notin watcher'.sinks
    BY <1>1 DEF Off
  <2>1. CASE s \in watcher.sinks
    BY <1>2, <2>0, <2>1 DEF SubscriberOrdered
  <2>2. CASE s \notin watcher.sinks
    BY <1>3, <2>0, <2>2 DEF SubscriberOrdered, Watched
  <2> QED
    BY <2>1, <2>2
<1> QED
  BY <1>1, <1>4, <1>5, <1>6 DEF Watched, WatchType

LEMMA HandleStep ==
  ASSUME Watched, watcher.step \in {"wait", "query"}, NEW w \in Watcher, NEW cp \in Position, Handle(w, cp),
         w.id = watcher.id, w.lastOp = watcher.lastOp, w.last = watcher.last, w.sinks = watcher.sinks
  PROVE  Watched'
<1>0. watcher.last \in Position /\ watcher.last = watcher.lastOp /\ watcher.last.id = watcher.id
  BY DEF Watched, WatcherOrdered
<1>1. CASE cp.id # w.id /\ End(w)
  BY <1>1, EndStep
<1>2. CASE cp.id = w.id /\ IsNewer(cp, w.lastOp) /\ Yield(w, cp)
  <2>1. Before(w.last, cp)
    BY <1>0, <1>2, PositionFields DEF Before, IsNewer
  <2> QED
    BY <1>2, <2>1, YieldStep
<1>3. CASE watcher' = [w EXCEPT !.step = "wait"] /\ UNCHANGED subscriber
  <2> DEFINE v == [w EXCEPT !.step = "wait"]
  <2>1. v \in Watcher /\ v.id = watcher.id /\ v.lastOp = watcher.lastOp /\ v.last = watcher.last
        /\ v.sinks = watcher.sinks /\ v.step = "wait"
    BY DEF Watcher
  <2> HIDE DEF v
  <2>2. watcher' = v
    BY <1>3 DEF v
  <2> QED
    BY <1>3, <2>1, <2>2, WatcherSinkStep
<1> QED
  BY <1>1, <1>2, <1>3 DEF Handle

-----------------------------------------------------------------------------
(* Steps of a subscriber *)

\* One subscription changes, the watcher does not.
LEMMA OneSubscription ==
  ASSUME Watched, NEW s \in Subscribers, NEW u \in Subscription, UNCHANGED watcher,
         subscriber' = [subscriber EXCEPT ![s] = u],
         u.step # "out", subscriber[s].step # "out", Ordered(u),
         s \in watcher.sinks => Follows(u, watcher.last),
         s \notin watcher.sinks => u.sink = Done
  PROVE  Watched'
<1>0. subscriber \in [Subscribers -> Subscription]
  BY DEF Watched, WatchType
<1>1. subscriber' \in [Subscribers -> Subscription] /\ subscriber'[s] = u
      /\ \A t \in Subscribers \ {s} : subscriber'[t] = subscriber[t]
  BY <1>0
<1>2. ASSUME NEW t \in Subscribers PROVE SubscriberOrdered(t)'
  <2>1. CASE t = s
    BY <1>1, <2>1 DEF SubscriberOrdered
  <2>2. CASE t # s
    BY <1>1, <2>2 DEF SubscriberOrdered, Watched
  <2> QED
    BY <2>1, <2>2
<1> QED
  BY <1>1, <1>2 DEF Watched, WatchType, WatcherOrdered

LEMMA RemovedStep ==
  ASSUME Watched, NEW s \in Subscribers, watcher' = Removed(s), subscriber' = [subscriber EXCEPT ![s] = Unsubscribed]
  PROVE  Watched'
<1>0. watcher \in Watcher /\ subscriber \in [Subscribers -> Subscription] /\ WatcherOrdered
  BY DEF Watched, WatchType
<1>1. /\ subscriber' \in [Subscribers -> Subscription] /\ subscriber'[s] = Unsubscribed
      /\ \A t \in Subscribers \ {s} : subscriber'[t] = subscriber[t]
  BY <1>0, UnsubscribedType
<1>2. watcher' \in Watcher /\ WatcherOrdered'
  <2>1. CASE s \notin watcher.sinks
    BY <1>0, <2>1 DEF Removed, WatcherOrdered
  <2>2. CASE watcher.sinks = {s}
    BY <2>2, OffType DEF Removed, WatcherOrdered, Off
  <2>3. CASE s \in watcher.sinks /\ watcher.sinks # {s}
    <3>1. watcher' = [watcher EXCEPT !.sinks = watcher.sinks \ {s}]
      BY <2>3 DEF Removed
    <3> QED
      BY <1>0, <2>3, <3>1 DEF Watcher, WatcherOrdered
  <2> QED
    BY <2>1, <2>2, <2>3
<1>3. watcher'.sinks = watcher.sinks \ {s} /\ (watcher'.sinks # {} => watcher'.last = watcher.last)
  BY <1>0 DEF Removed, Off, Watcher
<1>4. Ordered(Unsubscribed) /\ Unsubscribed.step = "out"
  BY MarkersUnordered DEF Ordered, Unsubscribed
<1>5. ASSUME NEW t \in Subscribers PROVE SubscriberOrdered(t)'
  <2>1. CASE t = s
    BY <1>1, <1>3, <1>4, <2>1 DEF SubscriberOrdered
  <2>2. CASE t # s
    <3>1. SubscriberOrdered(t) /\ subscriber'[t] = subscriber[t] /\ (t \in watcher'.sinks <=> t \in watcher.sinks)
      BY <1>1, <1>3, <2>2 DEF Watched
    <3> QED
      BY <1>3, <3>1 DEF SubscriberOrdered
  <2> QED
    BY <2>1, <2>2
<1> QED
  BY <1>1, <1>2, <1>5 DEF Watched, WatchType

LEMMA SubscribeStep ==
  ASSUME Watched, NEW s \in Subscribers, Subscribe(s)
  PROVE  Watched'
<1>0. watcher \in Watcher /\ subscriber \in [Subscribers -> Subscription] /\ WatcherOrdered /\ SubscriberOrdered(s)
  BY DEF Watched, WatchType
<1>1. subscriber[s] = Unsubscribed /\ s \notin watcher.sinks
  BY <1>0 DEF Subscribe, SubscriberOrdered, Follows
<1>2. watcher.last \in Position \cup {Empty}
  BY <1>0 DEF Watcher
<1> DEFINE u == [Unsubscribed EXCEPT !.step = "next", !.sink = watcher.last]
<1>3. u \in Subscription /\ u.step = "next" /\ u.sink = watcher.last /\ u.sent = None
  BY <1>2, UnsubscribedType DEF Unsubscribed, Subscription
<1>4. subscriber' = [subscriber EXCEPT ![s] = u]
  BY <1>0, <1>1 DEF Subscribe
<1> HIDE DEF u
<1>5. Ordered(u) /\ u.step # "out" /\ u.sink # Done /\ Follows(u, watcher.last)
  BY <1>2, <1>3, MarkersDistinct, MarkersUnordered, BeforeItself DEF Ordered, Follows
<1>6. /\ watcher' \in Watcher /\ WatcherOrdered' /\ watcher'.sinks = watcher.sinks \cup {s} /\ watcher'.last = watcher.last
  <2>1. CASE watcher.step = "off"
    <3>1. watcher' = [Off EXCEPT !.step = "init", !.sinks = {s}]
      BY <2>1 DEF Subscribe
    <3>2. watcher.last = Empty /\ watcher.sinks = {}
      BY <1>0, <2>1 DEF WatcherOrdered
    <3> QED
      BY <3>1, <3>2, OffType DEF Off, Watcher, WatcherOrdered
  <2>2. CASE watcher.step # "off"
    <3>1. watcher' = [watcher EXCEPT !.sinks = watcher.sinks \cup {s}]
      BY <2>2 DEF Subscribe
    <3> QED
      BY <1>0, <2>2, <3>1 DEF Watcher, WatcherOrdered
  <2> QED
    BY <2>1, <2>2
<1>7. /\ subscriber' \in [Subscribers -> Subscription] /\ subscriber'[s] = u
      /\ \A t \in Subscribers \ {s} : subscriber'[t] = subscriber[t]
  BY <1>0, <1>3, <1>4
<1>8. ASSUME NEW t \in Subscribers PROVE SubscriberOrdered(t)'
  <2>1. CASE t = s
    BY <1>5, <1>6, <1>7, <2>1 DEF SubscriberOrdered
  <2>2. CASE t # s
    <3>1. SubscriberOrdered(t) /\ subscriber'[t] = subscriber[t] /\ (t \in watcher'.sinks <=> t \in watcher.sinks)
      BY <1>6, <1>7, <2>2 DEF Watched
    <3> QED
      BY <1>6, <3>1 DEF SubscriberOrdered
  <2> QED
    BY <2>1, <2>2
<1> QED
  BY <1>6, <1>7, <1>8 DEF Watched, WatchType

\* What a subscriber is sent only moves forward.
SentForward(s) ==
  subscriber[s].sent # None /\ subscriber'[s].sent # None => Before(subscriber[s].sent, subscriber'[s].sent)

LEMMA NextCheckpointStep ==
  ASSUME Watched, NEW s \in Subscribers, NextCheckpoint(s)
  PROVE  Watched' /\ subscriber'[s].sent \in {None, subscriber[s].sent}
<1>0. subscriber \in [Subscribers -> Subscription] /\ SubscriberOrdered(s)
  BY DEF Watched, WatchType
<1>1. CASE subscriber[s].sink = Done
  <2>1. watcher' = Removed(s) /\ subscriber' = [subscriber EXCEPT ![s] = Unsubscribed]
    BY <1>1 DEF NextCheckpoint
  <2> QED
    BY <1>0, <2>1, RemovedStep DEF Unsubscribed
<1>2. CASE subscriber[s].sink # Done
  <2> DEFINE old == subscriber[s]
             u == [old EXCEPT !.step = "lookup", !.cp = old.sink, !.sink = Empty]
  <2>1. UNCHANGED watcher /\ subscriber' = [subscriber EXCEPT ![s] = u] /\ old.step = "next" /\ old.sink # Empty
    BY <1>2 DEF NextCheckpoint
  <2>2. old \in Subscription /\ old.sink \in Position /\ Ordered(old)
    BY <1>0, <1>2, <2>1 DEF Subscription, SubscriberOrdered
  <2>3. s \in watcher.sinks /\ Follows(old, watcher.last)
    BY <1>0, <1>2, <2>1 DEF SubscriberOrdered
  <2> HIDE DEF old
  <2>4. u \in Subscription /\ u.step = "lookup" /\ u.cp = old.sink /\ u.sink = Empty /\ u.sent = old.sent
    BY <2>2 DEF Subscription
  <2> HIDE DEF u
  <2>5. Ordered(u)
    BY <2>2, <2>4, MarkersUnordered DEF Ordered
  <2>6. Follows(u, watcher.last)
    BY <2>1, <2>3, <2>4, MarkersUnordered, MarkersDistinct DEF Follows
  <2>7. old.step # "out" /\ subscriber[s].step # "out" /\ u.step # "out"
    BY <2>1, <2>4 DEF old
  <2>8. Watched'
    BY <2>1, <2>3, <2>4, <2>5, <2>6, <2>7, OneSubscription
  <2>9. subscriber'[s].sent = subscriber[s].sent
    BY <1>0, <2>1, <2>4 DEF old
  <2> QED
    BY <2>8, <2>9
<1> QED
  BY <1>1, <1>2

LEMMA LookUpStep ==
  ASSUME Watched, RequestType, NEW s \in Subscribers, LookUp(s)
  PROVE  Watched' /\ SentForward(s)
<1> DEFINE old == subscriber[s]
           current == LastWriteCheckpoint(old.cp.lsn)
<1>0. subscriber \in [Subscribers -> Subscription] /\ SubscriberOrdered(s)
  BY DEF Watched, WatchType
<1>1. current \in Nat \cup {None}
  BY DEF RequestType, LastWriteCheckpoint, WriteCheckpoint
<1>2. /\ UNCHANGED watcher /\ old.step = "lookup"
      /\ \/ subscriber' = [subscriber EXCEPT ![s] = [old EXCEPT !.step = "next"]]
         \/ subscriber' = [subscriber EXCEPT ![s] = [old EXCEPT !.step = "next", !.sent = old.cp, !.lastWriteCheckpoint = current]]
  BY DEF LookUp
<1> HIDE DEF current
<1>3. old \in Subscription /\ Ordered(old) /\ old.cp \in Position
  BY <1>0 DEF Subscription, SubscriberOrdered
<1>4. /\ s \in watcher.sinks => Follows(old, watcher.last)
      /\ s \notin watcher.sinks => old.sink = Done
  BY <1>0, <1>2 DEF SubscriberOrdered
<1>5. subscriber[s].step # "out"
  BY <1>2
<1>6. PICK u \in Subscription :
        /\ subscriber' = [subscriber EXCEPT ![s] = u]
        /\ u.step = "next" /\ u.sink = old.sink /\ u.cp = old.cp /\ u.sent \in {old.sent, old.cp}
  <2> DEFINE u1 == [old EXCEPT !.step = "next"]
             u2 == [old EXCEPT !.step = "next", !.sent = old.cp, !.lastWriteCheckpoint = current]
  <2>1. u1 \in Subscription /\ u1.step = "next" /\ u1.sink = old.sink /\ u1.cp = old.cp /\ u1.sent = old.sent
    BY <1>3 DEF Subscription
  <2>2. u2 \in Subscription /\ u2.step = "next" /\ u2.sink = old.sink /\ u2.cp = old.cp /\ u2.sent = old.cp
    BY <1>1, <1>3 DEF Subscription
  <2>3. subscriber' = [subscriber EXCEPT ![s] = u1] \/ subscriber' = [subscriber EXCEPT ![s] = u2]
    BY <1>2
  <2> HIDE DEF u1, u2
  <2> QED
    BY <2>1, <2>2, <2>3
<1> HIDE DEF old
<1>7. Ordered(u) /\ Before(old.sent, u.sent)
  BY <1>2, <1>3, <1>6, BeforeItself DEF Ordered
<1>8. s \in watcher.sinks => Follows(u, watcher.last)
  BY <1>2, <1>4, <1>6 DEF Follows
<1>9. Watched'
  BY <1>2, <1>4, <1>5, <1>6, <1>7, <1>8, OneSubscription
<1>10. subscriber'[s] = u
  BY <1>0, <1>6
<1> QED
  BY <1>7, <1>9, <1>10 DEF SentForward, old

-----------------------------------------------------------------------------
(* Every step keeps the order, and sends in order. *)

LEMMA NotWatched ==
  ASSUME Watched, UNCHANGED <<watcher, subscriber>>
  PROVE  Watched' /\ \A s \in Subscribers : SentForward(s)
<1>1. Watched'
  BY DEF Watched, WatchType, WatcherOrdered, SubscriberOrdered
<1>2. \A s \in Subscribers : SentForward(s)
  BY BeforeItself DEF SentForward
<1> QED
  BY <1>1, <1>2

LEMMA WatcherSteps ==
  ASSUME Watched, SourceType, WatcherNext
  PROVE  Watched' /\ \A s \in Subscribers : subscriber'[s].sent = subscriber[s].sent
<1>0. /\ watcher \in Watcher /\ subscriber \in [Subscribers -> Subscription] /\ row \in Position
      /\ watcher.sink \in SinkValue
  BY DEF Watched, WatchType, SourceType, Watcher
<1>1. ASSUME NEW w, NEW value, subscriber' = ToSinks(w, value)
      PROVE  \A s \in Subscribers : subscriber'[s].sent = subscriber[s].sent
  BY <1>0, <1>1 DEF ToSinks, Subscription
<1>2. ASSUME NEW w, NEW cp, Yield(w, cp) \/ End(w) \/ Handle(w, cp) \/ UNCHANGED subscriber
      PROVE  \A s \in Subscribers : subscriber'[s].sent = subscriber[s].sent
  BY <1>1, <1>2 DEF Yield, End, Handle
<1>3. CASE ReadInitial
  <2> DEFINE w == [watcher EXCEPT !.id = row.id]
  <2>1. watcher.step = "init" /\ Yield(w, row)
    BY <1>3 DEF ReadInitial
  <2>2. w \in Watcher /\ w.last = watcher.last /\ w.sinks = watcher.sinks /\ w.id = row.id
    BY <1>0, PositionFields DEF Watcher
  <2>3. watcher.last = Empty
    BY <2>1 DEF Watched, WatcherOrdered
  <2> HIDE DEF w
  <2>4. Watched'
    BY <1>0, <2>1, <2>2, <2>3, MarkersUnordered, YieldStep
  <2> QED
    BY <1>2, <2>1, <2>4
<1>4. CASE TakeFromSink
  <2> DEFINE value == watcher.sink
             w == [watcher EXCEPT !.sink = Empty]
  <2>1. /\ watcher.step = "wait" /\ value # Empty
        /\ \/ value = Done /\ End(w)
           \/ value = Requery /\ watcher' = [w EXCEPT !.step = "query"] /\ UNCHANGED subscriber
           \/ value \notin {Done, Requery} /\ Handle(w, value)
    BY <1>4 DEF TakeFromSink
  <2>2. /\ w \in Watcher /\ w.id = watcher.id /\ w.lastOp = watcher.lastOp /\ w.last = watcher.last
        /\ w.sinks = watcher.sinks /\ w.step = watcher.step
    BY <1>0 DEF Watcher, SinkValue
  <2> HIDE DEF w
  <2>3. CASE End(w)
    BY <1>2, <2>2, <2>3, EndStep
  <2>4. CASE watcher' = [w EXCEPT !.step = "query"] /\ UNCHANGED subscriber
    <3> DEFINE v == [w EXCEPT !.step = "query"]
    <3>1. v \in Watcher /\ v.id = watcher.id /\ v.lastOp = watcher.lastOp /\ v.last = watcher.last
          /\ v.sinks = watcher.sinks /\ v.step = "query"
      BY <2>2 DEF Watcher
    <3>2. watcher' = v
      BY <2>4
    <3> HIDE DEF v
    <3> QED
      BY <1>2, <2>1, <2>4, <3>1, <3>2, WatcherSinkStep
  <2>5. CASE value \notin {Done, Requery} /\ Handle(w, value)
    <3>1. value \in Position
      BY <1>0, <2>1, <2>5 DEF SinkValue
    <3> QED
      BY <1>2, <2>1, <2>2, <2>5, <3>1, HandleStep
  <2> QED
    BY <2>1, <2>3, <2>4, <2>5
<1>5. CASE QueryAgain
  <2>1. watcher.step = "query" /\ Handle(watcher, row)
    BY <1>5 DEF QueryAgain
  <2> QED
    BY <1>0, <1>2, <2>1, HandleStep
<1> QED
  BY <1>3, <1>4, <1>5 DEF WatcherNext

LEMMA WatchStep ==
  ASSUME Types, Watched, [Next]_vars
  PROVE  Watched' /\ \A s \in Subscribers : SentForward(s)
<1>0. SourceType /\ NotifyType /\ RequestType /\ subscriber \in [Subscribers -> Subscription]
  BY DEF Types, Watched, WatchType
<1>1. ASSUME \A s \in Subscribers : subscriber'[s].sent \in {None, subscriber[s].sent}
      PROVE  \A s \in Subscribers : SentForward(s)
  BY <1>1, BeforeItself DEF SentForward
<1>2. CASE Deliver
  <2>1. Head(notifications) \in SinkValue
    BY <1>0, <1>2, HeadTailProperties DEF Deliver, NotifyType, SinkValue
  <2> QED
    BY <1>1, <1>2, <2>1, PushStep DEF Deliver
<1>3. CASE Connect
  BY <1>1, <1>3, PushStep DEF Connect, SinkValue
<1>4. CASE ConnectFails
  BY <1>1, <1>4, PushStep DEF ConnectFails, SinkValue
<1>5. CASE WatcherNext
  BY <1>0, <1>1, <1>5, WatcherSteps
<1>6. ASSUME NEW s \in Subscribers, Subscribe(s) PROVE Watched' /\ \A t \in Subscribers : SentForward(t)
  <2>1. \A t \in Subscribers : subscriber'[t].sent \in {None, subscriber[t].sent}
    BY <1>0, <1>6 DEF Subscribe, Subscription
  <2> QED
    BY <1>1, <1>6, <2>1, SubscribeStep
<1>7. ASSUME NEW s \in Subscribers, Unsubscribe(s) PROVE Watched' /\ \A t \in Subscribers : SentForward(t)
  <2>1. \A t \in Subscribers : subscriber'[t].sent \in {None, subscriber[t].sent}
    BY <1>0, <1>7 DEF Unsubscribe, Unsubscribed
  <2> QED
    BY <1>1, <1>7, <2>1, RemovedStep DEF Unsubscribe
<1>8. ASSUME NEW s \in Subscribers, NextCheckpoint(s) PROVE Watched' /\ \A t \in Subscribers : SentForward(t)
  <2>1. \A t \in Subscribers \ {s} : subscriber'[t] = subscriber[t]
    BY <1>0, <1>8 DEF NextCheckpoint
  <2>2. Watched' /\ subscriber'[s].sent \in {None, subscriber[s].sent}
    BY <1>8, NextCheckpointStep
  <2> QED
    BY <1>1, <2>1, <2>2
<1>9. ASSUME NEW s \in Subscribers, LookUp(s) PROVE Watched' /\ \A t \in Subscribers : SentForward(t)
  <2>1. \A t \in Subscribers \ {s} : subscriber'[t] = subscriber[t]
    BY <1>0, <1>9 DEF LookUp
  <2>2. Watched' /\ SentForward(s)
    BY <1>0, <1>9, LookUpStep
  <2>3. \A t \in Subscribers \ {s} : SentForward(t)
    BY <2>1, BeforeItself DEF SentForward
  <2> QED
    BY <2>2, <2>3
<1>10. CASE Commit \/ Activate \/ Noise \/ Disconnect \/ Expire \/ UNCHANGED vars
  BY <1>10, NotWatched DEF Commit, Activate, Noise, Disconnect, Expire, watchVars, vars
<1>11. CASE \E b \in Batches : Request(b) \/ RetryRequest(b) \/ BatchNext(b) \/ RequestFails(b)
  BY <1>11, NotWatched DEF Request, RetryRequest, BatchNext, ReadHead, Persist, WriteMarker, Respond, RequestFails, watchVars
<1> QED
  BY <1>2, <1>3, <1>4, <1>5, <1>6, <1>7, <1>8, <1>9, <1>10, <1>11 DEF Next, SubscriberNext

LEMMA InitOK == Init => Types /\ Watched
<1> SUFFICES ASSUME Init PROVE Types /\ Watched
  OBVIOUS
<1>1. wal \in Seq(Entry) /\ Len(wal) = 1 /\ row \in Position /\ row.lsn = 1
  BY DEF Init, Entry, Position
<1>2. SourceType
  BY <1>1 DEF SourceType, Init
<1>3. NotifyType
  BY EmptySequence DEF Init, NotifyType
<1>4. client \in Client
  BY DEF Init, Client
<1>5. RequestType
  BY <1>4 DEF Init, RequestType
<1>6. watcher = Off /\ watcher \in Watcher /\ subscriber = [s \in Subscribers |-> Unsubscribed]
      /\ subscriber \in [Subscribers -> Subscription]
  BY OffType, UnsubscribedType DEF Init
<1>7. WatcherOrdered
  BY <1>6 DEF WatcherOrdered, Off
<1>8. ASSUME NEW s \in Subscribers PROVE SubscriberOrdered(s)
  BY <1>6, MarkersUnordered DEF SubscriberOrdered, Ordered, Unsubscribed, Off
<1> QED
  BY <1>2, <1>3, <1>5, <1>6, <1>7, <1>8 DEF Types, Watched, WatchType

LEMMA Invariance == Spec => [](Types /\ Watched)
<1>1. Types /\ Watched /\ [Next]_vars => (Types /\ Watched)'
  <2> SUFFICES ASSUME Types, Watched, [Next]_vars PROVE Types' /\ Watched'
    OBVIOUS
  <2>1. SourceType' /\ NotifyType' /\ RequestType' /\ Watched'
    BY SourceTypeStep, RequestTypeStep, WatchStep
  <2> QED
    BY <2>1 DEF Types, Watched
<1> QED
  BY <1>1, InitOK, PTL DEF Spec

(***************************************************************************)
(* Every variable keeps its type, a source that runs has subscribers, and  *)
(* all of them still wait for more (BroadcastIterable).                    *)
(***************************************************************************)
THEOREM CheckpointTypeCorrect == Spec => []CheckpointTypeOK
<1>1. ASSUME Types, Watched PROVE CheckpointTypeOK
  <2>1. /\ wal \in Seq({"write", "marker", "noise"}) /\ replicated \in 1..CurrentLsn
        /\ row \in Position /\ row.lsn <= replicated
        /\ connection \in {"down", "connecting", "up"}
        /\ connection # "up" => notifications = << >>
    BY <1>1 DEF Types, SourceType, NotifyType, CurrentLsn, Entry
  <2>2. /\ watcher.step \in {"off", "init", "wait", "query"}
        /\ watcher.sink \in SinkValue /\ watcher.last \in Position \cup {Empty}
        /\ (watcher.step = "off") <=> (watcher.sinks = {})
        /\ watcher.sinks \subseteq Subscribers
    BY <1>1 DEF Watched, WatchType, Watcher, WatcherOrdered
  <2>3. \A s \in watcher.sinks : subscriber[s].step # "out" /\ subscriber[s].sink # Done
    BY <1>1, <2>2 DEF Watched, SubscriberOrdered, Follows
  <2>4. ASSUME NEW s \in Subscribers
        PROVE  subscriber[s].step \in {"out", "next", "lookup"} /\ subscriber[s].sink \in SinkValue \ {Requery}
    <3>1. subscriber[s] \in Subscription
      BY <1>1 DEF Watched, WatchType
    <3> QED
      BY <3>1, MarkersDistinct DEF Subscription, SinkValue
  <2>5. write_checkpoint # None => write_checkpoint.id \in Nat /\ write_checkpoint.lsn \in 1..CurrentLsn
    BY <1>1 DEF Types, RequestType, WriteCheckpoint, CurrentLsn
  <2> QED
    BY <2>1, <2>2, <2>3, <2>4, <2>5 DEF CheckpointTypeOK
<1> QED
  BY <1>1, Invariance, PTL

(***************************************************************************)
(* What a subscriber is sent never goes back, whatever the notifications   *)
(* do: the watcher passes on only what IsNewer lets through, in one stream *)
(* (watchActiveCheckpoint, watchCheckpointChanges).                        *)
(***************************************************************************)
THEOREM SentForwardOnly == Spec => SentMovesForward
<1> DEFINE Forward == \A s \in Subscribers :
             LET old == subscriber[s].sent
                 new == subscriber'[s].sent
             IN old # None /\ new # None =>
                  new.id = old.id /\ new.checkpoint >= old.checkpoint /\ new.lsn >= old.lsn
<1>1. ASSUME Types, Watched, [Next]_vars PROVE [Forward]_vars
  <2>1. ASSUME NEW s \in Subscribers, subscriber[s].sent # None, subscriber'[s].sent # None
        PROVE  /\ subscriber'[s].sent.id = subscriber[s].sent.id
               /\ subscriber'[s].sent.checkpoint >= subscriber[s].sent.checkpoint
               /\ subscriber'[s].sent.lsn >= subscriber[s].sent.lsn
    <3>1. Watched' /\ SentForward(s)
      BY <1>1, WatchStep
    <3>2. subscriber[s].sent \in Position /\ subscriber'[s].sent \in Position
      BY <1>1, <2>1, <3>1 DEF Watched, WatchType, Subscription
    <3> QED
      BY <2>1, <3>1, <3>2, PositionFields DEF SentForward, Before
  <2> QED
    BY <2>1
<1> QED
  BY <1>1, Invariance, PTL DEF Spec, SentMovesForward

-----------------------------------------------------------------------------
(* Acknowledged writes are replicated: positions are true to the WAL, and   *)
(* what is stored for a request is at or after what the client had written. *)

Located(p, w) == p \in Position => p.lsn <= Len(w) /\ p.checkpoint = Cardinality(WritesIn(w, p.lsn))

AllLocated ==
  /\ Located(row, wal)
  /\ \A i \in 1..Len(notifications) : Located(notifications[i], wal)
  /\ Located(watcher.sink, wal) /\ Located(watcher.last, wal)
  /\ \A s \in Subscribers :
       /\ Located(subscriber[s].sink, wal) /\ Located(subscriber[s].sent, wal)
       /\ subscriber[s].step = "lookup" => Located(subscriber[s].cp, wal)

\* written: the LSN of each request
ClientTrue ==
  /\ client.step = "waiting" => Len(client.written) >= 1
  /\ Len(client.acks) = Len(client.written)
  /\ \A r \in 1..Len(client.written) : client.written[r] <= Len(wal) /\ client.acks[r] >= r
  /\ \A q, r \in 1..Len(client.written) : q <= r => client.written[q] <= client.written[r]

BatchTrue(r, written) ==
  r # None =>
    /\ r.id \in 1..Len(written)
    /\ r.step # "head" => written[r.id] <= r.head
    /\ r.step \in {"marker", "respond"} => r.stored >= r.id

StoredTrue(w, written) == w # None => w.id \in 1..Len(written) /\ written[w.id] <= w.lsn

Informed(u, written) ==
  u.lastWriteCheckpoint # None =>
    /\ u.sent \in Position
    /\ u.lastWriteCheckpoint \in 1..Len(written) /\ written[u.lastWriteCheckpoint] <= u.sent.lsn

Acks ==
  /\ AllLocated
  /\ ClientTrue
  /\ \A b \in Batches : BatchTrue(batch[b], client.written)
  /\ StoredTrue(write_checkpoint, client.written)
  /\ \A s \in Subscribers : Informed(subscriber[s], client.written)

LEMMA LocatedStays ==
  ASSUME NEW w \in Seq(Entry), NEW e \in Entry, NEW p, Located(p, w)
  PROVE  Located(p, Append(w, e))
<1> SUFFICES ASSUME p \in Position
             PROVE  p.lsn <= Len(Append(w, e)) /\ WritesIn(Append(w, e), p.lsn) = WritesIn(w, p.lsn)
  BY DEF Located
<1>1. p.lsn \in Nat /\ p.lsn <= Len(w) /\ Len(w) \in Nat
  BY PositionFields DEF Located
<1>2. Len(Append(w, e)) = Len(w) + 1 /\ \A n \in 1..Len(w) : Append(w, e)[n] = w[n]
  BY AppendProperties
<1>3. \A n \in 1..p.lsn : Append(w, e)[n] = w[n]
  BY <1>1, <1>2
<1> QED
  BY <1>1, <1>2, <1>3 DEF WritesIn

LEMMA WalStep ==
  ASSUME [Next]_vars
  PROVE  wal' = wal \/ \E e \in Entry : wal' = Append(wal, e)
<1>1. CASE \E b \in Batches : Request(b) \/ WriteMarker(b)
  BY <1>1 DEF Request, WriteMarker, Entry
<1>2. CASE Noise
  BY <1>2 DEF Noise, Entry
<1>3. CASE Commit \/ Activate \/ Deliver \/ Disconnect \/ Connect \/ ConnectFails \/ WatcherNext \/ Expire \/ UNCHANGED vars
  BY <1>3 DEF Commit, Activate, Deliver, Disconnect, Connect, ConnectFails, WatcherNext, ReadInitial, TakeFromSink,
     QueryAgain, Expire, vars, sourceVars
<1>4. CASE \E s \in Subscribers : SubscriberNext(s) \/ Unsubscribe(s)
  BY <1>4 DEF SubscriberNext, Subscribe, NextCheckpoint, LookUp, Unsubscribe, sourceVars
<1>5. CASE \E b \in Batches : RetryRequest(b) \/ ReadHead(b) \/ Persist(b) \/ Respond(b) \/ RequestFails(b)
  BY <1>5 DEF RetryRequest, ReadHead, Persist, Respond, RequestFails, sourceVars
<1> QED
  BY <1>1, <1>2, <1>3, <1>4, <1>5 DEF Next, BatchNext

LEMMA LocatedStep ==
  ASSUME SourceType, [Next]_vars, NEW p, Located(p, wal)
  PROVE  Located(p, wal')
BY WalStep, LocatedStays DEF SourceType

-----------------------------------------------------------------------------
(* Positions only come from the row. *)

LEMMA LocatedMarkers == \A m \in {Empty, Requery, Done, None} : \A w : Located(m, w)
BY MarkersDistinct DEF Located

LEMMA CommitRowLocated ==
  ASSUME SourceType, Located(row, wal), NEW lsn \in replicated + 1 .. Len(wal)
  PROVE  Located(CommitRow(lsn), wal)
<1>1. lsn \in Nat /\ Writes(lsn) \in Nat /\ row \in Position
  BY WritesNat DEF SourceType
<1>2. CASE CommitRow(lsn) = row
  BY <1>2
<1>3. CASE CommitRow(lsn) # row
  <2>1. PICK n \in Nat : n = Writes(lsn)
    BY <1>1
  <2>2. CommitRow(lsn) = [row EXCEPT !.checkpoint = n, !.lsn = lsn]
    BY <1>3, <2>1 DEF CommitRow
  <2>3. CommitRow(lsn).checkpoint = n /\ CommitRow(lsn).lsn = lsn
    BY <1>1, <2>2 DEF Position
  <2> QED
    BY <2>1, <2>3 DEF Located, Writes, WritesIn, SourceType
<1> QED
  BY <1>2, <1>3

LEMMA ActivateRowLocated ==
  ASSUME SourceType, NEW lsn \in 1 .. replicated
  PROVE  Located(ActivateRow(lsn), wal)
<1>1. ActivateRow(lsn).lsn = lsn /\ ActivateRow(lsn).checkpoint = Writes(lsn) /\ lsn <= Len(wal)
  BY DEF ActivateRow, SourceType
<1> QED
  BY <1>1 DEF Located, Writes, WritesIn

\* Of the row and the notifications
LEMMA NotificationsLocated ==
  ASSUME Types, AllLocated, [Next]_vars
  PROVE  Located(row', wal') /\ \A i \in 1..Len(notifications') : Located(notifications'[i], wal')
<1> DEFINE Goal == Located(row', wal') /\ \A i \in 1..Len(notifications') : Located(notifications'[i], wal')
<1>0. /\ SourceType /\ NotifyType /\ notifications \in Seq(Position)
      /\ Located(row, wal) /\ Located(row, wal') /\ \A i \in 1..Len(notifications) : Located(notifications[i], wal')
  BY LocatedStep DEF Types, AllLocated, NotifyType
<1>1. ASSUME NEW p \in Position, Located(p, wal'), Notify(p)
      PROVE  \A i \in 1..Len(notifications') : Located(notifications'[i], wal')
  <2>1. /\ Len(Append(notifications, p)) = Len(notifications) + 1 /\ Append(notifications, p)[Len(notifications) + 1] = p
        /\ \A i \in 1..Len(notifications) : Append(notifications, p)[i] = notifications[i]
    BY <1>0, AppendProperties
  <2>2. notifications' = notifications \/ notifications' = Append(notifications, p)
    BY <1>1 DEF Notify
  <2> QED
    BY <1>0, <1>1, <2>1, <2>2
<1>2. CASE Commit
  <2>1. PICK lsn \in replicated + 1 .. Len(wal) : row' = CommitRow(lsn) /\ Notify(CommitRow(lsn)) /\ wal' = wal
    BY <1>2 DEF Commit, CommitRow, CurrentLsn
  <2>2. CommitRow(lsn) \in Position /\ Located(CommitRow(lsn), wal')
    BY <1>0, <2>1, CommitRowType, CommitRowLocated
  <2> QED
    BY <1>1, <2>1, <2>2
<1>3. CASE Activate
  <2>1. PICK lsn \in 1 .. replicated : row' = ActivateRow(lsn) /\ Notify(ActivateRow(lsn)) /\ wal' = wal
    BY <1>3 DEF Activate, ActivateRow
  <2>2. ActivateRow(lsn) \in Position /\ Located(ActivateRow(lsn), wal')
    BY <1>0, <2>1, ActivateRowType, ActivateRowLocated
  <2> QED
    BY <1>1, <2>1, <2>2
<1>4. CASE Deliver
  <2>1. /\ UNCHANGED <<wal, row>> /\ notifications' = Tail(notifications) /\ notifications # << >>
    BY <1>4 DEF Deliver, sourceVars
  <2>2. /\ Len(Tail(notifications)) = Len(notifications) - 1 /\ Len(notifications) \in Nat
        /\ \A i \in 1..Len(Tail(notifications)) : Tail(notifications)[i] = notifications[i + 1]
    BY <1>0, <2>1, HeadTailProperties
  <2>3. \A i \in 1..Len(Tail(notifications)) : i + 1 \in 1..Len(notifications)
    BY <2>2
  <2> QED
    BY <1>0, <2>1, <2>2, <2>3
<1>5. CASE Disconnect
  BY <1>0, <1>5 DEF Disconnect, sourceVars
<1>6. CASE Noise \/ Connect \/ ConnectFails \/ WatcherNext \/ Expire \/ UNCHANGED vars
  BY <1>0, <1>6 DEF Noise, Connect, ConnectFails, WatcherNext, ReadInitial, TakeFromSink, QueryAgain, Expire, vars,
     sourceVars, watchVars
<1>7. CASE \E s \in Subscribers : SubscriberNext(s) \/ Unsubscribe(s)
  BY <1>0, <1>7 DEF SubscriberNext, Subscribe, NextCheckpoint, LookUp, Unsubscribe, sourceVars
<1>8. CASE \E b \in Batches : Request(b) \/ RetryRequest(b) \/ BatchNext(b) \/ RequestFails(b)
  BY <1>0, <1>8 DEF Request, RetryRequest, BatchNext, ReadHead, Persist, WriteMarker, Respond, RequestFails, sourceVars,
     watchVars
<1> QED
  BY <1>2, <1>3, <1>4, <1>5, <1>6, <1>7, <1>8 DEF Next

\* Of the watcher and its subscribers. Known: true to the WAL after the step.
Known(p) == Located(p, wal')

LEMMA KnownBefore ==
  ASSUME Types, Watched, AllLocated, [Next]_vars
  PROVE  /\ Known(row) /\ \A i \in 1..Len(notifications) : Known(notifications[i])
         /\ Known(watcher.sink) /\ Known(watcher.last) /\ Known(Empty) /\ Known(Requery) /\ Known(Done) /\ Known(None)
         /\ \A s \in Subscribers :
              /\ Known(subscriber[s].sink) /\ Known(subscriber[s].sent)
              /\ subscriber[s].step = "lookup" => Known(subscriber[s].cp)
<1>1. SourceType
  BY DEF Types
<1>2. /\ Known(row) /\ \A i \in 1..Len(notifications) : Known(notifications[i])
      /\ Known(watcher.sink) /\ Known(watcher.last)
  BY <1>1, LocatedStep DEF AllLocated, Known
<1>3. \A s \in Subscribers :
        /\ Known(subscriber[s].sink) /\ Known(subscriber[s].sent)
        /\ subscriber[s].step = "lookup" => Known(subscriber[s].cp)
  BY <1>1, LocatedStep DEF AllLocated, Known
<1> QED
  BY <1>2, <1>3, LocatedMarkers DEF Known

\* After the step, they are all known.
WatcherKnown == Known(watcher'.sink) /\ Known(watcher'.last)
SubscriberKnown(s) ==
  /\ Known(subscriber'[s].sink) /\ Known(subscriber'[s].sent)
  /\ subscriber'[s].step = "lookup" => Known(subscriber'[s].cp)
WatchKnown == WatcherKnown /\ \A s \in Subscribers : SubscriberKnown(s)

LEMMA PushKnown ==
  ASSUME Types, Watched, AllLocated, [Next]_vars, NEW value, Known(value), Push(value)
  PROVE  WatcherKnown
<1>0. watcher \in Watcher
  BY DEF Watched, WatchType
<1>1. watcher' = watcher \/ watcher' = [watcher EXCEPT !.sink = Written(watcher.sink, value)]
  BY DEF Push
<1>2. watcher'.last = watcher.last /\ watcher'.sink \in {watcher.sink, value, Done}
  BY <1>0, <1>1 DEF Watcher, Written
<1> QED
  BY <1>2, KnownBefore DEF WatcherKnown

LEMMA SubscribersSame ==
  ASSUME Types, Watched, AllLocated, [Next]_vars, NEW S \in SUBSET Subscribers, \A s \in S : subscriber'[s] = subscriber[s]
  PROVE  \A s \in S : SubscriberKnown(s)
BY KnownBefore DEF SubscriberKnown

LEMMA ToSinksKnown ==
  ASSUME Types, Watched, AllLocated, [Next]_vars, NEW w, NEW value, Known(value), subscriber' = ToSinks(w, value)
  PROVE  \A s \in Subscribers : SubscriberKnown(s)
<1> SUFFICES ASSUME NEW s \in Subscribers PROVE SubscriberKnown(s)
  OBVIOUS
<1>0. subscriber[s] \in Subscription
  BY DEF Watched, WatchType
<1>1. subscriber'[s] = subscriber[s] \/ subscriber'[s] = [subscriber[s] EXCEPT !.sink = Written(subscriber[s].sink, value)]
  BY DEF ToSinks
<1>2. /\ subscriber'[s].sent = subscriber[s].sent /\ subscriber'[s].cp = subscriber[s].cp
      /\ subscriber'[s].step = subscriber[s].step /\ subscriber'[s].sink \in {subscriber[s].sink, value, Done}
  BY <1>0, <1>1 DEF Subscription, Written
<1> QED
  BY <1>2, KnownBefore DEF SubscriberKnown

LEMMA YieldKnown ==
  ASSUME Types, Watched, AllLocated, [Next]_vars, NEW w \in Watcher, Known(w.sink), NEW cp, Known(cp), Yield(w, cp)
  PROVE  WatchKnown
<1>1. watcher' = [w EXCEPT !.step = "wait", !.lastOp = cp, !.last = cp] /\ subscriber' = ToSinks(w, cp)
  BY DEF Yield
<1>2. watcher'.sink = w.sink /\ watcher'.last = cp
  BY <1>1 DEF Watcher
<1> QED
  BY <1>1, <1>2, ToSinksKnown DEF WatchKnown, WatcherKnown

LEMMA EndKnown ==
  ASSUME Types, Watched, AllLocated, [Next]_vars, NEW w, End(w)
  PROVE  WatchKnown
<1>1. watcher'.sink = Empty /\ watcher'.last = Empty /\ subscriber' = ToSinks(w, Done)
  BY DEF End, Off
<1> QED
  BY <1>1, ToSinksKnown, KnownBefore DEF WatchKnown, WatcherKnown

LEMMA SinkChangesKnown ==
  ASSUME Types, Watched, AllLocated, [Next]_vars, NEW w \in Watcher, Known(w.sink), Known(w.last), NEW step,
         watcher' = [w EXCEPT !.step = step], UNCHANGED subscriber
  PROVE  WatchKnown
<1>1. watcher'.sink = w.sink /\ watcher'.last = w.last
  BY DEF Watcher
<1> QED
  BY <1>1, SubscribersSame DEF WatchKnown, WatcherKnown

LEMMA HandleKnown ==
  ASSUME Types, Watched, AllLocated, [Next]_vars, NEW w \in Watcher, Known(w.sink), Known(w.last), NEW cp, Known(cp), Handle(w, cp)
  PROVE  WatchKnown
BY YieldKnown, EndKnown, SinkChangesKnown DEF Handle

LEMMA WatcherStepsKnown ==
  ASSUME Types, Watched, AllLocated, [Next]_vars, WatcherNext
  PROVE  WatchKnown
<1>0. watcher \in Watcher /\ Known(row) /\ Known(watcher.sink) /\ Known(watcher.last) /\ Known(Empty) /\ row.id \in Nat
  BY KnownBefore, PositionFields DEF Watched, WatchType, Types, SourceType
<1>1. CASE ReadInitial
  <2> DEFINE w == [watcher EXCEPT !.id = row.id]
  <2>1. w \in Watcher /\ w.sink = watcher.sink
    BY <1>0 DEF Watcher
  <2>2. Yield(w, row)
    BY <1>1 DEF ReadInitial
  <2> HIDE DEF w
  <2> QED
    BY <1>0, <2>1, <2>2, YieldKnown
<1>2. CASE TakeFromSink
  <2> DEFINE w == [watcher EXCEPT !.sink = Empty]
  <2>1. w \in Watcher /\ w.sink = Empty /\ w.last = watcher.last
    BY <1>0 DEF Watcher, SinkValue
  <2>2. \/ End(w)
        \/ watcher' = [w EXCEPT !.step = "query"] /\ UNCHANGED subscriber
        \/ Handle(w, watcher.sink)
    BY <1>2 DEF TakeFromSink
  <2> HIDE DEF w
  <2> QED
    BY <1>0, <2>1, <2>2, EndKnown, SinkChangesKnown, HandleKnown
<1>3. CASE QueryAgain
  BY <1>0, <1>3, HandleKnown DEF QueryAgain
<1> QED
  BY <1>1, <1>2, <1>3 DEF WatcherNext

LEMMA RemovedKnown ==
  ASSUME Types, Watched, AllLocated, [Next]_vars, NEW s \in Subscribers, watcher' = Removed(s) \/ UNCHANGED watcher
  PROVE  WatcherKnown
<1>0. watcher \in Watcher
  BY DEF Watched, WatchType
<1>1. watcher'.sink \in {watcher.sink, Empty} /\ watcher'.last \in {watcher.last, Empty}
  BY <1>0 DEF Removed, Off, Watcher
<1> QED
  BY <1>1, KnownBefore DEF WatcherKnown

LEMMA SubscriberStepsKnown ==
  ASSUME Types, Watched, AllLocated, [Next]_vars, NEW s \in Subscribers, SubscriberNext(s) \/ Unsubscribe(s)
  PROVE  WatchKnown
<1> DEFINE old == subscriber[s]
<1>0. /\ subscriber \in [Subscribers -> Subscription] /\ old \in Subscription /\ watcher \in Watcher
      /\ SubscriberOrdered(s)
  BY DEF Watched, WatchType
<1>1. \A t \in Subscribers \ {s} : subscriber'[t] = subscriber[t]
  BY <1>0 DEF SubscriberNext, Subscribe, NextCheckpoint, LookUp, Unsubscribe
<1>2. ASSUME WatcherKnown, SubscriberKnown(s) PROVE WatchKnown
  <2>1. \A t \in Subscribers \ {s} : SubscriberKnown(t)
    BY <1>1, SubscribersSame
  <2> QED
    BY <1>2, <2>1 DEF WatchKnown
<1>3. CASE Subscribe(s)
  <2>1. subscriber'[s].step = "next" /\ subscriber'[s].sink = watcher.last /\ subscriber'[s].sent = old.sent
    BY <1>0, <1>3 DEF Subscribe, Subscription
  <2>2. watcher'.sink \in {watcher.sink, Empty} /\ watcher'.last \in {watcher.last, Empty}
    BY <1>0, <1>3 DEF Subscribe, Off, Watcher
  <2> QED
    BY <1>2, <2>1, <2>2, KnownBefore DEF WatcherKnown, SubscriberKnown
<1>4. CASE Unsubscribe(s)
  <2>1. subscriber'[s] = Unsubscribed
    BY <1>0, <1>4 DEF Unsubscribe
  <2>2. SubscriberKnown(s)
    BY <2>1, KnownBefore DEF SubscriberKnown, Unsubscribed
  <2> QED
    BY <1>2, <1>4, <2>2, RemovedKnown DEF Unsubscribe
<1>5. CASE NextCheckpoint(s)
  <2>1. WatcherKnown
    BY <1>5, RemovedKnown DEF NextCheckpoint
  <2>2. CASE old.sink = Done
    <3>1. subscriber'[s] = Unsubscribed
      BY <1>0, <1>5, <2>2 DEF NextCheckpoint
    <3> QED
      BY <1>2, <2>1, <3>1, KnownBefore DEF SubscriberKnown, Unsubscribed
  <2>3. CASE old.sink # Done
    <3>1. subscriber'[s] = [old EXCEPT !.step = "lookup", !.cp = old.sink, !.sink = Empty]
      BY <1>0, <1>5, <2>3 DEF NextCheckpoint
    <3>2. subscriber'[s].sent = old.sent /\ subscriber'[s].cp = old.sink /\ subscriber'[s].sink = Empty
      BY <1>0, <3>1 DEF Subscription
    <3> QED
      BY <1>2, <2>1, <3>2, KnownBefore DEF SubscriberKnown
  <2> QED
    BY <2>2, <2>3
<1>6. CASE LookUp(s)
  <2>1. UNCHANGED watcher /\ old.step = "lookup"
    BY <1>6 DEF LookUp
  <2>2. /\ subscriber'[s].step = "next" /\ subscriber'[s].sink = old.sink
        /\ subscriber'[s].sent \in {old.sent, old.cp}
    BY <1>0, <1>6 DEF LookUp, Subscription
  <2> QED
    BY <1>2, <2>1, <2>2, KnownBefore DEF WatcherKnown, SubscriberKnown
<1> QED
  BY <1>3, <1>4, <1>5, <1>6 DEF SubscriberNext

LEMMA AllLocatedStep ==
  ASSUME Types, Watched, AllLocated, [Next]_vars
  PROVE  AllLocated'
<1>1. ASSUME WatchKnown PROVE AllLocated'
  BY <1>1, NotificationsLocated DEF AllLocated, WatchKnown, WatcherKnown, SubscriberKnown, Known
<1>2. ASSUME UNCHANGED subscriber PROVE \A s \in Subscribers : SubscriberKnown(s)
  BY <1>2, SubscribersSame
<1>3. CASE UNCHANGED <<watcher, subscriber>>
  BY <1>1, <1>2, <1>3, KnownBefore DEF WatchKnown, WatcherKnown
<1>4. CASE Deliver
  <2>1. notifications \in Seq(Position) /\ notifications # << >>
    BY <1>4 DEF Deliver, Types, NotifyType
  <2>2. Head(notifications) = notifications[1] /\ 1 \in 1..Len(notifications)
    BY <2>1
  <2> QED
    BY <1>1, <1>2, <1>4, <2>2, KnownBefore, PushKnown DEF Deliver, WatchKnown
<1>5. CASE Connect \/ ConnectFails
  BY <1>1, <1>2, <1>5, KnownBefore, PushKnown DEF Connect, ConnectFails, WatchKnown
<1>6. CASE WatcherNext
  BY <1>1, <1>6, WatcherStepsKnown
<1>7. CASE \E s \in Subscribers : SubscriberNext(s) \/ Unsubscribe(s)
  BY <1>1, <1>7, SubscriberStepsKnown
<1>8. CASE Commit \/ Activate \/ Noise \/ Disconnect \/ Expire \/ UNCHANGED vars
  BY <1>3, <1>8 DEF Commit, Activate, Noise, Disconnect, Expire, watchVars, vars
<1>9. CASE \E b \in Batches : Request(b) \/ RetryRequest(b) \/ BatchNext(b) \/ RequestFails(b)
  BY <1>3, <1>9 DEF Request, RetryRequest, BatchNext, ReadHead, Persist, WriteMarker, Respond, RequestFails, watchVars
<1> QED
  BY <1>4, <1>5, <1>6, <1>7, <1>8, <1>9 DEF Next

-----------------------------------------------------------------------------
(* Requests, when the client supplies the ids *)

\* What the client has written stays when it writes more.
Grows(old, new) == Len(old) <= Len(new) /\ \A r \in 1..Len(old) : new[r] = old[r]

LEMMA BatchTrueStays ==
  ASSUME NEW r, NEW old \in Seq(Nat), NEW new \in Seq(Nat), Grows(old, new), BatchTrue(r, old)
  PROVE  BatchTrue(r, new)
BY DEF BatchTrue, Grows

LEMMA StoredTrueStays ==
  ASSUME NEW w, NEW old \in Seq(Nat), NEW new \in Seq(Nat), Grows(old, new), StoredTrue(w, old)
  PROVE  StoredTrue(w, new)
BY DEF StoredTrue, Grows

LEMMA InformedStays ==
  ASSUME NEW u, NEW old \in Seq(Nat), NEW new \in Seq(Nat), Grows(old, new), Informed(u, old)
  PROVE  Informed(u, new)
BY DEF Informed, Grows

LEMMA ClientFields ==
  ASSUME Types
  PROVE  client.written \in Seq(Nat) /\ client.acks \in Seq(Nat) /\ Len(client.written) \in Nat /\ Len(wal) \in Nat
BY DEF Types, RequestType, Client, SourceType

LEMMA UpsertedSupplied ==
  ASSUME Supplied, Types, StoredTrue(write_checkpoint, client.written), NEW r \in BatchRequest,
         BatchTrue(r, client.written), r.step = "persist"
  PROVE  StoredTrue(Upserted(r), client.written) /\ Upserted(r).id >= r.id
<1>1. r.id \in 1..Len(client.written) /\ client.written[r.id] <= r.head /\ r.id \in Nat
  BY MarkersDistinct DEF BatchTrue, BatchRequest
<1>2. CASE Upserted(r) = [id |-> r.id, lsn |-> r.head]
  BY <1>1, <1>2 DEF StoredTrue
<1>3. CASE Upserted(r) # [id |-> r.id, lsn |-> r.head]
  <2>1. write_checkpoint # None /\ ~(r.id > write_checkpoint.id) /\ Upserted(r) = write_checkpoint
    BY <1>3 DEF Upserted
  <2>2. write_checkpoint.id \in Nat
    BY <2>1 DEF Types, RequestType, WriteCheckpoint
  <2> QED
    BY <1>1, <2>1, <2>2
<1> QED
  BY <1>2, <1>3

\* The client after the step, and what it had written
LEMMA ClientStep ==
  ASSUME Supplied, Types, Acks, [Next]_vars
  PROVE  ClientTrue' /\ Grows(client.written, client'.written)
<1>0. /\ client \in Client /\ client.written \in Seq(Nat) /\ client.acks \in Seq(Nat) /\ ClientTrue
      /\ Len(wal) \in Nat /\ Len(wal') \in Nat /\ Len(wal') >= Len(wal)
  BY ClientFields, SourceTypeStep DEF Types, RequestType, Acks, SourceType
<1>1. ASSUME client'.written = client.written, client'.acks = client.acks, client'.step = client.step
      PROVE  ClientTrue' /\ Grows(client.written, client'.written)
  <2>1. ASSUME NEW r \in 1..Len(client.written)
        PROVE  client.written[r] <= Len(wal') /\ client.acks[r] >= r
    <3>1. client.written[r] \in Nat /\ client.written[r] <= Len(wal) /\ client.acks[r] >= r
      BY <1>0, SMTT(30) DEF ClientTrue
    <3> QED
      BY <1>0, <3>1
  <2>2. Grows(client.written, client'.written)
    BY <1>0, <1>1 DEF Grows
  <2>3. /\ client.step = "waiting" => Len(client.written) >= 1
        /\ Len(client.acks) = Len(client.written)
        /\ \A q, r \in 1..Len(client.written) : q <= r => client.written[q] <= client.written[r]
    BY <1>0 DEF ClientTrue
  <2>4. ClientTrue'
    BY <1>1, <2>1, <2>3, Zenon DEF ClientTrue
  <2> QED
    BY <2>2, <2>4
<1>2. ASSUME NEW b \in Batches, Request(b)
      PROVE  ClientTrue' /\ Grows(client.written, client'.written)
  <2> DEFINE n == Len(client.written)
  <2>1. client' = [client EXCEPT !.step = "waiting", !.written = Append(client.written, Len(wal')),
                                 !.acks = Append(client.acks, n + 1)]
    BY <1>2 DEF Request
  <2>2. client'.written = Append(client.written, Len(wal')) /\ client'.acks = Append(client.acks, n + 1)
    BY <1>0, <2>1 DEF Client
  <2>3. n \in Nat /\ Len(client.acks) = n
    BY <1>0 DEF ClientTrue
  <2>4. /\ Len(client'.written) = n + 1 /\ client'.written[n + 1] = Len(wal')
        /\ \A r \in 1..n : client'.written[r] = client.written[r]
    BY <1>0, <2>2, AppendProperties
  <2>5. /\ Len(client'.acks) = n + 1 /\ client'.acks[n + 1] = n + 1
        /\ \A r \in 1..n : client'.acks[r] = client.acks[r]
    BY <1>0, <2>2, <2>3, AppendProperties
  <2>6. ASSUME NEW r \in 1..n + 1 PROVE client'.written[r] <= Len(wal') /\ client'.acks[r] >= r
    <3>1. CASE r \in 1..n
      <4>1. client.written[r] <= Len(wal) /\ client.acks[r] >= r /\ client.written[r] \in Nat
        BY <1>0, <3>1, SMTT(30) DEF ClientTrue
      <4>2. client'.written[r] = client.written[r] /\ client'.acks[r] = client.acks[r]
        BY <2>4, <2>5, <3>1
      <4> QED
        BY <1>0, <4>1, <4>2
    <3>2. CASE r = n + 1
      BY <1>0, <2>3, <2>4, <2>5, <3>2
    <3> QED
      BY <2>3, <3>1, <3>2
  <2>7. ASSUME NEW q \in 1..n + 1, NEW r \in 1..n + 1, q <= r PROVE client'.written[q] <= client'.written[r]
    <3>1. CASE r \in 1..n
      <4>1. q \in 1..n
        BY <2>3, <2>7, <3>1
      <4>2. client'.written[q] = client.written[q] /\ client'.written[r] = client.written[r]
        BY <2>4, <3>1, <4>1
      <4>3. client.written[q] <= client.written[r]
        BY <1>0, <2>7, <3>1, <4>1 DEF ClientTrue
      <4> QED
        BY <4>2, <4>3
    <3>2. CASE r = n + 1
      BY <2>4, <2>6, <3>2
    <3> QED
      BY <2>3, <3>1, <3>2
  <2>8. ClientTrue'
    BY <2>3, <2>4, <2>5, <2>6, <2>7 DEF ClientTrue
  <2> QED
    BY <2>3, <2>4, <2>8 DEF Grows
<1>3. ASSUME NEW b \in Batches, Respond(b)
      PROVE  ClientTrue' /\ Grows(client.written, client'.written)
  <2> DEFINE r == batch[b]
  <2>1. CASE client' = client
    BY <1>1, <2>1
  <2>2. CASE client' # client
    <3>1. client' = [client EXCEPT !.step = "idle", !.acks = [client.acks EXCEPT ![r.id] = r.stored]]
      BY <1>3, <2>2 DEF Respond
    <3>2. r \in BatchRequest /\ r # None /\ r.step = "respond" /\ BatchTrue(r, client.written)
      BY <1>3 DEF Respond, Types, RequestType, Acks
    <3>3. r.id \in 1..Len(client.acks) /\ r.stored >= r.id /\ r.stored \in Nat
      BY <1>0, <3>2 DEF BatchTrue, ClientTrue, BatchRequest
    <3> DEFINE acks == [client.acks EXCEPT ![r.id] = r.stored]
    <3>4. /\ Len(acks) = Len(client.acks)
          /\ \A i \in 1..Len(client.acks) : acks[i] = IF i = r.id THEN r.stored ELSE client.acks[i]
      BY <1>0, <3>3, ExceptSeq
    <3>5. client'.written = client.written /\ client'.acks = acks /\ client'.step = "idle"
      BY <1>0, <3>1 DEF Client
    <3> HIDE DEF acks, r
    <3>6. wal' = wal
      BY <1>3 DEF Respond, sourceVars
    <3>7. \A i \in 1..Len(client.written) : acks[i] >= i
      BY <1>0, <3>3, <3>4 DEF ClientTrue
    <3> QED
      BY <1>0, <3>4, <3>5, <3>6, <3>7 DEF ClientTrue, Grows
  <2> QED
    BY <2>1, <2>2
<1>4. CASE Expire
  <2>1. client'.written = client.written /\ client'.acks = client.acks /\ client'.step = client.step
    BY <1>0, <1>4 DEF Expire, Client
  <2> QED
    BY <1>1, <2>1
<1>5. CASE UNCHANGED client
  BY <1>1, <1>5
<1>6. CASE \E b \in Batches : RetryRequest(b) \/ ReadHead(b) \/ Persist(b) \/ WriteMarker(b) \/ RequestFails(b)
  BY <1>5, <1>6 DEF RetryRequest, ReadHead, Persist, WriteMarker, RequestFails
<1>7. CASE Commit \/ Activate \/ Noise \/ Deliver \/ Disconnect \/ Connect \/ ConnectFails \/ WatcherNext \/ UNCHANGED vars
  BY <1>5, <1>7 DEF Commit, Activate, Noise, Deliver, Disconnect, Connect, ConnectFails, WatcherNext, ReadInitial,
     TakeFromSink, QueryAgain, vars, requestVars
<1>8. CASE \E s \in Subscribers : SubscriberNext(s) \/ Unsubscribe(s)
  BY <1>5, <1>8 DEF SubscriberNext, Subscribe, NextCheckpoint, LookUp, Unsubscribe, requestVars
<1> QED
  BY <1>2, <1>3, <1>4, <1>6, <1>7, <1>8 DEF Next, BatchNext

LEMMA BatchesStep ==
  ASSUME Supplied, Types, Acks, [Next]_vars
  PROVE  /\ \A b \in Batches : BatchTrue(batch'[b], client'.written)
         /\ StoredTrue(write_checkpoint', client'.written)
<1>0. /\ batch \in [Batches -> BatchRequest \cup {None}] /\ ClientTrue /\ Grows(client.written, client'.written)
      /\ client.written \in Seq(Nat) /\ client'.written \in Seq(Nat) /\ RequestType'
      /\ Len(client.written) \in Nat /\ Len(wal) \in Nat
  <2>1. RequestType'
    BY RequestTypeStep
  <2> QED
    BY <2>1, ClientFields, ClientStep DEF Types, RequestType, Acks, Client
<1>1. /\ \A b \in Batches : BatchTrue(batch[b], client'.written)
      /\ StoredTrue(write_checkpoint, client'.written) /\ StoredTrue(None, client'.written)
      /\ BatchTrue(None, client'.written)
  <2>1. \A b \in Batches : BatchTrue(batch[b], client.written)
    BY DEF Acks
  <2>2. StoredTrue(write_checkpoint, client.written)
    BY DEF Acks
  <2> QED
    BY <1>0, <2>1, <2>2, BatchTrueStays, StoredTrueStays DEF StoredTrue, BatchTrue
<1> DEFINE Goal == /\ \A b \in Batches : BatchTrue(batch'[b], client'.written)
                   /\ StoredTrue(write_checkpoint', client'.written)
<1>2. ASSUME NEW b \in Batches, NEW r, SetBatch(b, r), BatchTrue(r, client'.written),
             UNCHANGED write_checkpoint \/ StoredTrue(write_checkpoint', client'.written)
      PROVE  Goal
  BY <1>0, <1>1, <1>2 DEF SetBatch
<1>3. CASE UNCHANGED <<batch, write_checkpoint>>
  BY <1>1, <1>3
<1>4. \A id \in 1..Len(client'.written) : BatchTrue(NewBatch(id), client'.written)
  BY DEF BatchTrue, NewBatch
<1>5. ASSUME NEW b \in Batches, Request(b) PROVE Goal
  <2> DEFINE id == Len(client.written) + 1
  <2>1. SetBatch(b, NewBatch(id)) /\ UNCHANGED write_checkpoint
    BY <1>5 DEF Request, SetBatch
  <2>2. client'.written = Append(client.written, Len(wal'))
    BY <1>5 DEF Request, Types, RequestType, Client
  <2>3. Len(client'.written) = id
    BY <1>0, <2>2
  <2> QED
    BY <1>0, <1>2, <1>4, <2>1, <2>3
<1>6. ASSUME NEW b \in Batches, RetryRequest(b) PROVE Goal
  <2> DEFINE id == Len(client.written)
  <2>1. /\ UNCHANGED <<write_checkpoint, client>> /\ client.step = "waiting"
        /\ batch' = [c \in Batches |->
             IF c = b THEN NewBatch(id) ELSE IF batch[c] = None THEN None ELSE [batch[c] EXCEPT !.heard = FALSE]]
    BY <1>6 DEF RetryRequest
  <2>2. id \in 1..Len(client'.written)
    BY <1>0, <2>1 DEF ClientTrue
  <2>3. ASSUME NEW c \in Batches PROVE BatchTrue(batch'[c], client'.written)
    <3>1. CASE c = b
      BY <1>4, <2>1, <2>2, <3>1
    <3>2. CASE c # b /\ batch[c] = None
      BY <1>1, <2>1, <3>2
    <3>3. CASE c # b /\ batch[c] # None
      <4>1. batch'[c] = [batch[c] EXCEPT !.heard = FALSE] /\ batch[c] \in BatchRequest
        BY <1>0, <2>1, <3>3
      <4>2. batch'[c].id = batch[c].id /\ batch'[c].step = batch[c].step /\ batch'[c].head = batch[c].head
            /\ batch'[c].stored = batch[c].stored
        BY <4>1 DEF BatchRequest
      <4> QED
        BY <1>1, <3>3, <4>2 DEF BatchTrue
    <3> QED
      BY <3>1, <3>2, <3>3
  <2> QED
    BY <1>1, <2>1, <2>3
<1>7. ASSUME NEW b \in Batches, ReadHead(b) PROVE Goal
  <2> DEFINE r == [batch[b] EXCEPT !.step = "persist", !.head = Len(wal)]
  <2>1. batch[b] # None /\ batch[b] \in BatchRequest /\ UNCHANGED <<client, write_checkpoint>>
    BY <1>0, <1>7 DEF ReadHead
  <2>2. SetBatch(b, r)
    BY <1>0, <1>7 DEF ReadHead, SetBatch, CurrentLsn
  <2>3. r.id = batch[b].id /\ r.step = "persist" /\ r.head = Len(wal)
    BY <2>1 DEF BatchRequest
  <2> HIDE DEF r
  <2>4. BatchTrue(r, client.written)
    BY <1>0, <2>1, <2>3 DEF BatchTrue, ClientTrue, Acks
  <2> QED
    BY <1>2, <2>1, <2>2, <2>4
<1>8. ASSUME NEW b \in Batches, Persist(b) PROVE Goal
  <2> DEFINE new == Upserted(batch[b])
             r == [batch[b] EXCEPT !.step = IF ShouldAdvance(batch[b]) THEN "marker" ELSE "respond", !.stored = new.id]
  <2>1. /\ batch[b] # None /\ batch[b] \in BatchRequest /\ batch[b].step = "persist" /\ UNCHANGED client
        /\ write_checkpoint' = new /\ BatchTrue(batch[b], client.written)
    BY <1>0, <1>8 DEF Persist, Acks
  <2>2. SetBatch(b, r)
    BY <1>0, <1>8 DEF Persist, SetBatch
  <2>3. StoredTrue(new, client.written) /\ new.id >= batch[b].id
    BY <2>1, UpsertedSupplied DEF Acks
  <2> HIDE DEF new
  <2>4. r.id = batch[b].id /\ r.step \in {"marker", "respond"} /\ r.head = batch[b].head /\ r.stored = new.id
    BY <2>1 DEF BatchRequest
  <2> HIDE DEF r
  <2>5. BatchTrue(r, client.written)
    BY <2>1, <2>3, <2>4 DEF BatchTrue
  <2> QED
    BY <1>2, <2>1, <2>2, <2>3, <2>5
<1>9. ASSUME NEW b \in Batches, WriteMarker(b) PROVE Goal
  <2> DEFINE r == [batch[b] EXCEPT !.step = "respond"]
  <2>1. batch[b] # None /\ batch[b] \in BatchRequest /\ batch[b].step = "marker" /\ UNCHANGED <<client, write_checkpoint>>
    BY <1>0, <1>9 DEF WriteMarker
  <2>2. SetBatch(b, r)
    BY <1>9 DEF WriteMarker, SetBatch
  <2>3. r.id = batch[b].id /\ r.step = "respond" /\ r.head = batch[b].head /\ r.stored = batch[b].stored
    BY <2>1 DEF BatchRequest
  <2> HIDE DEF r
  <2>4. BatchTrue(r, client.written)
    BY <2>1, <2>3 DEF BatchTrue, Acks
  <2> QED
    BY <1>2, <2>1, <2>2, <2>4
<1>10. ASSUME NEW b \in Batches, Respond(b) \/ RequestFails(b) PROVE Goal
  BY <1>1, <1>2, <1>10 DEF Respond, RequestFails, SetBatch
<1>11. CASE Expire
  BY <1>1, <1>11 DEF Expire
<1>12. CASE Commit \/ Activate \/ Noise \/ Deliver \/ Disconnect \/ Connect \/ ConnectFails \/ WatcherNext \/ UNCHANGED vars
  BY <1>3, <1>12 DEF Commit, Activate, Noise, Deliver, Disconnect, Connect, ConnectFails, WatcherNext, ReadInitial,
     TakeFromSink, QueryAgain, vars, requestVars
<1>13. CASE \E s \in Subscribers : SubscriberNext(s) \/ Unsubscribe(s)
  BY <1>3, <1>13 DEF SubscriberNext, Subscribe, NextCheckpoint, LookUp, Unsubscribe, requestVars
<1> QED
  BY <1>5, <1>6, <1>7, <1>8, <1>9, <1>10, <1>11, <1>12, <1>13 DEF Next, BatchNext

\* What a subscriber knows of the write checkpoint
LEMMA InformedStep ==
  ASSUME Supplied, Types, Watched, Acks, [Next]_vars, NEW s \in Subscribers
  PROVE  Informed(subscriber'[s], client'.written)
<1> DEFINE old == subscriber[s]
           new == subscriber'[s]
<1>0. /\ subscriber \in [Subscribers -> Subscription] /\ old \in Subscription /\ Informed(old, client.written)
      /\ Informed(old, client'.written) /\ client.written \in Seq(Nat) /\ client'.written \in Seq(Nat)
  <2>1. RequestType'
    BY RequestTypeStep
  <2>2. client.written \in Seq(Nat) /\ client'.written \in Seq(Nat) /\ Grows(client.written, client'.written)
    BY <2>1, ClientFields, ClientStep DEF RequestType, Client
  <2> QED
    BY <2>2, InformedStays DEF Watched, WatchType, Acks
<1>1. ASSUME new.sent = old.sent, new.lastWriteCheckpoint = old.lastWriteCheckpoint
      PROVE  Informed(new, client'.written)
  BY <1>0, <1>1 DEF Informed
<1>2. Informed(Unsubscribed, client'.written)
  BY DEF Informed, Unsubscribed
<1>3. ASSUME NEW w, NEW value, subscriber' = ToSinks(w, value)
      PROVE  Informed(new, client'.written)
  <2>1. new.sent = old.sent /\ new.lastWriteCheckpoint = old.lastWriteCheckpoint
    BY <1>0, <1>3 DEF ToSinks, Subscription
  <2> QED
    BY <1>1, <2>1
<1>4. ASSUME NEW w, NEW cp, Yield(w, cp) \/ End(w) \/ Handle(w, cp) PROVE Informed(new, client'.written)
  BY <1>1, <1>3, <1>4 DEF Yield, End, Handle
<1>5. CASE WatcherNext
  BY <1>1, <1>4, <1>5 DEF WatcherNext, ReadInitial, TakeFromSink, QueryAgain
<1>6. CASE UNCHANGED subscriber
  BY <1>1, <1>6
<1>7. ASSUME NEW t \in Subscribers, SubscriberNext(t) \/ Unsubscribe(t)
      PROVE  Informed(new, client'.written)
  <2>1. CASE t # s
    <3>1. new = old
      BY <1>0, <1>7, <2>1 DEF SubscriberNext, Subscribe, NextCheckpoint, LookUp, Unsubscribe
    <3> QED
      BY <1>1, <3>1
  <2>2. CASE t = s /\ (Subscribe(s) \/ Unsubscribe(s) \/ NextCheckpoint(s))
    <3>1. new = Unsubscribed \/ (new.sent = old.sent /\ new.lastWriteCheckpoint = old.lastWriteCheckpoint)
      <4>1. CASE Subscribe(s)
        BY <1>0, <4>1 DEF Subscribe, Subscription
      <4>2. CASE Unsubscribe(s)
        BY <1>0, <4>2 DEF Unsubscribe
      <4>3. CASE NextCheckpoint(s)
        BY <1>0, <4>3 DEF NextCheckpoint, Subscription
      <4> QED
        BY <2>2, <4>1, <4>2, <4>3
    <3> QED
      BY <1>1, <1>2, <3>1
  <2>3. CASE LookUp(s)
    <3> DEFINE current == LastWriteCheckpoint(old.cp.lsn)
    <3>1. UNCHANGED client
      BY <2>3 DEF LookUp, requestVars
    <3>2. \/ new.sent = old.sent /\ new.lastWriteCheckpoint = old.lastWriteCheckpoint
          \/ new.sent = old.cp /\ new.lastWriteCheckpoint = current
      BY <1>0, <2>3 DEF LookUp, Subscription
    <3>3. CASE new.sent = old.cp /\ new.lastWriteCheckpoint = current /\ current # None
      <4>1. write_checkpoint # None /\ write_checkpoint.lsn <= old.cp.lsn /\ current = write_checkpoint.id
        BY <3>3 DEF LastWriteCheckpoint
      <4>2. /\ write_checkpoint.id \in 1..Len(client.written)
            /\ client.written[write_checkpoint.id] <= write_checkpoint.lsn
        BY <4>1 DEF Acks, StoredTrue
      <4>3. write_checkpoint.lsn \in Nat /\ old.cp \in Position /\ old.cp.lsn \in Nat
            /\ client.written[write_checkpoint.id] \in Nat
        <5>1. write_checkpoint.lsn \in Nat
          BY <4>1 DEF Types, RequestType, WriteCheckpoint
        <5>2. old.cp \in Position /\ old.cp.lsn \in Nat
          BY <1>0 DEF Subscription, Position
        <5>3. client.written \in Seq(Nat)
          BY DEF Types, RequestType, Client
        <5>4. client.written[write_checkpoint.id] \in Nat
          BY <4>2, <5>3
        <5> QED
          BY <5>1, <5>2, <5>4
      <4> HIDE DEF current, old, new
      <4> QED
        BY <3>1, <3>3, <4>1, <4>2, <4>3 DEF Informed
    <3>4. CASE new.sent = old.cp /\ new.lastWriteCheckpoint = current /\ current = None
      BY <3>4 DEF Informed
    <3> QED
      BY <1>1, <3>2, <3>3, <3>4
  <2> QED
    BY <1>7, <2>1, <2>2, <2>3 DEF SubscriberNext
<1>8. CASE Commit \/ Activate \/ Noise \/ Deliver \/ Disconnect \/ Connect \/ ConnectFails \/ Expire \/ UNCHANGED vars
  BY <1>6, <1>8 DEF Commit, Activate, Noise, Deliver, Disconnect, Connect, ConnectFails, Expire, watchVars, vars
<1>9. CASE \E b \in Batches : Request(b) \/ RetryRequest(b) \/ BatchNext(b) \/ RequestFails(b)
  BY <1>6, <1>9 DEF Request, RetryRequest, BatchNext, ReadHead, Persist, WriteMarker, Respond, RequestFails, watchVars
<1> QED
  BY <1>5, <1>7, <1>8, <1>9 DEF Next

LEMMA AcksInit == Init /\ Types /\ Watched => Acks
<1> SUFFICES ASSUME Init, Types, Watched PROVE Acks
  OBVIOUS
<1>1. /\ wal = <<"marker">> /\ row = [id |-> 1, checkpoint |-> 0, lsn |-> 1] /\ notifications = << >>
      /\ watcher.sink = Empty /\ watcher.last = Empty
      /\ \A s \in Subscribers : subscriber[s] = Unsubscribed
      /\ client = [step |-> "idle", written |-> << >>, acks |-> << >>, expired |-> FALSE]
      /\ write_checkpoint = None /\ \A b \in Batches : batch[b] = None
  BY DEF Init, Off
<1>2. Located(row, wal)
  <2>1. WritesIn(wal, 1) = {}
    BY <1>1 DEF WritesIn
  <2>2. Cardinality(WritesIn(wal, 1)) = 0
    BY <2>1, FS_EmptySet
  <2>3. row.lsn = 1 /\ row.checkpoint = 0 /\ Len(wal) = 1
    BY <1>1
  <2> QED
    BY <2>2, <2>3 DEF Located
<1>3. AllLocated
  BY <1>1, <1>2, LocatedMarkers DEF AllLocated, Unsubscribed
<1>4. ClientTrue
  BY <1>1 DEF ClientTrue
<1> QED
  BY <1>1, <1>3, <1>4 DEF Acks, BatchTrue, StoredTrue, Informed, Unsubscribed

LEMMA AcksStep ==
  ASSUME Supplied, Types, Watched, Acks, [Next]_vars
  PROVE  Acks'
<1>1. AllLocated'
  BY AllLocatedStep DEF Acks
<1>2. ClientTrue'
  BY ClientStep
<1>3. /\ \A b \in Batches : BatchTrue(batch'[b], client'.written)
      /\ StoredTrue(write_checkpoint', client'.written)
  BY BatchesStep
<1>4. \A s \in Subscribers : Informed(subscriber'[s], client'.written)
  BY InformedStep
<1> QED
  BY <1>1, <1>2, <1>3, <1>4 DEF Acks

(***************************************************************************)
(* A client that supplies its ids (/sync/checkpoint-request) and is sent   *)
(* one, or a later one, is sent it with a checkpoint that has all it had   *)
(* written before the request. Generated ids do not have this.             *)
(***************************************************************************)
THEOREM SuppliedAcksReplicated == Supplied => (Spec => []AckedIsReplicated)
<1> SUFFICES ASSUME Supplied PROVE Spec => []AckedIsReplicated
  OBVIOUS
<1>1. Init /\ Types /\ Watched => Acks
  BY AcksInit
<1>2. Types /\ Watched /\ Acks /\ [Next]_vars => Acks'
  BY AcksStep
<1>3. ASSUME Types, Watched, Acks PROVE AckedIsReplicated
  <2> SUFFICES ASSUME NEW s \in Subscribers, NEW r \in DOMAIN client.acks, Acked(s, r)
               PROVE  Writes(client.written[r]) <= subscriber[s].sent.checkpoint
    BY DEF AckedIsReplicated
  <2> DEFINE w == subscriber[s].lastWriteCheckpoint
             sent == subscriber[s].sent
  <2>1. /\ client.written \in Seq(Nat) /\ client.acks \in Seq(Nat) /\ ClientTrue
        /\ Len(client.written) \in Nat /\ r \in 1..Len(client.written)
    BY <1>3, ClientFields DEF Acks, ClientTrue
  <2>2. w # None /\ client.acks[r] <= w /\ client.acks[r] >= r
    BY <2>1 DEF Acked, ClientTrue
  <2>3. sent \in Position /\ w \in 1..Len(client.written) /\ client.written[w] <= sent.lsn
    BY <1>3, <2>2 DEF Acks, Informed
  <2>4. Located(sent, wal)
    BY <1>3 DEF Acks, AllLocated
  <2> HIDE DEF w, sent
  <2>5. client.acks[r] \in Nat /\ r <= w
    BY <2>1, <2>2, <2>3 DEF ClientTrue
  <2>6. client.written[r] <= client.written[w] /\ client.written[r] \in Nat /\ client.written[w] \in Nat
    BY <2>1, <2>3, <2>5, SMTT(30) DEF ClientTrue
  <2>7. sent.lsn \in Nat /\ client.written[r] <= sent.lsn
    BY <2>3, <2>6, PositionFields
  <2>8. Writes(client.written[r]) <= Writes(sent.lsn)
    BY <2>6, <2>7, WritesMonotone
  <2>9. Writes(sent.lsn) = sent.checkpoint
    BY <2>3, <2>4 DEF Located, Writes, WritesIn
  <2> QED
    BY <2>8, <2>9 DEF sent
<1> QED
  BY <1>1, <1>2, <1>3, Invariance, PTL DEF Spec
=============================================================================
