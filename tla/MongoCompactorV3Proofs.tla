------------------------ MODULE MongoCompactorV3Proofs ------------------------
(***************************************************************************)
(* Proofs about compaction on MongoDB storage v3: a bucket with work left  *)
(* stays scheduled, whatever writers and workers do and whatever becomes   *)
(* of their leases; and as long as one worker has the bucket, what it      *)
(* makes of the documents reads as what was written.                       *)
(***************************************************************************)
EXTENDS MongoCompactorV3, BucketsProofs

(***************************************************************************)
(* The invariant. Fields that the argument does not depend on are only     *)
(* said to be there.                                                       *)
(***************************************************************************)
Seen == UNION {[D -> Nat] : D \in SUBSET Rows}
Lease == [id : Compactors, expired : BOOLEAN]

IsState(s) ==
  s \in [last_op : Nat, count : {s.count}, chunks : {s.chunks}, compacted_state : {s.compacted_state},
         last_full_compact : {s.last_full_compact}, first_uncompacted_write : BOOLEAN,
         next_compact_check : BOOLEAN, compact_lease : Lease \cup {None}]

Steps == {"idle", "inspected", "reschedule", "read", "clear", "boundary", "merge", "finalize"}

HasFields(w) ==
  w \in [step : Steps, cap : {w.cap}, state : {w.state}, kind : {"none", "full", "chunks"}, target : {w.target},
         bound : {w.bound}, batch : SUBSET Doc, more : {w.more}, seen : Seen, lastNotPut : Nat, opsSincePut : Nat,
         compactedOp : Nat, clearAt : {w.clearAt}, stats : {w.stats}, previous : {w.previous}, overlap : {w.overlap},
         verify : {w.verify}, pending : SUBSET Doc, ops : SUBSET Op, changed : {w.changed}, target_op : Nat]

IsWorker(w) ==
  /\ HasFields(w)
  /\ IsFiniteSet(w.batch) /\ IsFiniteSet(w.pending) /\ IsFiniteSet(w.ops)
  /\ w.step = "merge" \/ (w.kind = "full" /\ w.pending # {}) => w.ops # {}
  /\ w.step # "idle" => IsState(w.state)
  /\ w.step = "inspected" => w.state.next_compact_check = TRUE /\ w.pending = {}

\* It has claimed the bucket.
IsBusy(w) == w.step \notin {"idle", "inspected"}

IsHeldBy(s, c) == s.compact_lease # None /\ s.compact_lease.id = c

LogTypeOK == IsFiniteSet(log) /\ log \subseteq Op /\ \A o \in log : o.op_id <= last_op

IsScheduled(s, n) ==
  /\ IsState(s)
  /\ s.last_op = n
  /\ s.last_full_compact < n => s.next_compact_check = TRUE
  /\ s.next_compact_check = s.first_uncompacted_write

\* The lease of a worker that is at work comes with a write that is not compacted yet.
LeaseOK(s, w) == \A c \in Compactors : IsBusy(w[c]) /\ IsHeldBy(s, c) => s.first_uncompacted_write = TRUE

SchedInv ==
  /\ LogTypeOK
  /\ DocsOK(bucket_data)
  /\ compactors = [c \in Compactors |-> compactors[c]]
  /\ \A c \in Compactors : IsWorker(compactors[c])
  /\ \/ bucket_state = None /\ \A c \in Compactors : compactors[c].step = "idle"
     \/ IsScheduled(bucket_state, last_op) /\ LeaseOK(bucket_state, compactors)

-----------------------------------------------------------------------------
(***************************************************************************)
(* What a scan makes of a document: as many operations, with their ids, of *)
(* which some have become a MOVE.                                          *)
(***************************************************************************)
FiniteOps == {ops \in SUBSET Op : IsFiniteSet(ops)}

ScanState ==
  [seen : Seen, lastNotPut : Nat, opsSincePut : Nat, ops : FiniteOps, target_op : Nat, changed : {TRUE, FALSE}]

\* What is not a PUT, or is superseded, counts towards the prefix to clear.
Counted(o, s) ==
  IF o.op = "PUT" /\ o.row \notin DOMAIN s.seen THEN [s EXCEPT !.lastNotPut = Null, !.opsSincePut = 0]
  ELSE IF o.op = "CLEAR" THEN s
  ELSE [s EXCEPT !.lastNotPut = IF @ = Null THEN o.op_id ELSE @, !.opsSincePut = @ + 1]

LEMMA CountedType ==
  ASSUME NEW s \in ScanState, NEW o \in Op
  PROVE  Counted(o, s) \in ScanState /\ Counted(o, s).ops = s.ops /\ Counted(o, s).seen = s.seen
<1>1. o.op_id \in Nat
  BY OpFields
<1>2. \A m \in Nat, n \in Nat :
        /\ [s EXCEPT !.lastNotPut = m, !.opsSincePut = n] \in ScanState
        /\ [s EXCEPT !.lastNotPut = m, !.opsSincePut = n].ops = s.ops
        /\ [s EXCEPT !.lastNotPut = m, !.opsSincePut = n].seen = s.seen
  BY DEF ScanState
<1>3. s.lastNotPut \in Nat /\ s.opsSincePut + 1 \in Nat
  BY DEF ScanState
<1>4. \E m \in Nat, n \in Nat : Counted(o, s) = [s EXCEPT !.lastNotPut = m, !.opsSincePut = n] \/ Counted(o, s) = s
  BY <1>1, <1>3 DEF Counted, Null
<1>5. CASE Counted(o, s) = s
  BY <1>5
<1>6. CASE \E m \in Nat, n \in Nat : Counted(o, s) = [s EXCEPT !.lastNotPut = m, !.opsSincePut = n]
  <2>1. PICK m \in Nat, n \in Nat : Counted(o, s) = [s EXCEPT !.lastNotPut = m, !.opsSincePut = n]
    BY <1>6
  <2> DEFINE t == [s EXCEPT !.lastNotPut = m, !.opsSincePut = n]
  <2>2. t \in ScanState /\ t.ops = s.ops /\ t.seen = s.seen
    BY <1>2
  <2>3. Counted(o, s) = t
    BY <2>1
  <2> HIDE DEF t
  <2> QED BY <2>2, <2>3
<1> QED BY <1>4, <1>5, <1>6

LEMMA RememberType ==
  ASSUME NEW f \in Seen, NEW o, o.row \in Rows, o.op_id \in Nat
  PROVE  Remember(o, f) \in Seen
<1>1. PICK D \in SUBSET Rows : f \in [D -> Nat]
  BY DEF Seen
<1>2. [r \in DOMAIN f \cup {o.row} |-> IF r = o.row THEN o.op_id ELSE f[r]] \in [(D \cup {o.row}) -> Nat]
  BY <1>1
<1>3. D \cup {o.row} \in SUBSET Rows
  BY <1>1
<1> QED BY <1>2, <1>3 DEF Seen, Remember

LEMMA MovedFields ==
  ASSUME NEW I, NEW R, NEW D, NEW T, NEW N, NEW o,
         o \in [op : {"PUT", "REMOVE"}, op_id : I, row : R, data : D, checksum : N, target_op : T]
  PROVE  [o EXCEPT !.op = "MOVE", !.row = None, !.data = None]
           \in [op : {"MOVE"}, op_id : I, row : {None}, data : {None}, checksum : N, target_op : T]
OBVIOUS

LEMMA MovedIs ==
  ASSUME NEW o \in Op, o.op \in {"PUT", "REMOVE"}
  PROVE  [o EXCEPT !.op = "MOVE", !.row = None, !.data = None] \in MoveOp
<1>1. o \in PutOp \/ o \in RemoveOp
  BY DEF Op, MoveOp, ClearOp
<1> DEFINE I == Nat \ {0}
<1>2. o \in [op : {"PUT", "REMOVE"}, op_id : I, row : Rows, data : Values \cup {None}, checksum : Nat, target_op : Nat]
  BY <1>1 DEF PutOp, RemoveOp, Null
<1>3. [o EXCEPT !.op = "MOVE", !.row = None, !.data = None]
        \in [op : {"MOVE"}, op_id : I, row : {None}, data : {None}, checksum : Nat, target_op : Nat]
  <2> HIDE DEF I
  <2> QED BY <1>2, MovedFields
<1> QED BY <1>3 DEF MoveOp

LEMMA OpsMore ==
  ASSUME NEW ops \in FiniteOps, NEW o \in Op
  PROVE  ops \cup {o} \in FiniteOps
BY FS_AddElement DEF FiniteOps

LEMMA ScanType ==
  ASSUME NEW s \in ScanState, NEW o \in Op
  PROVE  Scan(o, s) \in ScanState /\ Scan(o, s).ops # {}
<1> DEFINE counted == Counted(o, s)
           superseded == o.op \in {"PUT", "REMOVE"} /\ o.row \in DOMAIN s.seen
           moved == [o EXCEPT !.op = "MOVE", !.row = None, !.data = None]
<1>1. counted \in ScanState /\ counted.ops = s.ops /\ counted.seen = s.seen
  BY CountedType
<1>2. s.ops \in FiniteOps /\ s.seen \in Seen
  BY DEF ScanState
<1>3. Scan(o, s) =
        IF superseded THEN [counted EXCEPT !.ops = @ \cup {moved}, !.target_op = Max({@, s.seen[o.row]}), !.changed = TRUE]
        ELSE [counted EXCEPT !.ops = @ \cup {o},
                !.seen = IF o.op \in {"PUT", "REMOVE"} THEN Remember(o, @) ELSE @]
  BY ZenonT(40) DEF Scan, Counted
<1>4. CASE superseded
  <2>1. moved \in Op
    BY <1>4, MovedIs DEF Op
  <2>2. counted.ops \cup {moved} \in FiniteOps /\ counted.ops \cup {moved} # {}
    <3> HIDE DEF counted, moved
    <3> QED BY <1>1, <1>2, <2>1, OpsMore
  <2>3. Max({counted.target_op, s.seen[o.row]}) \in Nat
    <3>1. s.seen[o.row] \in Nat
      BY <1>2, <1>4 DEF Seen
    <3>2. counted.target_op \in Nat
      <4> HIDE DEF counted
      <4> QED BY <1>1 DEF ScanState
    <3> HIDE DEF counted
    <3> QED BY <3>1, <3>2, MaxOfTwo
  <2> HIDE DEF counted, moved, superseded
  <2> QED BY <1>1, <1>3, <1>4, <2>2, <2>3 DEF ScanState
<1>5. CASE ~superseded
  <2>1. counted.ops \cup {o} \in FiniteOps /\ counted.ops \cup {o} # {}
    <3> HIDE DEF counted
    <3> QED BY <1>1, <1>2, OpsMore
  <2>2. o.op \in {"PUT", "REMOVE"} => Remember(o, counted.seen) \in Seen
    <3> HIDE DEF counted
    <3> QED BY <1>1, <1>2, OpFields, RememberType
  <2> HIDE DEF counted, superseded
  <2> QED BY <1>1, <1>2, <1>3, <1>5, <2>1, <2>2 DEF ScanState
<1> QED BY <1>4, <1>5

IsScan(g, base, S) ==
  g = [s \in SUBSET S |-> IF s = {} THEN base ELSE Scan(FirstOp(s), g[s \ {FirstOp(s)}])]

ScanOf(base, S) == MapThenFoldSet(Scan, base, LAMBDA o : o, FirstOp, S)

LEMMA ScanFold == \A base, S : ScanOf(base, S) = (CHOOSE g : IsScan(g, base, S))[S]
BY DEF ScanOf, MapThenFoldSet, IsScan

LEMMA ScanExists ==
  ASSUME NEW S, IsFiniteSet(S), S \subseteq Op, NEW base \in ScanState
  PROVE  \E g : IsScan(g, base, S)
<1> DEFINE C == [T \in (SUBSET S) \ {{}} |-> FirstOp(T)]
           h == [p \in (SUBSET S) \X ScanState |-> IF p[1] = {} THEN base ELSE Scan(FirstOp(p[1]), p[2])]
<1>1. \A T \in (SUBSET S) \ {{}} : FirstOp(T) \in T /\ FirstOp(T) \in Op
  BY FirstOpMin, FS_Subset
<1>2. \A T \in (SUBSET S) \ {{}} : C[T] \in T
  BY <1>1
<1>3. h \in [(SUBSET S) \X ScanState -> ScanState]
  <2>1. \A p \in (SUBSET S) \X ScanState : p[1] # {} => Scan(FirstOp(p[1]), p[2]) \in ScanState
    BY <1>1, ScanType
  <2> QED BY <2>1
<1>4. IsFoldData(S, ScanState, base, C, h)
  <2> HIDE DEF C, h
  <2> QED BY <1>2, <1>3 DEF IsFoldData
<1>5. PICK g : IsFoldOf(g, S, ScanState, base, C, h)
  <2> HIDE DEF C, h
  <2> QED BY <1>4, FoldExists
<1>6. /\ g \in [SUBSET S -> ScanState]
      /\ g[{}] = base
      /\ \A T \in (SUBSET S) \ {{}} : g[T] = h[<<T, g[T \ {C[T]}]>>]
  <2> HIDE DEF C, h
  <2> QED BY <1>5 DEF IsFoldOf
<1>7. \A T \in (SUBSET S) \ {{}} : g[T] = Scan(FirstOp(T), g[T \ {FirstOp(T)}])
  BY <1>1, <1>6
<1>8. IsScan(g, base, S)
  <2> HIDE DEF C, h
  <2>1. \A T \in SUBSET S : g[T] = IF T = {} THEN base ELSE Scan(FirstOp(T), g[T \ {FirstOp(T)}])
    BY <1>6, <1>7
  <2> QED BY <1>6, <2>1 DEF IsScan
<1> QED BY <1>8

LEMMA ScanOfType ==
  ASSUME NEW S, IsFiniteSet(S), S \subseteq Op, S # {}, NEW base \in ScanState
  PROVE  ScanOf(base, S) \in ScanState /\ ScanOf(base, S).ops # {}
<1> DEFINE g == CHOOSE f : IsScan(f, base, S)
           P == {T \in SUBSET S : g[T] \in ScanState /\ (T # {} => g[T].ops # {})}
<1>1. IsScan(g, base, S)
  BY ScanExists
<1>2. \A T \in SUBSET S : g[T] = IF T = {} THEN base ELSE Scan(FirstOp(T), g[T \ {FirstOp(T)}])
  <2> HIDE DEF g
  <2> QED BY <1>1 DEF IsScan
<1>3. ASSUME NEW T \in SUBSET S, \A U \in SUBSET T : U # T => U \in P
      PROVE  T \in P
  <2>1. CASE T = {}
    <3> HIDE DEF g
    <3> QED BY <1>2, <2>1
  <2>2. CASE T # {}
    <3>1. FirstOp(T) \in T /\ FirstOp(T) \in Op
      BY <2>2, FirstOpMin, FS_Subset
    <3>2. g[T \ {FirstOp(T)}] \in ScanState
      <4> HIDE DEF g
      <4> QED BY <1>3, <3>1
    <3>3. g[T] = Scan(FirstOp(T), g[T \ {FirstOp(T)}])
      <4> HIDE DEF g
      <4> QED BY <1>2, <2>2
    <3> HIDE DEF g
    <3> QED BY <3>1, <3>2, <3>3, ScanType
  <2> QED BY <2>1, <2>2
<1>4. S \in P
  <2> HIDE DEF P
  <2>1. \A T \in SUBSET S : (\A U \in SUBSET T : U # T => U \in P) => T \in P
    BY <1>3
  <2> QED BY <2>1, SubsetInduction
<1>5. ScanOf(base, S) = g[S]
  BY ScanFold
<1> HIDE DEF g
<1> QED BY <1>4, <1>5

LEMMA ScanDocumentType ==
  ASSUME NEW w, HasFields(w), NEW d \in Doc
  PROVE  ScanDocument(w, d) \in ScanState /\ ScanDocument(w, d).ops # {}
<1> DEFINE base == [seen |-> w.seen, lastNotPut |-> w.lastNotPut, opsSincePut |-> w.opsSincePut,
                    ops |-> {}, target_op |-> d.target_op, changed |-> FALSE]
<1>1. base \in ScanState
  <2>1. w.seen \in Seen /\ w.lastNotPut \in Nat /\ w.opsSincePut \in Nat
    BY DEF HasFields
  <2>2. d.target_op \in Nat
    BY DocFields
  <2>3. {} \in FiniteOps
    BY FS_EmptySet DEF FiniteOps
  <2> QED BY <2>1, <2>2, <2>3 DEF ScanState
<1>2. ScanDocument(w, d) = ScanOf(base, d.ops)
  BY DEF ScanDocument, ScanOf
<1> HIDE DEF base
<1> QED BY <1>1, <1>2, DocFields, ScanOfType

-----------------------------------------------------------------------------
(***************************************************************************)
(* What the invariant says of one worker, and what it asks of a step.      *)
(***************************************************************************)
LEMMA SchedFields ==
  ASSUME SchedInv, NEW c \in Compactors
  PROVE  /\ LogTypeOK /\ DocsOK(bucket_data) /\ IsWorker(compactors[c]) /\ HasFields(compactors[c]) /\ last_op \in Nat
         /\ compactors[c].step # "idle" => IsScheduled(bucket_state, last_op) /\ LeaseOK(bucket_state, compactors)
<1>1. last_op \in Nat
  BY FS_CardinalityType DEF SchedInv, LogTypeOK, last_op
<1> QED BY <1>1 DEF SchedInv, IsWorker

LEMMA IdleIsWorker == IsWorker(Idle)
<1>1. << >> \in Seen
  <2>1. << >> \in [{} -> Nat]
    OBVIOUS
  <2> QED BY <2>1 DEF Seen
<1>2. HasFields(Idle)
  BY <1>1 DEF HasFields, Idle, Steps, Null
<1>3. Idle.step = "idle" /\ Idle.batch = {} /\ Idle.pending = {} /\ Idle.ops = {}
  BY DEF Idle
<1> QED BY <1>2, <1>3, FS_EmptySet DEF IsWorker

(* The state of a step's own worker, of the bucket and of its documents    *)
LEMMA StepKeeps ==
  ASSUME SchedInv, NEW c \in Compactors, NEW w, Become(c, w), IsWorker(w), UNCHANGED log, DocsOK(bucket_data'),
         IsScheduled(bucket_state', last_op),
         \A d \in Compactors : IsHeldBy(bucket_state', d) => IsHeldBy(bucket_state, d) \/ d = c,
         \A d \in Compactors \ {c} : IsHeldBy(bucket_state', d) /\ bucket_state.first_uncompacted_write = TRUE
                                       => bucket_state'.first_uncompacted_write = TRUE,
         LeaseOK(bucket_state, compactors),
         IsBusy(w) /\ IsHeldBy(bucket_state', c) => bucket_state'.first_uncompacted_write = TRUE
  PROVE  SchedInv'
<1>0. last_op' = last_op
  BY DEF last_op
<1>1. LogTypeOK'
  BY DEF SchedInv, LogTypeOK, last_op
<1>2. compactors' = [d \in Compactors |-> IF d = c THEN w ELSE compactors[d]]
  BY DEF SchedInv, Become
<1>3. compactors' = [d \in Compactors |-> compactors'[d]] /\ compactors'[c] = w
      /\ \A d \in Compactors : d # c => compactors'[d] = compactors[d]
  BY <1>2
<1>4. \A d \in Compactors : IsWorker(compactors'[d])
  BY <1>3 DEF SchedInv
<1>6. ASSUME NEW d \in Compactors, IsBusy(compactors'[d]), IsHeldBy(bucket_state', d)
      PROVE  bucket_state'.first_uncompacted_write = TRUE
  <2>1. CASE d = c
    BY <1>3, <1>6, <2>1
  <2>2. CASE d # c
    <3>1. IsHeldBy(bucket_state, d) /\ IsBusy(compactors[d])
      BY <1>3, <1>6, <2>2
    <3>2. bucket_state.first_uncompacted_write = TRUE
      BY <3>1 DEF LeaseOK
    <3> QED BY <1>6, <2>2, <3>2
  <2> QED BY <2>1, <2>2
<1>7. LeaseOK(bucket_state', compactors')
  BY <1>6 DEF LeaseOK
<1> QED BY <1>0, <1>1, <1>3, <1>4, <1>7 DEF SchedInv

\* A step that leaves the state of the bucket alone
LEMMA WorkKeeps ==
  ASSUME SchedInv, NEW c \in Compactors, IsBusy(compactors[c]), NEW w, Become(c, w), IsWorker(w),
         UNCHANGED <<bucket_state, log>>, DocsOK(bucket_data')
  PROVE  SchedInv'
<1>1. compactors[c].step # "idle" /\ IsScheduled(bucket_state, last_op) /\ LeaseOK(bucket_state, compactors)
  BY SchedFields DEF IsBusy
<1>2. IsHeldBy(bucket_state, c) => bucket_state.first_uncompacted_write = TRUE
  BY <1>1 DEF LeaseOK
<1> QED BY <1>1, <1>2, StepKeeps

\* A step that gives the lease back, with a state that is scheduled
LEMMA ReleaseKeeps ==
  ASSUME SchedInv, NEW c \in Compactors, compactors[c].step # "idle", Become(c, Idle), UNCHANGED log, DocsOK(bucket_data'),
         NEW s, Holds(c) => IsScheduled(s, last_op) /\ s.compact_lease = None,
         bucket_state' = IF Holds(c) THEN s ELSE bucket_state
  PROVE  SchedInv'
<1>1. IsScheduled(bucket_state, last_op) /\ LeaseOK(bucket_state, compactors)
  BY SchedFields
<1>2. ~IsBusy(Idle)
  BY DEF IsBusy, Idle
<1>3. IsScheduled(bucket_state', last_op)
  BY <1>1
<1>4. \A d \in Compactors : IsHeldBy(bucket_state', d) => bucket_state' = bucket_state
  BY DEF IsHeldBy
<1> QED BY <1>1, <1>2, <1>3, <1>4, IdleIsWorker, StepKeeps

LEMMA UnleasedIsScheduled ==
  ASSUME NEW s, NEW n \in Nat, IsScheduled(s, n)
  PROVE  IsScheduled([s EXCEPT !.compact_lease = None], n) /\ [s EXCEPT !.compact_lease = None].compact_lease = None
<1> DEFINE t == [s EXCEPT !.compact_lease = None]
<1>1. IsState(t)
  BY DEF IsScheduled, IsState
<1>2. /\ t.last_op = s.last_op /\ t.last_full_compact = s.last_full_compact /\ t.compact_lease = None
      /\ t.next_compact_check = s.next_compact_check /\ t.first_uncompacted_write = s.first_uncompacted_write
  BY DEF IsScheduled, IsState
<1> HIDE DEF t
<1>3. IsScheduled(t, n)
  BY <1>1, <1>2 DEF IsScheduled
<1> QED BY <1>2, <1>3 DEF t

LEMMA ThrowKeeps ==
  ASSUME SchedInv, NEW c \in Compactors, compactors[c].step # "idle", Throw(c), UNCHANGED log, DocsOK(bucket_data')
  PROVE  SchedInv'
<1>1. IsScheduled(bucket_state, last_op) /\ last_op \in Nat
  BY SchedFields
<1>2. IsScheduled([bucket_state EXCEPT !.compact_lease = None], last_op)
      /\ [bucket_state EXCEPT !.compact_lease = None].compact_lease = None
  BY <1>1, UnleasedIsScheduled
<1>3. bucket_state' = (IF Holds(c) THEN [bucket_state EXCEPT !.compact_lease = None] ELSE bucket_state) /\ Become(c, Idle)
  BY DEF Throw, Released
<1> DEFINE s == [bucket_state EXCEPT !.compact_lease = None]
<1> HIDE DEF s
<1> QED BY <1>2, <1>3, ReleaseKeeps DEF s

LEMMA FinishKeeps ==
  ASSUME SchedInv, NEW c \in Compactors, compactors[c].step # "idle", NEW state, Finish(c, state), UNCHANGED log,
         DocsOK(bucket_data'), Holds(c) => IsScheduled(state, last_op)
  PROVE  SchedInv'
<1>1. last_op \in Nat
  BY SchedFields
<1>2. Holds(c) => /\ IsScheduled([state EXCEPT !.compact_lease = None], last_op)
                  /\ [state EXCEPT !.compact_lease = None].compact_lease = None
  BY <1>1, UnleasedIsScheduled
<1>3. bucket_state' = (IF Holds(c) THEN [state EXCEPT !.compact_lease = None] ELSE bucket_state) /\ Become(c, Idle)
  BY DEF Finish
<1> DEFINE s == [state EXCEPT !.compact_lease = None]
<1> HIDE DEF s
<1> QED BY <1>2, <1>3, ReleaseKeeps DEF s

LEMMA FlushGroupKeeps ==
  ASSUME SchedInv, NEW c \in Compactors, IsBusy(compactors[c]), compactors[c].ops # {}, NEW next, IsWorker(next),
         FlushGroup(c, next), UNCHANGED log
  PROVE  SchedInv'
<1> DEFINE w == compactors[c]
<1>0. DocsOK(bucket_data) /\ IsWorker(w) /\ HasFields(w) /\ w.step # "idle"
  BY SchedFields DEF IsBusy
<1>1. CASE IsKept(w)
  <2>1. Become(c, next) /\ UNCHANGED <<bucket_data, bucket_state>>
    BY <1>1 DEF FlushGroup
  <2>2. DocsOK(bucket_data')
    BY <1>0, <2>1
  <2> QED BY <2>1, <2>2, WorkKeeps
<1>2. CASE ~IsKept(w) /\ IsUnchanged(w.pending)
  <2>1. /\ bucket_data' = (bucket_data \ Stored(w.pending)) \cup {Document(w.ops, w.target_op)}
        /\ Become(c, next) /\ UNCHANGED bucket_state
    BY <1>2 DEF FlushGroup
  <2>2. w.ops \subseteq Op /\ IsFiniteSet(w.ops) /\ w.target_op \in Nat
    BY <1>0 DEF IsWorker, HasFields
  <2>3. DocsOK({Document(w.ops, w.target_op)})
    BY <2>2, Documents, OneDoc
  <2>4. DocsOK(bucket_data')
    BY <1>0, <2>1, <2>3, DocsReplaced
  <2> QED BY <2>1, <2>4, WorkKeeps
<1>3. CASE ~IsKept(w) /\ ~IsUnchanged(w.pending)
  <2>1. Throw(c) /\ UNCHANGED bucket_data
    BY <1>3 DEF FlushGroup
  <2>2. DocsOK(bucket_data')
    BY <1>0, <2>1
  <2> QED BY <1>0, <2>1, <2>2, ThrowKeeps
<1> QED BY <1>1, <1>2, <1>3

-----------------------------------------------------------------------------
(* Replication and the lease *)

LEMMA AppendKeeps ==
  ASSUME SchedInv, NEW op \in Op, op.op_id = last_op + 1, AppendOp(op), UNCHANGED compactors
  PROVE  SchedInv'
<1>0. LogTypeOK /\ DocsOK(bucket_data) /\ last_op \in Nat
  <2>1. LogTypeOK /\ DocsOK(bucket_data)
    BY DEF SchedInv
  <2> QED BY <2>1, FS_CardinalityType DEF LogTypeOK, last_op
<1>1. op \notin log
  BY <1>0 DEF LogTypeOK
<1>2. last_op' = last_op + 1 /\ IsFiniteSet(log')
  BY <1>0, <1>1, FS_AddElement DEF LogTypeOK, last_op, AppendOp
<1>3. LogTypeOK'
  <2>1. log' = log \cup {op}
    BY DEF AppendOp
  <2>2. \A o \in log' : o.op_id <= last_op'
    <3>1. \A o \in log : o.op_id \in Nat /\ o.op_id <= last_op
      BY <1>0, OpFields DEF LogTypeOK
    <3> QED BY <1>0, <1>2, <2>1, <3>1
  <2>3. log' \subseteq Op
    BY <1>0, <2>1 DEF LogTypeOK
  <2> QED BY <1>2, <2>2, <2>3 DEF LogTypeOK
<1>4. DocsOK(bucket_data')
  <2>1. Document({op}, Null) \in Doc
    BY FS_Singleton, Documents DEF Null
  <2>2. bucket_data' = (bucket_data \ {}) \cup {Document({op}, Null)}
    BY DEF AppendOp
  <2> QED BY <1>0, <2>1, <2>2, OneDoc, DocsReplaced
<1>5. op.op_id \in Nat
  BY OpFields
<1>6. IsScheduled(bucket_state', last_op + 1) /\ bucket_state'.first_uncompacted_write = TRUE
  <2>1. CASE bucket_state = None
    <3>1. bucket_state' = [last_op |-> op.op_id, count |-> 1, chunks |-> 1, compacted_state |-> None, last_full_compact |-> 0,
               first_uncompacted_write |-> TRUE, next_compact_check |-> TRUE, compact_lease |-> None]
      BY <2>1 DEF AppendOp
    <3>2. IsState(bucket_state')
      BY <1>5, <3>1 DEF IsState
    <3> QED BY <1>5, <3>1, <3>2 DEF IsScheduled
  <2>2. CASE bucket_state # None
    <3>1. bucket_state' = [bucket_state EXCEPT !.last_op = op.op_id, !.count = @ + 1, !.chunks = @ + 1,
                                 !.first_uncompacted_write = TRUE, !.next_compact_check = TRUE]
      BY <2>2 DEF AppendOp
    <3>2. IsState(bucket_state)
      BY <2>2 DEF SchedInv, IsScheduled
    <3>3. IsState(bucket_state') /\ bucket_state'.last_op = op.op_id
          /\ bucket_state'.first_uncompacted_write = TRUE /\ bucket_state'.next_compact_check = TRUE
      BY <1>5, <3>1, <3>2 DEF IsState
    <3> QED BY <3>3 DEF IsScheduled
  <2> QED BY <2>1, <2>2
<1>7. LeaseOK(bucket_state', compactors')
  BY <1>6 DEF LeaseOK
<1>8. compactors' = [c \in Compactors |-> compactors'[c]] /\ \A c \in Compactors : IsWorker(compactors'[c])
  BY DEF SchedInv
<1> QED BY <1>2, <1>3, <1>4, <1>6, <1>7, <1>8 DEF SchedInv

LEMMA FlushKeeps ==
  ASSUME SchedInv, Flush
  PROVE  SchedInv'
<1>0. last_op \in Nat
  BY FS_CardinalityType DEF SchedInv, LogTypeOK, last_op
<1>1. last_op + 1 \in Nat \ {0}
  BY <1>0
<1>2. PICK row \in Rows :
        (\E data \in Values : AppendOp(Put(last_op + 1, row, data))) \/ AppendOp(Remove(last_op + 1, row))
  BY DEF Flush
<1>3. \A data \in Values : Put(last_op + 1, row, data) \in PutOp
  BY <1>1, HashAssumption DEF Put, PutOp
<1>4. Remove(last_op + 1, row) \in RemoveOp
  BY <1>1, HashAssumption DEF Remove, RemoveOp
<1>5. \A data \in Values : Put(last_op + 1, row, data).op_id = last_op + 1
  BY DEF Put
<1>6. Remove(last_op + 1, row).op_id = last_op + 1
  BY DEF Remove
<1>7. \E op \in Op : op.op_id = last_op + 1 /\ AppendOp(op)
  BY <1>2, <1>3, <1>4, <1>5, <1>6 DEF Op
<1>8. UNCHANGED compactors
  BY DEF Flush
<1> QED BY <1>7, <1>8, AppendKeeps

\* A step that changes nothing but the time of the lease
LEMMA LeaseKeeps ==
  ASSUME SchedInv, IsScheduled(bucket_state, last_op), LeaseOK(bucket_state, compactors),
         NEW e \in BOOLEAN, bucket_state.compact_lease # None,
         bucket_state' = [bucket_state EXCEPT !.compact_lease.expired = e],
         UNCHANGED <<bucket_data, compactors, log>>
  PROVE  SchedInv'
<1> DEFINE t == [bucket_state EXCEPT !.compact_lease.expired = e]
<1>0. IsState(bucket_state)
  BY DEF IsScheduled
<1>1. /\ IsState(t) /\ t.last_op = bucket_state.last_op /\ t.last_full_compact = bucket_state.last_full_compact
      /\ t.compact_lease.id = bucket_state.compact_lease.id
  BY <1>0 DEF IsState, Lease
<1>2. /\ t.next_compact_check = bucket_state.next_compact_check
      /\ t.first_uncompacted_write = bucket_state.first_uncompacted_write
  BY <1>0 DEF IsState, Lease
<1>3. bucket_state' = t
  OBVIOUS
<1> HIDE DEF t
<1>4. last_op' = last_op /\ LogTypeOK' /\ DocsOK(bucket_data')
  BY DEF SchedInv, LogTypeOK, last_op
<1>5. IsScheduled(bucket_state', last_op')
  BY <1>1, <1>2, <1>3, <1>4 DEF IsScheduled
<1>6. LeaseOK(bucket_state', compactors')
  BY <1>1, <1>2, <1>3 DEF LeaseOK, IsHeldBy
<1> QED BY <1>4, <1>5, <1>6 DEF SchedInv

LEMMA ExpireKeeps ==
  ASSUME SchedInv, Expire
  PROVE  SchedInv'
<1>1. IsScheduled(bucket_state, last_op) /\ LeaseOK(bucket_state, compactors)
  BY DEF Expire, SchedInv
<1>2. /\ bucket_state.compact_lease # None
      /\ bucket_state' = [bucket_state EXCEPT !.compact_lease.expired = TRUE]
      /\ UNCHANGED <<bucket_data, compactors, log>>
  BY DEF Expire
<1> QED BY <1>1, <1>2, LeaseKeeps

LEMMA RenewKeeps ==
  ASSUME SchedInv, NEW c \in Compactors, Renew(c)
  PROVE  SchedInv'
<1>1. IsScheduled(bucket_state, last_op) /\ LeaseOK(bucket_state, compactors)
  BY SchedFields DEF Renew, Step
<1>2. /\ bucket_state.compact_lease # None
      /\ bucket_state' = [bucket_state EXCEPT !.compact_lease.expired = FALSE]
      /\ UNCHANGED <<bucket_data, compactors, log>>
  BY DEF Renew, Holds, storageUnchanged
<1> QED BY <1>1, <1>2, LeaseKeeps

\* A worker that stops, and leaves the state of the bucket alone
LEMMA StopKeeps ==
  ASSUME SchedInv, NEW c \in Compactors, compactors[c].step # "idle", Become(c, Idle), UNCHANGED <<bucket_data, bucket_state, log>>
  PROVE  SchedInv'
<1>1. IsScheduled(bucket_state, last_op) /\ LeaseOK(bucket_state, compactors) /\ DocsOK(bucket_data')
  BY SchedFields
<1>2. ~IsBusy(Idle)
  BY DEF IsBusy, Idle
<1> QED BY <1>1, <1>2, IdleIsWorker, StepKeeps

LEMMA FailKeeps ==
  ASSUME SchedInv, NEW c \in Compactors, Fail(c) \/ Crash(c)
  PROVE  SchedInv'
<1>1. compactors[c].step # "idle" /\ UNCHANGED <<bucket_data, log>>
  BY DEF Fail, Crash, Step
<1>2. Throw(c) \/ (Become(c, Idle) /\ UNCHANGED bucket_state)
  BY DEF Fail, Crash
<1>3. DocsOK(bucket_data')
  BY <1>1, SchedFields
<1> QED BY <1>1, <1>2, <1>3, StopKeeps, ThrowKeeps

LEMMA InspectKeeps ==
  ASSUME SchedInv, NEW c \in Compactors, Inspect(c)
  PROVE  SchedInv'
<1> DEFINE w == [Idle EXCEPT !.step = "inspected", !.cap = checkpoint, !.state = bucket_state]
<1>1. /\ IsScheduled(bucket_state, last_op) /\ LeaseOK(bucket_state, compactors)
      /\ DocsOK(bucket_data')
  BY SchedFields DEF Inspect, SchedInv
<1>2. bucket_state.next_compact_check
  BY DEF Inspect
<1>3. bucket_state.next_compact_check = TRUE
  <2>1. bucket_state.next_compact_check \in BOOLEAN
    BY <1>1 DEF IsScheduled, IsState
  <2> QED BY <1>2, <2>1
<1>4. HasFields(Idle) /\ Idle.batch = {} /\ Idle.pending = {} /\ Idle.ops = {} /\ IsFiniteSet({})
  BY IdleIsWorker, FS_EmptySet DEF IsWorker, Idle
<1>5. /\ HasFields(w) /\ w.step = "inspected" /\ w.state = bucket_state
      /\ w.batch = Idle.batch /\ w.pending = Idle.pending /\ w.ops = Idle.ops
  BY <1>4 DEF HasFields, Steps
<1> HIDE DEF w
<1>6. IsWorker(w)
  BY <1>1, <1>3, <1>4, <1>5 DEF IsWorker, IsScheduled
<1>7. ~IsBusy(w)
  BY <1>5 DEF IsBusy
<1>8. Become(c, w) /\ UNCHANGED <<bucket_state, log>>
  BY DEF Inspect, w, storageUnchanged
<1> QED BY <1>1, <1>6, <1>7, <1>8, StepKeeps

LEMMA RescheduleUnclaimedKeeps ==
  ASSUME SchedInv, NEW c \in Compactors, RescheduleUnclaimed(c)
  PROVE  SchedInv'
<1> DEFINE state == compactors[c].state
<1>1. compactors[c].step = "inspected" /\ Become(c, Idle) /\ UNCHANGED <<bucket_data, log>>
  BY DEF RescheduleUnclaimed, Step, storageUnchanged
<1>2. /\ IsScheduled(bucket_state, last_op) /\ LeaseOK(bucket_state, compactors) /\ IsState(bucket_state)
      /\ DocsOK(bucket_data') /\ IsState(state) /\ state.next_compact_check = TRUE
  BY <1>1, SchedFields DEF IsScheduled, IsWorker
<1>3. CASE IsSnapshot(state)
  <2>1. bucket_state' = [bucket_state EXCEPT !.next_compact_check = TRUE]
    BY <1>3 DEF RescheduleUnclaimed
  <2>2. bucket_state.next_compact_check = TRUE
    <3>1. [bucket_state EXCEPT !.compact_lease = None].next_compact_check = [state EXCEPT !.compact_lease = None].next_compact_check
      BY <1>3 DEF IsSnapshot
    <3>2. \A s : IsState(s) => [s EXCEPT !.compact_lease = None].next_compact_check = s.next_compact_check
      BY DEF IsState
    <3> HIDE DEF state
    <3> QED BY <1>2, <3>1, <3>2
  <2> DEFINE t == [bucket_state EXCEPT !.next_compact_check = TRUE]
  <2>3. /\ IsState(t) /\ t.last_op = bucket_state.last_op /\ t.last_full_compact = bucket_state.last_full_compact
        /\ t.compact_lease = bucket_state.compact_lease /\ t.next_compact_check = TRUE
        /\ t.first_uncompacted_write = bucket_state.first_uncompacted_write
    BY <1>2 DEF IsState
  <2>4. bucket_state' = t
    BY <2>1
  <2> HIDE DEF t
  <2>5. IsScheduled(bucket_state', last_op)
    BY <1>2, <2>2, <2>3, <2>4 DEF IsScheduled
  <2>6. ~IsBusy(Idle)
    BY DEF IsBusy, Idle
  <2>7. \A d \in Compactors : IsHeldBy(bucket_state', d) => IsHeldBy(bucket_state, d)
    BY <2>3, <2>4 DEF IsHeldBy
  <2> QED BY <1>1, <1>2, <2>3, <2>4, <2>5, <2>6, <2>7, IdleIsWorker, StepKeeps
<1>4. CASE ~IsSnapshot(state)
  <2>1. bucket_state' = bucket_state
    BY <1>4 DEF RescheduleUnclaimed
  <2> QED BY <1>1, <2>1, StopKeeps
<1> QED BY <1>3, <1>4

LEMMA StartIsWorker ==
  ASSUME NEW w, IsWorker(w), w.step = "inspected", NEW state, IsState(state), NEW kind \in {"none", "full", "chunks"}
  PROVE  IsWorker(Start(w, state, kind))
<1> DEFINE v == Start(w, state, kind)
<1>1. /\ HasFields(v) /\ v.step \in {"reschedule", "read"} /\ v.state = state
      /\ v.batch = w.batch /\ v.pending = w.pending /\ v.ops = w.ops
  BY DEF Start, IsWorker, HasFields, Steps
<1> HIDE DEF v
<1>2. IsWorker(v)
  BY <1>1 DEF IsWorker
<1> QED BY <1>2 DEF v

LEMMA ClaimKeeps ==
  ASSUME SchedInv, NEW c \in Compactors, NEW kind \in {"none", "full", "chunks"}, Claim(c, kind)
  PROVE  SchedInv'
<1>1. compactors[c].step = "inspected" /\ UNCHANGED <<bucket_data, log>>
  BY DEF Claim, Step, storageUnchanged
<1>2. /\ IsScheduled(bucket_state, last_op) /\ LeaseOK(bucket_state, compactors) /\ IsState(bucket_state)
      /\ DocsOK(bucket_data') /\ IsWorker(compactors[c])
  BY <1>1, SchedFields DEF IsScheduled
<1>3. CASE bucket_state.next_compact_check /\ IsAvailable
  <2> DEFINE state == [bucket_state EXCEPT !.compact_lease = [id |-> c, expired |-> FALSE]]
             w == Start(compactors[c], state, kind)
  <2>1. bucket_state' = state /\ Become(c, w)
    BY <1>3 DEF Claim
  <2>2. /\ IsState(state) /\ state.last_op = bucket_state.last_op /\ state.last_full_compact = bucket_state.last_full_compact
        /\ state.compact_lease = [id |-> c, expired |-> FALSE]
    BY <1>2 DEF IsState, Lease
  <2>3. /\ state.next_compact_check = bucket_state.next_compact_check
        /\ state.first_uncompacted_write = bucket_state.first_uncompacted_write
    BY <1>2 DEF IsState
  <2>4. bucket_state.next_compact_check = TRUE
    <3>1. bucket_state.next_compact_check \in BOOLEAN
      BY <1>2 DEF IsState
    <3> QED BY <1>3, <3>1
  <2>5. state.first_uncompacted_write = TRUE
    BY <1>2, <2>3, <2>4 DEF IsScheduled
  <2> HIDE DEF state
  <2>6. IsWorker(w)
    BY <1>1, <1>2, <2>2, StartIsWorker
  <2>7. IsScheduled(state, last_op)
    BY <1>2, <2>2, <2>3 DEF IsScheduled
  <2>8. \A d \in Compactors : IsHeldBy(state, d) => d = c
    BY <2>2 DEF IsHeldBy
  <2> HIDE DEF w
  <2> QED BY <1>1, <1>2, <2>1, <2>5, <2>6, <2>7, <2>8, StepKeeps
<1>4. CASE ~(bucket_state.next_compact_check /\ IsAvailable)
  <2>1. Become(c, Idle) /\ UNCHANGED bucket_state
    BY <1>4 DEF Claim
  <2> QED BY <1>1, <2>1, StopKeeps
<1> QED BY <1>3, <1>4

LEMMA RescheduleClaimedKeeps ==
  ASSUME SchedInv, NEW c \in Compactors, RescheduleClaimed(c)
  PROVE  SchedInv'
<1> DEFINE t == [bucket_state EXCEPT !.next_compact_check = TRUE]
<1>1. compactors[c].step = "reschedule" /\ Finish(c, t) /\ UNCHANGED <<bucket_data, log>>
  BY DEF RescheduleClaimed, Step, storageUnchanged
<1>2. IsScheduled(bucket_state, last_op) /\ LeaseOK(bucket_state, compactors) /\ IsState(bucket_state) /\ DocsOK(bucket_data')
  BY <1>1, SchedFields DEF IsScheduled
<1>3. /\ IsState(t) /\ t.last_op = bucket_state.last_op /\ t.last_full_compact = bucket_state.last_full_compact
      /\ t.next_compact_check = TRUE /\ t.first_uncompacted_write = bucket_state.first_uncompacted_write
  BY <1>2 DEF IsState
<1> HIDE DEF t
<1>4. Holds(c) => bucket_state.first_uncompacted_write = TRUE
  BY <1>1, <1>2 DEF LeaseOK, IsBusy, IsHeldBy, Holds
<1>5. Holds(c) => IsScheduled(t, last_op)
  BY <1>2, <1>3, <1>4 DEF IsScheduled
<1>6. compactors[c].step # "idle"
  BY <1>1
<1> QED BY <1>1, <1>2, <1>5, <1>6, FinishKeeps

(***************************************************************************)
(* The end of a compaction. What it has not covered was there when it      *)
(* started, or was written since.                                          *)
(***************************************************************************)
LEMMA FinalizedIs ==
  ASSUME NEW w, HasFields(w), IsState(w.state), IsScheduled(bucket_state, last_op), last_op \in Nat,
         bucket_state.first_uncompacted_write = TRUE
  PROVE  IsScheduled(Finalized(w), last_op)
<1> DEFINE t == Finalized(w)
<1>1. IsState(bucket_state) /\ bucket_state.last_op = last_op /\ w.compactedOp \in Nat /\ w.state.last_op \in Nat
  BY DEF IsScheduled, IsState, HasFields
<1>2. RemainingWork(w) \in BOOLEAN
  BY DEF RemainingWork
<1>3. /\ IsState(t) /\ t.last_op = bucket_state.last_op
      /\ t.last_full_compact = (IF w.kind = "full" THEN w.compactedOp ELSE bucket_state.last_full_compact)
      /\ t.first_uncompacted_write = (IF w.kind = "full" THEN RemainingWork(w) ELSE bucket_state.first_uncompacted_write)
      /\ t.next_compact_check = (IF w.kind = "full" THEN RemainingWork(w) ELSE TRUE)
  BY <1>1, <1>2 DEF Finalized, IsState
<1> HIDE DEF t
<1>4. CASE w.kind = "full"
  <2>1. w.compactedOp < last_op => RemainingWork(w) = TRUE
    BY <1>1, <1>2 DEF RemainingWork
  <2> QED BY <1>1, <1>3, <1>4, <2>1 DEF IsScheduled, t
<1>5. CASE w.kind # "full"
  BY <1>1, <1>3, <1>5 DEF IsScheduled, t
<1> QED BY <1>4, <1>5

LEMMA FinalizeKeeps ==
  ASSUME SchedInv, NEW c \in Compactors, Finalize(c)
  PROVE  SchedInv'
<1>1. compactors[c].step = "finalize" /\ Finish(c, Finalized(compactors[c])) /\ UNCHANGED <<bucket_data, log>>
  BY DEF Finalize, Step, storageUnchanged
<1>2. /\ IsScheduled(bucket_state, last_op) /\ LeaseOK(bucket_state, compactors) /\ last_op \in Nat
      /\ HasFields(compactors[c]) /\ IsState(compactors[c].state) /\ DocsOK(bucket_data') /\ compactors[c].step # "idle"
  BY <1>1, SchedFields DEF IsWorker
<1>3. Holds(c) => bucket_state.first_uncompacted_write = TRUE
  BY <1>1, <1>2 DEF LeaseOK, IsBusy, IsHeldBy, Holds
<1>4. Holds(c) => IsScheduled(Finalized(compactors[c]), last_op)
  BY <1>2, <1>3, FinalizedIs
<1> QED BY <1>1, <1>2, <1>4, FinishKeeps

-----------------------------------------------------------------------------
(* Steps of a worker on its documents *)

LEMMA MaxIdsOK ==
  ASSUME NEW docs, DocsOK(docs), NEW n \in Nat
  PROVE  Max(Ids(docs) \cup {n}) \in Nat
<1>1. IsFiniteSet(Ids(docs) \cup {n}) /\ Ids(docs) \cup {n} \subseteq Nat
  BY IdsOK, FS_AddElement
<1> QED BY <1>1, MaxIs

LEMMA ClearOfIs ==
  ASSUME NEW id \in Nat, id > 0, NEW ops, ops \subseteq Op, IsFiniteSet(ops), NEW docs, DocsOK(docs)
  PROVE  ClearOf(id, ops, docs) \in Doc
<1> DEFINE clear == [op |-> "CLEAR", op_id |-> id, row |-> None, data |-> None, checksum |-> SumChecksums(ops), target_op |-> Null]
<1>1. SumChecksums(ops) \in Nat
  BY SumType
<1>2. clear \in ClearOp
  BY <1>1 DEF ClearOp, Null
<1>3. clear \in Op
  <2> HIDE DEF clear
  <2> QED BY <1>2 DEF Op
<1>4. {clear} \subseteq Op /\ {clear} # {} /\ IsFiniteSet({clear})
  <2> HIDE DEF clear
  <2> QED BY <1>3, FS_Singleton
<1>5. Targets(docs) \in Nat
  BY TargetsOK
<1>6. ClearOf(id, ops, docs) = Document({clear}, Targets(docs))
  BY DEF ClearOf
<1> HIDE DEF clear
<1> QED BY <1>4, <1>5, <1>6, Documents

\* What is kept of a worker that goes on
LEMMA GoesOn ==
  ASSUME NEW w, IsWorker(w), IsBusy(w), NEW v, HasFields(v), v.step \in Steps \ {"idle", "inspected", "merge"}, v.state = w.state,
         IsFiniteSet(v.batch), IsFiniteSet(v.pending), IsFiniteSet(v.ops), v.kind = "full" /\ v.pending # {} => v.ops # {}
  PROVE  IsWorker(v)
BY DEF IsWorker, IsBusy

Counting(u, stats, at) == [u EXCEPT !.stats = stats, !.clearAt = at]

LEMMA NoGroupIs ==
  ASSUME NEW w, IsWorker(w), IsBusy(w), w.step # "merge", NEW stats, NEW at,
         NEW v, v = Counting(NoGroup(w), stats, at)
  PROVE  IsWorker(v) /\ v.step = w.step /\ v.kind = w.kind
<1>1. HasFields(w)
  BY DEF IsWorker
<1>2. HasFields(NoGroup(w)) /\ NoGroup(w).step = w.step /\ NoGroup(w).kind = w.kind /\ NoGroup(w).state = w.state
      /\ NoGroup(w).batch = w.batch /\ NoGroup(w).pending = {} /\ NoGroup(w).ops = {}
  BY <1>1 DEF NoGroup, HasFields, Null
<1>3. \A u : HasFields(u) => LET t == Counting(u, stats, at) IN
        HasFields(t) /\ t.step = u.step /\ t.kind = u.kind /\ t.state = u.state /\ t.batch = u.batch
        /\ t.pending = u.pending /\ t.ops = u.ops
  BY DEF HasFields, Counting
<1>4. /\ HasFields(v) /\ v.step = w.step /\ v.kind = w.kind /\ v.state = w.state
      /\ v.batch = w.batch /\ v.pending = {} /\ v.ops = {}
  BY <1>2, <1>3
<1>5. IsWorker(v)
  BY <1>4, FS_EmptySet DEF IsWorker, IsBusy
<1> QED BY <1>4, <1>5

LEMMA FlushedIs ==
  ASSUME NEW w, IsWorker(w), IsBusy(w), w.step # "merge", NEW n
  PROVE  IsWorker(Flushed(w, n)) /\ Flushed(w, n).step = w.step /\ Flushed(w, n).kind = w.kind
<1>1. PICK stats, at : Flushed(w, n) = Counting(NoGroup(w), stats, at)
  BY DEF Flushed, Counting
<1> DEFINE v == Flushed(w, n)
<1>2. v = Counting(NoGroup(w), stats, at)
  BY <1>1
<1> HIDE DEF v
<1>3. IsWorker(v) /\ v.step = w.step /\ v.kind = w.kind
  BY <1>2, NoGroupIs
<1> QED BY <1>3 DEF v

LEMMA ReadBatchKeeps ==
  ASSUME SchedInv, NEW c \in Compactors, ReadBatch(c)
  PROVE  SchedInv'
<1> DEFINE w == compactors[c]
           docs == Highest({d \in bucket_data : DocId(d) < w.bound}, QueryLimit)
           v == [w EXCEPT !.batch = docs, !.more = Cardinality(docs) = QueryLimit, !.bound = Min(Ids(docs) \cup {@}),
                          !.compactedOp = IF @ = 0 THEN Max(Ids(docs) \cup {0}) ELSE @]
<1>1. w.step = "read" /\ Become(c, v) /\ UNCHANGED <<bucket_data, bucket_state, log>>
  BY DEF ReadBatch, Step, storageUnchanged
<1>2. DocsOK(bucket_data) /\ IsWorker(w) /\ HasFields(w)
  BY SchedFields
<1>3. DocsOK(docs)
  <2>1. docs \subseteq bucket_data
    BY DEF Highest
  <2> HIDE DEF docs
  <2> QED BY <1>2, <2>1, DocsPart
<1>4. docs \subseteq Doc /\ IsFiniteSet(docs) /\ Max(Ids(docs) \cup {0}) \in Nat
  <2> HIDE DEF docs
  <2> QED BY <1>3, MaxIdsOK DEF DocsOK
<1>5. /\ HasFields(v) /\ v.step = w.step /\ v.kind = w.kind /\ v.state = w.state
      /\ v.batch = docs /\ v.pending = w.pending /\ v.ops = w.ops
  <2> HIDE DEF docs
  <2> QED BY <1>2, <1>4 DEF HasFields
<1> HIDE DEF v, docs
<1>6. IsWorker(v)
  BY <1>1, <1>2, <1>4, <1>5 DEF IsWorker
<1>7. IsBusy(w)
  BY <1>1 DEF IsBusy
<1> HIDE DEF w
<1> QED BY <1>1, <1>2, <1>6, <1>7, WorkKeeps DEF w

\* The document that is scanned next joins the pending group.
LEMMA WithDocument ==
  ASSUME NEW w, IsWorker(w), w.step = "read", NEW d \in Doc, NEW s \in ScanState, s.ops # {}
  PROVE  IsWorker([w EXCEPT !.batch = @ \ {d}, !.seen = s.seen, !.lastNotPut = s.lastNotPut, !.opsSincePut = s.opsSincePut,
                            !.pending = @ \cup {d}, !.ops = @ \cup s.ops, !.changed = @ \/ s.changed,
                            !.target_op = Max({@, s.target_op})])
<1> DEFINE v == [w EXCEPT !.batch = @ \ {d}, !.seen = s.seen, !.lastNotPut = s.lastNotPut, !.opsSincePut = s.opsSincePut,
                          !.pending = @ \cup {d}, !.ops = @ \cup s.ops, !.changed = @ \/ s.changed,
                          !.target_op = Max({@, s.target_op})]
<1>1. HasFields(w) /\ IsFiniteSet(w.batch) /\ IsFiniteSet(w.pending) /\ IsFiniteSet(w.ops) /\ IsState(w.state)
  BY DEF IsWorker
<1>2. s.seen \in Seen /\ s.lastNotPut \in Nat /\ s.opsSincePut \in Nat /\ s.ops \subseteq Op /\ IsFiniteSet(s.ops) /\ s.target_op \in Nat
  BY DEF ScanState, FiniteOps
<1>3. IsFiniteSet(w.batch \ {d}) /\ IsFiniteSet(w.pending \cup {d}) /\ IsFiniteSet(w.ops \cup s.ops)
  BY <1>1, <1>2, FS_Subset, FS_AddElement, FS_Union
<1>4. Max({w.target_op, s.target_op}) \in Nat
  <2>1. w.target_op \in Nat
    BY <1>1 DEF HasFields
  <2> QED BY <1>2, <2>1, MaxOfTwo
<1>5. w.ops \subseteq Op /\ w.pending \subseteq Doc /\ w.batch \subseteq Doc
  BY <1>1 DEF HasFields
<1>7. /\ HasFields(v) /\ v.step = w.step /\ v.state = w.state
      /\ v.batch = w.batch \ {d} /\ v.pending = w.pending \cup {d} /\ v.ops = w.ops \cup s.ops
  <2> DEFINE changed == w.changed \/ s.changed
             u == [w EXCEPT !.batch = @ \ {d}, !.seen = s.seen, !.lastNotPut = s.lastNotPut, !.opsSincePut = s.opsSincePut,
                            !.pending = @ \cup {d}, !.ops = @ \cup s.ops, !.changed = changed,
                            !.target_op = Max({@, s.target_op})]
  <2>1. v = u
    OBVIOUS
  <2> HIDE DEF changed, v
  <2>2. HasFields(u)
    <3>1. w.batch \ {d} \in SUBSET Doc /\ w.pending \cup {d} \in SUBSET Doc /\ w.ops \cup s.ops \in SUBSET Op
      BY <1>2, <1>5
    <3> QED BY <1>1, <1>2, <1>4, <3>1 DEF HasFields
  <2>3. /\ u.step = w.step /\ u.state = w.state
        /\ u.batch = w.batch \ {d} /\ u.pending = w.pending \cup {d} /\ u.ops = w.ops \cup s.ops
    BY <1>1 DEF HasFields
  <2> HIDE DEF u
  <2> QED BY <2>1, <2>2, <2>3
<1> HIDE DEF v
<1>8. v.ops # {}
  BY <1>7
<1>9. IsWorker(v)
  BY <1>1, <1>3, <1>7, <1>8 DEF IsWorker
<1> QED BY <1>9 DEF v

LEMMA CompactDocumentKeeps ==
  ASSUME SchedInv, NEW c \in Compactors, CompactDocument(c)
  PROVE  SchedInv'
<1> DEFINE w == compactors[c]
           d == CHOOSE e \in w.batch : \A f \in w.batch : DocId(f) <= DocId(e)
           s == ScanDocument(w, d)
           With(v) == [v EXCEPT !.batch = @ \ {d}, !.seen = s.seen, !.lastNotPut = s.lastNotPut, !.opsSincePut = s.opsSincePut,
                                !.pending = @ \cup {d}, !.ops = @ \cup s.ops, !.changed = @ \/ s.changed,
                                !.target_op = Max({@, s.target_op})]
<1>1. w.step = "read" /\ w.kind = "full" /\ w.batch # {} /\ UNCHANGED log
  BY DEF CompactDocument, Step, storageUnchanged
<1>2. DocsOK(bucket_data) /\ IsWorker(w) /\ HasFields(w) /\ IsBusy(w)
  BY <1>1, SchedFields DEF IsBusy
<1>3. d \in Doc
  <2>1. DocsOK(w.batch)
    BY <1>2 DEF IsWorker, HasFields, DocsOK
  <2>2. d \in w.batch
    BY <1>1, <2>1, EndDocs
  <2> QED BY <2>1, <2>2 DEF DocsOK
<1>4. s \in ScanState /\ s.ops # {}
  <2> HIDE DEF d
  <2> QED BY <1>2, <1>3, ScanDocumentType
<1>5. \A v : IsWorker(v) /\ v.step = "read" => IsWorker(With(v))
  <2> HIDE DEF d, s
  <2> QED BY <1>3, <1>4, WithDocument
<1>6. CASE Become(c, With(w)) /\ UNCHANGED <<bucket_data, bucket_state>>
  <2>1. IsWorker(With(w)) /\ DocsOK(bucket_data')
    <3> HIDE DEF With
    <3> QED BY <1>1, <1>2, <1>5, <1>6
  <2> DEFINE v == With(w)
  <2> HIDE DEF With, v
  <2> QED BY <1>1, <1>2, <1>6, <2>1, WorkKeeps DEF v
<1>7. CASE w.pending # {} /\ FlushGroup(c, With(Flushed(w, s.lastNotPut)))
  <2> DEFINE u == Flushed(w, s.lastNotPut)
  <2>1. IsWorker(u) /\ u.step = "read"
    <3>1. w.step # "merge"
      BY <1>1
    <3> HIDE DEF s, w
    <3> QED BY <1>1, <1>2, <3>1, FlushedIs
  <2> DEFINE v == With(u)
  <2>2. IsWorker(v)
    <3> HIDE DEF With, u
    <3> QED BY <1>5, <2>1
  <2>3. w.ops # {}
    BY <1>1, <1>2, <1>7 DEF IsWorker
  <2>4. FlushGroup(c, v)
    BY <1>7
  <2> HIDE DEF v, u, With
  <2> QED BY <1>1, <1>2, <2>2, <2>3, <2>4, FlushGroupKeeps
<1>8. (w.pending # {} /\ FlushGroup(c, With(Flushed(w, s.lastNotPut)))) \/ (Become(c, With(w)) /\ UNCHANGED <<bucket_data, bucket_state>>)
  BY DEF CompactDocument
<1> QED BY <1>6, <1>7, <1>8

\* What comes after the scan
AfterScan(v) ==
  [v EXCEPT !.step = IF v.compactedOp = 0 THEN "reschedule"
                     ELSE IF v.lastNotPut # Null /\ v.opsSincePut >= 2 THEN "clear" ELSE "finalize"]

LEMMA AfterScanIs ==
  ASSUME NEW v, IsWorker(v), v.step = "read"
  PROVE  IsWorker(AfterScan(v))
<1> DEFINE t == AfterScan(v)
<1>1. HasFields(v)
  BY DEF IsWorker
<1>2. /\ HasFields(t) /\ t.step \in {"reschedule", "clear", "finalize"} /\ t.state = v.state /\ t.kind = v.kind
      /\ t.batch = v.batch /\ t.pending = v.pending /\ t.ops = v.ops
  BY <1>1 DEF AfterScan, HasFields, Steps
<1> HIDE DEF t
<1>3. IsWorker(t)
  BY <1>2 DEF IsWorker
<1> QED BY <1>3 DEF t

LEMMA EndScanKeeps ==
  ASSUME SchedInv, NEW c \in Compactors, EndScan(c)
  PROVE  SchedInv'
<1> DEFINE w == compactors[c]
<1>1. w.step = "read" /\ w.kind = "full" /\ UNCHANGED log
  BY DEF EndScan, Step, storageUnchanged
<1>2. DocsOK(bucket_data) /\ IsWorker(w) /\ IsBusy(w) /\ w.step # "merge"
  BY <1>1, SchedFields DEF IsBusy
<1>3. CASE w.pending = {}
  <2>1. Become(c, AfterScan(w)) /\ UNCHANGED <<bucket_data, bucket_state>>
    BY <1>3 DEF EndScan, AfterScan
  <2>2. IsWorker(AfterScan(w))
    BY <1>1, <1>2, AfterScanIs
  <2>3. DocsOK(bucket_data')
    BY <1>2, <2>1
  <2> QED BY <1>1, <1>2, <2>1, <2>2, <2>3, WorkKeeps
<1>4. CASE w.pending # {}
  <2>1. FlushGroup(c, AfterScan(Flushed(w, w.lastNotPut)))
    BY <1>4 DEF EndScan, AfterScan
  <2>2. IsWorker(Flushed(w, w.lastNotPut)) /\ Flushed(w, w.lastNotPut).step = "read"
    BY <1>1, <1>2, FlushedIs
  <2>3. IsWorker(AfterScan(Flushed(w, w.lastNotPut)))
    BY <2>2, AfterScanIs
  <2>4. w.ops # {}
    BY <1>1, <1>2, <1>4 DEF IsWorker
  <2> QED BY <1>1, <1>2, <2>1, <2>3, <2>4, FlushGroupKeeps
<1> QED BY <1>3, <1>4

\* Another step of the code, or other statistics
WithStep(w, s) == [w EXCEPT !.step = s]
WithStats(w, stats) == [w EXCEPT !.stats = stats]
WithBoth(w, s, stats) == [w EXCEPT !.step = s, !.stats = stats]

LEMMA MovesOn ==
  ASSUME NEW w, IsWorker(w), IsBusy(w), w.step # "merge", NEW s \in Steps \ {"idle", "inspected", "merge"}, NEW stats
  PROVE  IsWorker(WithStep(w, s)) /\ IsWorker(WithStats(w, stats)) /\ IsWorker(WithBoth(w, s, stats))
<1> DEFINE t == WithStep(w, s)
           u == WithStats(w, stats)
           v == WithBoth(w, s, stats)
<1>1. HasFields(w)
  BY DEF IsWorker
<1>2. /\ HasFields(t) /\ t.step = s /\ t.state = w.state /\ t.kind = w.kind
      /\ t.batch = w.batch /\ t.pending = w.pending /\ t.ops = w.ops
  BY <1>1 DEF HasFields, WithStep
<1>3. /\ HasFields(u) /\ u.step = w.step /\ u.state = w.state /\ u.kind = w.kind
      /\ u.batch = w.batch /\ u.pending = w.pending /\ u.ops = w.ops
  BY <1>1 DEF HasFields, WithStats
<1>4. /\ HasFields(v) /\ v.step = s /\ v.state = w.state /\ v.kind = w.kind
      /\ v.batch = w.batch /\ v.pending = w.pending /\ v.ops = w.ops
  BY <1>1 DEF HasFields, WithBoth
<1> HIDE DEF t, u, v
<1>5. IsWorker(t)
  BY <1>2 DEF IsWorker, IsBusy
<1>6. IsWorker(u)
  BY <1>3 DEF IsWorker
<1>7. IsWorker(v)
  BY <1>4 DEF IsWorker, IsBusy
<1> QED BY <1>5, <1>6, <1>7 DEF t, u, v

LEMMA ClearLeadingKeeps ==
  ASSUME SchedInv, NEW c \in Compactors, ClearLeading(c)
  PROVE  SchedInv'
<1> DEFINE w == compactors[c]
           docs == Lowest({d \in bucket_data : DocId(d) < w.clearAt}, ClearBatchLimit)
           new == {ClearOf(Max(Ids(docs)), OpsOf(docs), docs)}
<1>1. w.step = "clear" /\ UNCHANGED log
  BY DEF ClearLeading, Step, storageUnchanged
<1>2. DocsOK(bucket_data) /\ IsWorker(w) /\ HasFields(w) /\ IsBusy(w) /\ w.step # "merge" /\ w.step # "idle"
  BY <1>1, SchedFields DEF IsBusy
<1>3. DocsOK(docs)
  <2>1. docs \subseteq bucket_data
    BY DEF Lowest
  <2> HIDE DEF docs
  <2> QED BY <1>2, <2>1, DocsPart
<1>4. \/ Throw(c) /\ UNCHANGED bucket_data
      \/ Become(c, [w EXCEPT !.step = "boundary"]) /\ UNCHANGED <<bucket_data, bucket_state>>
      \/ /\ docs # {} /\ bucket_data' = (bucket_data \ docs) \cup new
         /\ Become(c, [w EXCEPT !.stats = Plus(Minus(@, Stats(docs)), Stats(new))]) /\ UNCHANGED bucket_state
  BY DEF ClearLeading, Cleared
<1>5. CASE Throw(c) /\ UNCHANGED bucket_data
  <2>1. DocsOK(bucket_data')
    BY <1>2, <1>5
  <2> QED BY <1>1, <1>2, <1>5, <2>1, ThrowKeeps
<1>6. CASE Become(c, [w EXCEPT !.step = "boundary"]) /\ UNCHANGED <<bucket_data, bucket_state>>
  <2>1. DocsOK(bucket_data')
    BY <1>2, <1>6
  <2> DEFINE v == WithStep(w, "boundary")
  <2>2. Become(c, v)
    BY <1>6 DEF WithStep
  <2>3. IsWorker(v)
    <3> HIDE DEF w
    <3> QED BY <1>2, MovesOn DEF Steps
  <2> HIDE DEF v
  <2> QED BY <1>1, <1>2, <1>6, <2>1, <2>2, <2>3, WorkKeeps
<1>7. CASE /\ docs # {} /\ bucket_data' = (bucket_data \ docs) \cup new
           /\ Become(c, [w EXCEPT !.stats = Plus(Minus(@, Stats(docs)), Stats(new))]) /\ UNCHANGED bucket_state
  <2>1. DocsOK(new)
    <3> HIDE DEF docs
    <3>1. IsFiniteSet(Ids(docs)) /\ Ids(docs) \subseteq Nat /\ Ids(docs) # {} /\ \A id \in Ids(docs) : id > 0
      BY <1>3, <1>7, IdsOK DEF Ids
    <3>2. Max(Ids(docs)) \in Nat /\ Max(Ids(docs)) > 0
      BY <3>1, MaxIs
    <3>3. OpsOf(docs) \subseteq Op /\ IsFiniteSet(OpsOf(docs))
      BY <1>3, OpsOfOK
    <3> QED BY <1>3, <3>2, <3>3, ClearOfIs, OneDoc
  <2>2. DocsOK(bucket_data')
    <3> HIDE DEF docs, new
    <3> QED BY <1>2, <1>7, <2>1, DocsReplaced
  <2> DEFINE stats == Plus(Minus(w.stats, Stats(docs)), Stats(new))
             v == WithStats(w, stats)
  <2>3. Become(c, v)
    BY <1>7 DEF WithStats
  <2>4. IsWorker(v)
    <3>1. "clear" \in Steps \ {"idle", "inspected", "merge"}
      BY DEF Steps
    <3> HIDE DEF stats, w
    <3> QED BY <1>2, <3>1, MovesOn
  <2> HIDE DEF v, docs, new
  <2> QED BY <1>1, <1>2, <1>7, <2>2, <2>3, <2>4, WorkKeeps
<1> QED BY <1>4, <1>5, <1>6, <1>7

LEMMA ClearBoundaryKeeps ==
  ASSUME SchedInv, NEW c \in Compactors, ClearBoundary(c)
  PROVE  SchedInv'
<1> DEFINE w == compactors[c]
           docs == {d \in bucket_data : DocId(d) <= w.clearAt}
           prefix == {o \in OpsOf(docs) : o.op_id <= w.lastNotPut}
           rest == OpsOf(docs) \ prefix
           new == {ClearOf(w.lastNotPut, prefix, docs)} \cup
                  (IF rest = {} THEN {} ELSE {Document(rest, Targets(docs))})
<1>1. w.step = "boundary" /\ UNCHANGED log
  BY DEF ClearBoundary, Step, storageUnchanged
<1>2. DocsOK(bucket_data) /\ IsWorker(w) /\ HasFields(w) /\ IsBusy(w) /\ w.step # "merge" /\ w.step # "idle"
  BY <1>1, SchedFields DEF IsBusy
<1>3. DocsOK(docs)
  BY <1>2, DocsPart
<1>4. \/ Throw(c) /\ UNCHANGED bucket_data
      \/ /\ prefix # {} /\ bucket_data' = (bucket_data \ docs) \cup new
         /\ Become(c, [[w EXCEPT !.stats = Plus(Minus(@, Stats(docs)), Stats(new))] EXCEPT !.step = "finalize"])
         /\ UNCHANGED bucket_state
  BY DEF ClearBoundary, Cleared
<1>5. CASE Throw(c) /\ UNCHANGED bucket_data
  <2>1. DocsOK(bucket_data')
    BY <1>2, <1>5
  <2> QED BY <1>1, <1>2, <1>5, <2>1, ThrowKeeps
<1>6. CASE /\ prefix # {} /\ bucket_data' = (bucket_data \ docs) \cup new
           /\ Become(c, [[w EXCEPT !.stats = Plus(Minus(@, Stats(docs)), Stats(new))] EXCEPT !.step = "finalize"])
           /\ UNCHANGED bucket_state
  <2>0. OpsOf(docs) \subseteq Op /\ IsFiniteSet(OpsOf(docs)) /\ w.lastNotPut \in Nat
    <3> HIDE DEF docs
    <3> QED BY <1>2, <1>3, OpsOfOK DEF HasFields
  <2>1. prefix \subseteq Op /\ IsFiniteSet(prefix) /\ rest \subseteq Op /\ IsFiniteSet(rest)
    <3>1. prefix \subseteq OpsOf(docs) /\ rest \subseteq OpsOf(docs)
      OBVIOUS
    <3> HIDE DEF docs, prefix, rest
    <3> QED BY <2>0, <3>1, FS_Subset
  <2>2. w.lastNotPut > 0
    <3>1. PICK o \in prefix : TRUE
      BY <1>6
    <3>2. o \in Op /\ o.op_id <= w.lastNotPut
      BY <2>0
    <3> HIDE DEF prefix
    <3> QED BY <2>0, <3>2, OpFields
  <2>3. DocsOK({ClearOf(w.lastNotPut, prefix, docs)})
    <3> HIDE DEF docs, prefix
    <3> QED BY <1>3, <2>0, <2>1, <2>2, ClearOfIs, OneDoc
  <2>4. DocsOK(IF rest = {} THEN {} ELSE {Document(rest, Targets(docs))})
    <3>1. DocsOK({})
      BY FS_EmptySet DEF DocsOK
    <3>2. Targets(docs) \in Nat
      <4> HIDE DEF docs
      <4> QED BY <1>3, TargetsOK
    <3> HIDE DEF docs, rest
    <3>3. rest # {} => DocsOK({Document(rest, Targets(docs))})
      BY <2>1, <3>2, Documents, OneDoc
    <3> QED BY <3>1, <3>3
  <2>5. DocsOK(new)
    <3> DEFINE A == {ClearOf(w.lastNotPut, prefix, docs)}
               B == IF rest = {} THEN {} ELSE {Document(rest, Targets(docs))}
    <3>1. DocsOK(A) /\ DocsOK(B)
      BY <2>3, <2>4
    <3>2. new = A \cup B
      OBVIOUS
    <3> HIDE DEF A, B, new
    <3> QED BY <3>1, <3>2, FS_Union DEF DocsOK
  <2>6. DocsOK(bucket_data')
    <3> HIDE DEF docs, new
    <3> QED BY <1>2, <1>6, <2>5, DocsReplaced
  <2> DEFINE stats == Plus(Minus(w.stats, Stats(docs)), Stats(new))
             v == WithBoth(w, "finalize", stats)
  <2>7. Become(c, v)
    <3>1. Become(c, [[w EXCEPT !.stats = stats] EXCEPT !.step = "finalize"])
      BY <1>6
    <3> HIDE DEF stats
    <3>2. [[w EXCEPT !.stats = stats] EXCEPT !.step = "finalize"] = v
      BY <1>2 DEF HasFields, WithBoth
    <3> HIDE DEF v
    <3> QED BY <3>1, <3>2
  <2>8. IsWorker(v)
    <3> HIDE DEF stats, w
    <3> QED BY <1>2, MovesOn DEF Steps
  <2> HIDE DEF v, docs, new, prefix
  <2> QED BY <1>1, <1>2, <1>6, <2>6, <2>7, <2>8, WorkKeeps
<1> QED BY <1>4, <1>5, <1>6

-----------------------------------------------------------------------------
(* Chunk compaction *)

NotVerified(w) == [w EXCEPT !.previous = None, !.verify = FALSE, !.bound = 0]
WithChunks(w, docs, more, bound, compactedOp) ==
  [w EXCEPT !.batch = docs, !.verify = FALSE, !.more = more, !.bound = bound, !.compactedOp = compactedOp]
WithChunk(w, d, target, overlap) ==
  [w EXCEPT !.batch = @ \ {d}, !.pending = @ \cup {d}, !.target_op = target, !.overlap = overlap]
WithOps(w, ops) == [w EXCEPT !.step = "merge", !.ops = ops, !.changed = TRUE]
Merged(w, stats) == [NoGroup(w) EXCEPT !.step = "read", !.stats = stats]

LEMMA ReadChunksKeeps ==
  ASSUME SchedInv, NEW c \in Compactors, ReadChunks(c)
  PROVE  SchedInv'
<1> DEFINE w == compactors[c]
           docs == Lowest({d \in bucket_data : w.bound < DocId(d) /\ DocId(d) <= w.target}, QueryLimit)
           more == Cardinality(docs) = QueryLimit
           bound == Max(Ids(docs) \cup {w.bound})
           compactedOp == Max(Ids(docs) \cup {w.compactedOp})
           u == NotVerified(w)
           v == WithChunks(w, docs, more, bound, compactedOp)
<1>1. w.step = "read" /\ w.kind = "chunks" /\ (Become(c, u) \/ Become(c, v)) /\ UNCHANGED <<bucket_data, bucket_state, log>>
  BY DEF ReadChunks, Step, storageUnchanged, NotVerified, WithChunks
<1>2. DocsOK(bucket_data) /\ IsWorker(w) /\ HasFields(w)
  BY SchedFields
<1>3. DocsOK(docs)
  <2>1. docs \subseteq bucket_data
    BY DEF Lowest
  <2> HIDE DEF docs
  <2> QED BY <1>2, <2>1, DocsPart
<1>4. docs \subseteq Doc /\ IsFiniteSet(docs) /\ compactedOp \in Nat
  <2> HIDE DEF docs
  <2>1. w.compactedOp \in Nat
    BY <1>2 DEF HasFields
  <2> QED BY <1>3, <2>1, MaxIdsOK DEF DocsOK
<1>5. /\ HasFields(u) /\ u.step = w.step /\ u.kind = w.kind /\ u.state = w.state
      /\ u.batch = w.batch /\ u.pending = w.pending /\ u.ops = w.ops
  BY <1>2 DEF HasFields, NotVerified
<1>6. /\ HasFields(v) /\ v.step = w.step /\ v.kind = w.kind /\ v.state = w.state
      /\ v.batch = docs /\ v.pending = w.pending /\ v.ops = w.ops
  <2> HIDE DEF docs, more, bound, compactedOp
  <2> QED BY <1>2, <1>4 DEF HasFields, WithChunks
<1>7. IsBusy(w) /\ DocsOK(bucket_data')
  BY <1>1, <1>2 DEF IsBusy
<1> HIDE DEF u, v, docs
<1>8. IsWorker(u)
  BY <1>1, <1>2, <1>5 DEF IsWorker
<1>9. IsWorker(v)
  BY <1>1, <1>2, <1>4, <1>6 DEF IsWorker
<1> HIDE DEF w
<1>10. CASE Become(c, u)
  BY <1>1, <1>7, <1>8, <1>10, WorkKeeps DEF w
<1>11. CASE Become(c, v)
  BY <1>1, <1>7, <1>9, <1>11, WorkKeeps DEF w
<1> QED BY <1>1, <1>10, <1>11

LEMMA NextChunkIs ==
  ASSUME NEW w, HasFields(w), IsFiniteSet(w.batch), w.batch # {}
  PROVE  NextChunk(w) \in w.batch /\ NextChunk(w) \in Doc
<1>1. DocsOK(w.batch)
  BY DEF HasFields, DocsOK
<1>2. NextChunk(w) \in w.batch
  BY <1>1, EndDocs DEF NextChunk
<1> QED BY <1>1, <1>2 DEF DocsOK

LEMMA AddChunkKeeps ==
  ASSUME SchedInv, NEW c \in Compactors, AddChunk(c)
  PROVE  SchedInv'
<1> DEFINE w == compactors[c]
           d == NextChunk(w)
           target == Max({w.target_op, d.target_op})
           overlap == IF w.previous # None /\ w.previous.op_id = DocId(d) THEN Stats({d}) ELSE w.overlap
           v == WithChunk(w, d, target, overlap)
<1>1. w.step = "read" /\ w.kind = "chunks" /\ w.batch # {} /\ Become(c, v) /\ UNCHANGED <<bucket_data, bucket_state, log>>
  BY DEF AddChunk, Step, storageUnchanged, WithChunk
<1>2. DocsOK(bucket_data) /\ IsWorker(w) /\ HasFields(w) /\ IsFiniteSet(w.batch) /\ IsFiniteSet(w.pending) /\ IsFiniteSet(w.ops)
  BY SchedFields DEF IsWorker
<1>3. d \in Doc
  BY <1>1, <1>2, NextChunkIs
<1>4. target \in Nat
  <2>1. w.target_op \in Nat
    BY <1>2 DEF HasFields
  <2>2. d.target_op \in Nat
    BY <1>3 DEF Doc
  <2> QED BY <2>1, <2>2, MaxOfTwo
<1>5. IsFiniteSet(w.batch \ {d}) /\ IsFiniteSet(w.pending \cup {d})
  BY <1>2, FS_Subset, FS_AddElement
<1>6. w.batch \ {d} \in SUBSET Doc /\ w.pending \cup {d} \in SUBSET Doc
  BY <1>2, <1>3 DEF HasFields
<1>7. /\ HasFields(v) /\ v.step = w.step /\ v.kind = w.kind /\ v.state = w.state
      /\ v.batch = w.batch \ {d} /\ v.pending = w.pending \cup {d} /\ v.ops = w.ops
  <2> HIDE DEF d, target, overlap
  <2> QED BY <1>2, <1>4, <1>6 DEF HasFields, WithChunk
<1>8. IsBusy(w) /\ DocsOK(bucket_data')
  BY <1>1, <1>2 DEF IsBusy
<1> HIDE DEF v, d
<1>9. IsWorker(v)
  BY <1>1, <1>2, <1>5, <1>7 DEF IsWorker
<1> HIDE DEF w
<1> QED BY <1>1, <1>8, <1>9, WorkKeeps DEF w

LEMMA ReadOpsKeeps ==
  ASSUME SchedInv, NEW c \in Compactors, ReadOps(c)
  PROVE  SchedInv'
<1> DEFINE w == compactors[c]
           stats == Plus(w.stats, GroupStats(w))
           ops == OpsOf(Stored(w.pending))
           u == WithStats(NoGroup(w), stats)
           v == WithOps(w, ops)
<1>1. w.step = "read" /\ w.kind = "chunks" /\ w.pending # {} /\ UNCHANGED log
  BY DEF ReadOps, Step, storageUnchanged
<1>2. DocsOK(bucket_data) /\ IsWorker(w) /\ HasFields(w) /\ IsBusy(w) /\ w.step # "merge" /\ w.step # "idle"
  BY <1>1, SchedFields DEF IsBusy
<1>3. \/ Become(c, u) /\ UNCHANGED <<bucket_data, bucket_state>>
      \/ Ids(Stored(w.pending)) = Ids(w.pending) /\ Become(c, v) /\ UNCHANGED <<bucket_data, bucket_state>>
      \/ Throw(c) /\ UNCHANGED bucket_data
  <2>1. u = [NoGroup(w) EXCEPT !.stats = Plus(@, GroupStats(w))]
    BY <1>2 DEF WithStats, NoGroup, HasFields
  <2> HIDE DEF u
  <2> QED BY <2>1 DEF ReadOps, WithOps
<1>4. CASE Become(c, u) /\ UNCHANGED <<bucket_data, bucket_state>>
  <2>1. u = Counting(NoGroup(w), stats, w.clearAt)
    BY <1>2 DEF WithStats, Counting, NoGroup, HasFields
  <2> HIDE DEF u, stats
  <2>2. IsWorker(u)
    BY <1>2, <2>1, NoGroupIs
  <2>3. DocsOK(bucket_data')
    BY <1>2, <1>4
  <2> QED BY <1>1, <1>2, <1>4, <2>2, <2>3, WorkKeeps
<1>5. CASE Ids(Stored(w.pending)) = Ids(w.pending) /\ Become(c, v) /\ UNCHANGED <<bucket_data, bucket_state>>
  <2>1. Stored(w.pending) # {}
    <3>1. PICK d \in w.pending : TRUE
      BY <1>1
    <3>2. DocId(d) \in Ids(Stored(w.pending))
      BY <1>5 DEF Ids
    <3> QED BY <3>2 DEF Ids
  <2>2. DocsOK(Stored(w.pending))
    BY <1>2, DocsPart DEF Stored
  <2>3. ops \subseteq Op /\ IsFiniteSet(ops) /\ ops # {}
    BY <2>1, <2>2, OpsOfOK
  <2>4. /\ HasFields(v) /\ v.step = "merge" /\ v.kind = w.kind /\ v.state = w.state
        /\ v.batch = w.batch /\ v.pending = w.pending /\ v.ops = ops
    <3> HIDE DEF ops
    <3> QED BY <1>2, <2>3 DEF HasFields, WithOps, Steps
  <2> HIDE DEF v, ops
  <2>5. IsWorker(v)
    BY <1>1, <1>2, <2>3, <2>4 DEF IsWorker
  <2>6. DocsOK(bucket_data')
    BY <1>2, <1>5
  <2> QED BY <1>1, <1>2, <1>5, <2>5, <2>6, WorkKeeps
<1>6. CASE Throw(c) /\ UNCHANGED bucket_data
  <2>1. DocsOK(bucket_data')
    BY <1>2, <1>6
  <2> QED BY <1>1, <1>2, <1>6, <2>1, ThrowKeeps
<1> QED BY <1>3, <1>4, <1>5, <1>6

LEMMA MergeChunksKeeps ==
  ASSUME SchedInv, NEW c \in Compactors, MergeChunks(c)
  PROVE  SchedInv'
<1> DEFINE w == compactors[c]
           stats == Plus(w.stats, GroupStats(w))
           v == Merged(w, stats)
<1>1. w.step = "merge" /\ UNCHANGED log
  BY DEF MergeChunks, Step, storageUnchanged
<1>2. IsWorker(w) /\ HasFields(w) /\ IsBusy(w) /\ w.step # "idle" /\ w.step # "inspected"
  BY <1>1, SchedFields DEF IsBusy
<1>3. FlushGroup(c, v)
  <2>1. v = [NoGroup(w) EXCEPT !.step = "read", !.stats = Plus(@, GroupStats(w))]
    BY <1>2 DEF Merged, NoGroup, HasFields
  <2> HIDE DEF v
  <2> QED BY <2>1 DEF MergeChunks
<1>4. HasFields(NoGroup(w)) /\ NoGroup(w).state = w.state
      /\ NoGroup(w).batch = w.batch /\ NoGroup(w).pending = {} /\ NoGroup(w).ops = {}
  BY <1>2 DEF NoGroup, HasFields, Null
<1>5. \A t : HasFields(t) => LET r == WithBoth(t, "read", stats) IN
        HasFields(r) /\ r.step = "read" /\ r.state = t.state /\ r.batch = t.batch
        /\ r.pending = t.pending /\ r.ops = t.ops
  <2> HIDE DEF stats
  <2> QED BY ZenonT(40) DEF HasFields, WithBoth, Steps
<1>6. v = WithBoth(NoGroup(w), "read", stats)
  BY DEF Merged, WithBoth
<1> HIDE DEF v, stats
<1>7. HasFields(v) /\ v.step = "read" /\ v.state = w.state /\ v.batch = w.batch /\ v.pending = {} /\ v.ops = {}
  BY <1>4, <1>5, <1>6
<1>8. IsWorker(v)
  BY <1>1, <1>2, <1>7, FS_EmptySet DEF IsWorker
<1>9. w.ops # {}
  BY <1>1, <1>2 DEF IsWorker
<1> HIDE DEF w
<1> QED BY <1>1, <1>2, <1>3, <1>8, <1>9, FlushGroupKeeps DEF w

LEMMA EndChunksKeeps ==
  ASSUME SchedInv, NEW c \in Compactors, EndChunks(c)
  PROVE  SchedInv'
<1> DEFINE w == compactors[c]
           stats == IF w.previous = None THEN w.stats ELSE CombineChunkStats(w.previous, w.stats, w.overlap)
           u == WithStep(w, "reschedule")
           v == WithBoth(w, "finalize", stats)
<1>1. w.step = "read" /\ (Become(c, u) \/ Become(c, v)) /\ UNCHANGED <<bucket_data, bucket_state, log>>
  BY DEF EndChunks, Step, storageUnchanged, WithStep, WithBoth
<1>2. DocsOK(bucket_data) /\ IsWorker(w) /\ HasFields(w) /\ IsBusy(w) /\ w.step # "merge"
  BY <1>1, SchedFields DEF IsBusy
<1>3. DocsOK(bucket_data')
  BY <1>1, <1>2
<1>4. {"reschedule", "finalize"} \subseteq Steps \ {"idle", "inspected", "merge"}
  BY DEF Steps
<1>5. IsWorker(u) /\ IsWorker(v)
  <2> HIDE DEF stats, w
  <2> QED BY <1>2, <1>4, MovesOn
<1> HIDE DEF u, v, w
<1>6. CASE Become(c, u)
  BY <1>1, <1>2, <1>3, <1>5, <1>6, WorkKeeps DEF w
<1>7. CASE Become(c, v)
  BY <1>1, <1>2, <1>3, <1>5, <1>7, WorkKeeps DEF w
<1> QED BY <1>1, <1>6, <1>7

-----------------------------------------------------------------------------
LEMMA SchedStutters ==
  ASSUME SchedInv, UNCHANGED <<bucket_data, bucket_state, log, compactors>>
  PROVE  SchedInv'
<1>1. LogTypeOK' /\ DocsOK(bucket_data') /\ last_op' = last_op
  BY DEF SchedInv, LogTypeOK, last_op
<1>2. compactors' = [c \in Compactors |-> compactors'[c]] /\ \A c \in Compactors : IsWorker(compactors'[c])
  BY DEF SchedInv
<1>3. \/ bucket_state' = None /\ \A c \in Compactors : compactors'[c].step = "idle"
      \/ IsScheduled(bucket_state', last_op') /\ LeaseOK(bucket_state', compactors')
  BY <1>1 DEF SchedInv
<1> QED BY <1>1, <1>2, <1>3 DEF SchedInv

LEMMA SchedCompactorStep ==
  ASSUME SchedInv, NEW c \in Compactors, CompactorStep(c)
  PROVE  SchedInv'
<1>1. CASE RescheduleUnclaimed(c) \/ RescheduleClaimed(c)
  BY <1>1, RescheduleUnclaimedKeeps, RescheduleClaimedKeeps
<1>2. CASE ReadBatch(c) \/ CompactDocument(c) \/ EndScan(c)
  BY <1>2, ReadBatchKeeps, CompactDocumentKeeps, EndScanKeeps
<1>3. CASE ClearLeading(c) \/ ClearBoundary(c)
  BY <1>3, ClearLeadingKeeps, ClearBoundaryKeeps
<1>4. CASE ReadChunks(c) \/ AddChunk(c) \/ ReadOps(c)
  BY <1>4, ReadChunksKeeps, AddChunkKeeps, ReadOpsKeeps
<1>5. CASE MergeChunks(c) \/ EndChunks(c) \/ Finalize(c)
  BY <1>5, MergeChunksKeeps, EndChunksKeeps, FinalizeKeeps
<1> QED BY <1>1, <1>2, <1>3, <1>4, <1>5 DEF CompactorStep

LEMMA SchedNext ==
  ASSUME SchedInv, [MongoNext]_vars
  PROVE  SchedInv'
<1>1. CASE Flush
  BY <1>1, FlushKeeps
<1>2. CASE Commit
  BY <1>2, SchedStutters DEF Commit
<1>3. CASE Expire
  BY <1>3, ExpireKeeps
<1>4. ASSUME NEW c \in Compactors, Inspect(c) \/ \E kind \in {"full", "chunks", "none"} : Claim(c, kind)
      PROVE  SchedInv'
  BY <1>4, InspectKeeps, ClaimKeeps
<1>5. ASSUME NEW c \in Compactors, CompactorStep(c)
      PROVE  SchedInv'
  BY <1>5, SchedCompactorStep
<1>6. ASSUME NEW c \in Compactors, Renew(c) \/ Fail(c) \/ Crash(c)
      PROVE  SchedInv'
  BY <1>6, RenewKeeps, FailKeeps
<1>7. CASE UNCHANGED vars
  BY <1>7, SchedStutters DEF vars
<1> QED BY <1>1, <1>2, <1>3, <1>4, <1>5, <1>6, <1>7 DEF MongoNext

LEMMA SchedInit == MongoInit => SchedInv
<1> SUFFICES ASSUME MongoInit PROVE SchedInv
  OBVIOUS
<1>1. LogTypeOK /\ DocsOK(bucket_data)
  BY FS_EmptySet DEF MongoInit, LogTypeOK, DocsOK
<1>2. \A c \in Compactors : compactors[c] = Idle
  BY DEF MongoInit
<1>3. compactors = [c \in Compactors |-> compactors[c]]
  BY DEF MongoInit
<1>4. \A c \in Compactors : IsWorker(compactors[c]) /\ compactors[c].step = "idle"
  BY <1>2, IdleIsWorker DEF Idle
<1>5. bucket_state = None
  BY DEF MongoInit
<1> QED BY <1>1, <1>3, <1>4, <1>5 DEF SchedInv

LEMMA SchedInvariant == MongoSpec => []SchedInv
<1>1. SchedInv /\ [MongoNext]_vars => SchedInv'
  BY SchedNext
<1> QED BY <1>1, SchedInit, PTL DEF MongoSpec

(***************************************************************************)
(* "every bucket with outstanding work eventually receives a full          *)
(* compact": for every number of workers, in whatever order writes, their  *)
(* steps and the ends of their leases come, a bucket that no full          *)
(* compaction has covered stays scheduled, and one that is scheduled has   *)
(* work.                                                                   *)
(***************************************************************************)
THEOREM WorkIsScheduled == MongoSpec => []WorkStaysScheduled
<1>1. SchedInv => WorkStaysScheduled
  <2> SUFFICES ASSUME SchedInv, bucket_state # None
               PROVE  /\ bucket_state.last_full_compact < last_op => bucket_state.next_compact_check
                      /\ bucket_state.next_compact_check <=> bucket_state.first_uncompacted_write
    BY DEF WorkStaysScheduled
  <2>1. IsScheduled(bucket_state, last_op)
    BY DEF SchedInv
  <2>2. bucket_state.last_full_compact < last_op => bucket_state.next_compact_check = TRUE
    BY <2>1 DEF IsScheduled
  <2>3. bucket_state.next_compact_check = bucket_state.first_uncompacted_write
    BY <2>1 DEF IsScheduled
  <2> QED BY <2>2, <2>3, Zenon
<1> QED BY <1>1, SchedInvariant, PTL

-----------------------------------------------------------------------------
(***************************************************************************)
(* What a worker replaces, and what it may still think is stored           *)
(***************************************************************************)
LEMMA StoredIs ==
  ASSUME DocsOK(bucket_data), InOrder(bucket_data), NEW group, group \subseteq bucket_data
  PROVE  Stored(group) = group
<1>1. \A d \in bucket_data, e \in group : DocId(d) = DocId(e) => d = e
  BY InOrderIds
<1> QED BY <1>1 DEF Stored, Ids

\* A query whose limit is not reached found all there is.
LEMMA HighestAll ==
  ASSUME NEW docs, DocsOK(docs), InOrder(docs), NEW n \in Nat \ {0}, Cardinality(Highest(docs, n)) # n
  PROVE  Highest(docs, n) = docs
<1> DEFINE H == Highest(docs, n)
           Past(d) == {e \in docs : DocId(e) > DocId(d)}
<1>1. H = {d \in docs : Cardinality(Past(d)) < n}
  BY DEF Highest
<1>2. \A d \in H, e \in docs \ H : IsBefore(e, d)
  BY LimitedIs
<1>3. \A d, e \in docs : DocId(d) \in Nat /\ (DocId(d) < DocId(e) <=> IsBefore(d, e))
  BY InOrderIds
<1>4. IsFiniteSet(H) /\ Cardinality(H) \in Nat /\ \A d \in docs : IsFiniteSet(Past(d)) /\ Cardinality(Past(d)) \in Nat
  BY <1>1, FS_Subset, FS_CardinalityType DEF DocsOK
<1> SUFFICES ASSUME docs \ H # {} PROVE FALSE
  BY <1>1
<1>5. PICK e \in docs \ H : \A f \in docs \ H : DocId(f) <= DocId(e)
  BY DocsPart, EndDocs
<1>6. Past(e) = H
  <2>1. \A d \in H : DocId(d) > DocId(e)
    BY <1>1, <1>2, <1>3
  <2>2. \A f \in docs \ H : ~(DocId(f) > DocId(e))
    BY <1>3, <1>5
  <2> HIDE DEF H
  <2> QED BY <1>1, <2>1, <2>2
<1>7. Cardinality(H) >= n
  <2>1. ~(Cardinality(Past(e)) < n)
    BY <1>1
  <2> HIDE DEF H, Past
  <2> QED BY <1>4, <1>6, <2>1
<1>8. H # {}
  BY <1>7, FS_EmptySet
<1>9. PICK d \in H : \A f \in H : DocId(d) <= DocId(f)
  BY <1>1, <1>8, DocsPart, EndDocs
<1>10. Past(d) = H \ {d}
  <2>1. \A f \in H : f = d \/ DocId(f) > DocId(d)
    <3> SUFFICES ASSUME NEW f \in H, f # d PROVE DocId(f) > DocId(d)
      OBVIOUS
    <3>1. DocId(f) # DocId(d) /\ DocId(f) \in Nat /\ DocId(d) \in Nat
      BY <1>1, InOrderIds
    <3> QED BY <1>9, <3>1
  <2>2. \A f \in docs \ H : ~(DocId(f) > DocId(d))
    BY <1>1, <1>2, <1>3
  <2>3. ~(DocId(d) > DocId(d))
    BY <1>1, <1>3
  <2> HIDE DEF H
  <2> QED BY <1>1, <2>1, <2>2, <2>3
<1>11. Cardinality(H \ {d}) = Cardinality(H) - 1
  <2> HIDE DEF H
  <2> QED BY <1>4, FS_RemoveElement
<1>12. Cardinality(Past(d)) < n
  BY <1>1
<1> HIDE DEF H, Past
<1> QED BY <1>4, <1>7, <1>10, <1>11, <1>12 DEF H

LEMMA LowestAll ==
  ASSUME NEW docs, DocsOK(docs), InOrder(docs), NEW n \in Nat \ {0}, Cardinality(Lowest(docs, n)) # n
  PROVE  Lowest(docs, n) = docs
<1> DEFINE H == Lowest(docs, n)
           Past(d) == {e \in docs : DocId(e) < DocId(d)}
<1>1. H = {d \in docs : Cardinality(Past(d)) < n}
  BY DEF Lowest
<1>2. \A d \in H, e \in docs \ H : IsBefore(d, e)
  BY LimitedIs
<1>3. \A d, e \in docs : DocId(d) \in Nat /\ (DocId(d) < DocId(e) <=> IsBefore(d, e))
  BY InOrderIds
<1>4. IsFiniteSet(H) /\ Cardinality(H) \in Nat /\ \A d \in docs : IsFiniteSet(Past(d)) /\ Cardinality(Past(d)) \in Nat
  BY <1>1, FS_Subset, FS_CardinalityType DEF DocsOK
<1> SUFFICES ASSUME docs \ H # {} PROVE FALSE
  BY <1>1
<1>5. PICK e \in docs \ H : \A f \in docs \ H : DocId(e) <= DocId(f)
  BY DocsPart, EndDocs
<1>6. Past(e) = H
  <2>1. \A d \in H : DocId(d) < DocId(e)
    BY <1>1, <1>2, <1>3
  <2>2. \A f \in docs \ H : ~(DocId(f) < DocId(e))
    BY <1>3, <1>5
  <2> HIDE DEF H
  <2> QED BY <1>1, <2>1, <2>2
<1>7. Cardinality(H) >= n
  <2>1. ~(Cardinality(Past(e)) < n)
    BY <1>1
  <2> HIDE DEF H, Past
  <2> QED BY <1>4, <1>6, <2>1
<1>8. H # {}
  BY <1>7, FS_EmptySet
<1>9. PICK d \in H : \A f \in H : DocId(f) <= DocId(d)
  BY <1>1, <1>8, DocsPart, EndDocs
<1>10. Past(d) = H \ {d}
  <2>1. \A f \in H : f = d \/ DocId(f) < DocId(d)
    <3> SUFFICES ASSUME NEW f \in H, f # d PROVE DocId(f) < DocId(d)
      OBVIOUS
    <3>1. DocId(f) # DocId(d) /\ DocId(f) \in Nat /\ DocId(d) \in Nat
      BY <1>1, InOrderIds
    <3> QED BY <1>9, <3>1
  <2>2. \A f \in docs \ H : ~(DocId(f) < DocId(d))
    BY <1>1, <1>2, <1>3
  <2>3. ~(DocId(d) < DocId(d))
    BY <1>1, <1>3
  <2> HIDE DEF H
  <2> QED BY <1>1, <2>1, <2>2, <2>3
<1>11. Cardinality(H \ {d}) = Cardinality(H) - 1
  <2> HIDE DEF H
  <2> QED BY <1>4, FS_RemoveElement
<1>12. Cardinality(Past(d)) < n
  BY <1>1
<1> HIDE DEF H, Past
<1> QED BY <1>4, <1>7, <1>10, <1>11, <1>12 DEF H

-----------------------------------------------------------------------------
(***************************************************************************)
(* What a scan has seen is later than all that it still has to read, and   *)
(* what it makes of the operations T of a document stands for them.        *)
(***************************************************************************)
IsKnown(seen, ahead, L) ==
  \A r \in DOMAIN seen : \E t \in L : t.op_id = seen[r] /\ t.row = r /\ \A o \in ahead : o.op_id < t.op_id

\* No PUT up to the last operation that is not one
IsNotPut(ops, id) == \A o \in ops : o.op_id <= id => o.op # "PUT"

IsScanned(s, T, ahead, base, L) ==
  /\ s \in ScanState
  /\ IsRewrite(s.ops, T, s.target_op, L)
  /\ base.target_op <= s.target_op /\ IsTarget(s.target_op, L)
  /\ s.changed # TRUE => s.ops = T
  /\ IsKnown(s.seen, ahead, L)
  /\ s.lastNotPut # Null =>
       IsNotPut(s.ops, s.lastNotPut) /\ (s.lastNotPut = base.lastNotPut \/ HasId(s.ops, s.lastNotPut))

LEMMA MaxOfTwoIs ==
  ASSUME NEW m \in Nat, NEW n \in Nat
  PROVE  Max({m, n}) \in {m, n} /\ Max({m, n}) >= m /\ Max({m, n}) >= n
<1>1. IsFiniteSet({m, n})
  <2>1. IsFiniteSet({m})
    BY FS_Singleton
  <2>2. IsFiniteSet({m} \cup {n}) /\ {m} \cup {n} = {m, n}
    BY <2>1, FS_AddElement
  <2> QED BY <2>2
<1>2. Max({m, n}) \in {m, n} /\ \A k \in {m, n} : Max({m, n}) >= k
  BY <1>1, MaxIs
<1> QED BY <1>2

LEMMA CountedIs ==
  ASSUME NEW s \in ScanState, NEW o \in Op
  PROVE  /\ Counted(o, s).target_op = s.target_op /\ Counted(o, s).changed = s.changed
         /\ Counted(o, s).lastNotPut =
              IF o.op = "PUT" /\ o.row \notin DOMAIN s.seen THEN Null
              ELSE IF o.op = "CLEAR" \/ s.lastNotPut # Null THEN s.lastNotPut
              ELSE o.op_id
<1>1. \A m, n : /\ [s EXCEPT !.lastNotPut = m, !.opsSincePut = n].target_op = s.target_op
                /\ [s EXCEPT !.lastNotPut = m, !.opsSincePut = n].changed = s.changed
                /\ [s EXCEPT !.lastNotPut = m, !.opsSincePut = n].lastNotPut = m
  BY DEF ScanState
<1>2. CASE o.op = "PUT" /\ o.row \notin DOMAIN s.seen
  <2>1. Counted(o, s) = [s EXCEPT !.lastNotPut = Null, !.opsSincePut = 0]
    BY <1>2 DEF Counted
  <2> QED BY <1>1, <1>2, <2>1
<1>3. CASE ~(o.op = "PUT" /\ o.row \notin DOMAIN s.seen) /\ o.op = "CLEAR"
  <2>1. Counted(o, s) = s
    BY <1>3 DEF Counted
  <2> QED BY <1>3, <2>1
<1>4. CASE ~(o.op = "PUT" /\ o.row \notin DOMAIN s.seen) /\ o.op # "CLEAR"
  <2>1. Counted(o, s) = [s EXCEPT !.lastNotPut = IF @ = Null THEN o.op_id ELSE @, !.opsSincePut = @ + 1]
    BY <1>4 DEF Counted
  <2> DEFINE m == IF s.lastNotPut = Null THEN o.op_id ELSE s.lastNotPut
             n == s.opsSincePut + 1
  <2>2. Counted(o, s) = [s EXCEPT !.lastNotPut = m, !.opsSincePut = n]
    BY <2>1
  <2>3. m = IF s.lastNotPut # Null THEN s.lastNotPut ELSE o.op_id
    OBVIOUS
  <2> HIDE DEF m, n
  <2> QED BY <1>1, <1>4, <2>2, <2>3
<1> QED BY <1>2, <1>3, <1>4

LEMMA ScanIs ==
  ASSUME NEW s \in ScanState, NEW o \in Op
  PROVE  LET superseded == o.op \in {"PUT", "REMOVE"} /\ o.row \in DOMAIN s.seen
             t == Scan(o, s)
         IN /\ t \in ScanState
            /\ t.ops = s.ops \cup {IF superseded THEN [o EXCEPT !.op = "MOVE", !.row = None, !.data = None] ELSE o}
            /\ t.target_op = (IF superseded THEN Max({s.target_op, s.seen[o.row]}) ELSE s.target_op)
            /\ t.changed = (IF superseded THEN TRUE ELSE s.changed)
            /\ t.seen = (IF o.op \in {"PUT", "REMOVE"} /\ ~superseded THEN Remember(o, s.seen) ELSE s.seen)
            /\ t.lastNotPut = (IF o.op = "PUT" /\ ~superseded THEN Null
                               ELSE IF o.op = "CLEAR" \/ s.lastNotPut # Null THEN s.lastNotPut
                               ELSE o.op_id)
<1> DEFINE counted == Counted(o, s)
           superseded == o.op \in {"PUT", "REMOVE"} /\ o.row \in DOMAIN s.seen
           moved == [o EXCEPT !.op = "MOVE", !.row = None, !.data = None]
           m == Max({s.target_op, s.seen[o.row]})
           f == IF o.op \in {"PUT", "REMOVE"} THEN Remember(o, s.seen) ELSE s.seen
           t == Scan(o, s)
<1>1. counted \in ScanState /\ counted.ops = s.ops /\ counted.seen = s.seen /\ counted.target_op = s.target_op
      /\ counted.changed = s.changed
      /\ counted.lastNotPut = (IF o.op = "PUT" /\ ~superseded THEN Null
                               ELSE IF o.op = "CLEAR" \/ s.lastNotPut # Null THEN s.lastNotPut
                               ELSE o.op_id)
  BY CountedType, CountedIs
<1>2. t = IF superseded THEN [counted EXCEPT !.ops = @ \cup {moved}, !.target_op = Max({@, s.seen[o.row]}), !.changed = TRUE]
          ELSE [counted EXCEPT !.ops = @ \cup {o}, !.seen = IF o.op \in {"PUT", "REMOVE"} THEN Remember(o, @) ELSE @]
  BY ZenonT(40) DEF Scan, Counted
<1>3. t = IF superseded THEN [counted EXCEPT !.ops = s.ops \cup {moved}, !.target_op = m, !.changed = TRUE]
          ELSE [counted EXCEPT !.ops = s.ops \cup {o}, !.seen = f]
  <2> HIDE DEF counted, superseded, moved, t
  <2> QED BY <1>1, <1>2
<1>4. t \in ScanState
  BY ScanType
<1>5. CASE superseded
  <2>1. t = [counted EXCEPT !.ops = s.ops \cup {moved}, !.target_op = m, !.changed = TRUE]
    BY <1>3, <1>5
  <2> HIDE DEF counted, moved, t, m
  <2>2. t.ops = s.ops \cup {moved} /\ t.target_op = m /\ t.changed = TRUE /\ t.seen = counted.seen /\ t.lastNotPut = counted.lastNotPut
    BY <1>1, <2>1 DEF ScanState
  <2> QED BY <1>1, <1>4, <1>5, <2>2 DEF moved, m, t
<1>6. CASE ~superseded
  <2>1. t = [counted EXCEPT !.ops = s.ops \cup {o}, !.seen = f]
    BY <1>3, <1>6
  <2> HIDE DEF counted, t, f
  <2>2. t.ops = s.ops \cup {o} /\ t.target_op = s.target_op /\ t.changed = s.changed /\ t.seen = f /\ t.lastNotPut = counted.lastNotPut
    BY <1>1, <2>1 DEF ScanState
  <2> QED BY <1>1, <1>4, <1>6, <2>2 DEF f, t
<1> QED BY <1>5, <1>6

\* Rewritten parts make up a rewritten whole.
LEMMA RewriteMore ==
  ASSUME NEW A, NEW T, NEW m \in Nat, NEW B, NEW U, NEW n \in Nat, NEW L, m <= n,
         \A t \in L : t.op_id \in Nat, IsRewrite(A, T, m, L), IsRewrite(B, U, n, L),
         \A a \in T, b \in U : a.op_id # b.op_id
  PROVE  IsRewrite(A \cup B, T \cup U, n, L)
<1>1. ASSUME NEW x \in A
      PROVE  x.target_op = Null /\ \E o \in T : x.op_id = o.op_id /\ x.checksum = o.checksum /\ (x = o \/ IsMoveFor(x, o, n, L))
  <2>1. x.target_op = Null
    BY DEF IsRewrite
  <2>2. PICK o \in T : x.op_id = o.op_id /\ x.checksum = o.checksum /\ (x = o \/ IsMoveFor(x, o, m, L))
    BY DEF IsRewrite
  <2>3. IsMoveFor(x, o, m, L) => IsMoveFor(x, o, n, L)
    BY DEF IsMoveFor
  <2> QED BY <2>1, <2>2, <2>3
<1>2. HasOwnIds(A \cup B)
  <2>1. \A x \in A, y \in B : x.op_id # y.op_id
    BY DEF IsRewrite
  <2> QED BY <2>1 DEF IsRewrite, HasOwnIds
<1>3. A \cup B \subseteq Op /\ IsFiniteSet(A \cup B)
  BY FS_Union DEF IsRewrite
<1>4. \A o \in T \cup U : HasId(A \cup B, o.op_id)
  BY DEF IsRewrite, HasId
<1>5. \A x \in B : /\ x.target_op = Null
                   /\ \E o \in U : x.op_id = o.op_id /\ x.checksum = o.checksum /\ (x = o \/ IsMoveFor(x, o, n, L))
  BY DEF IsRewrite
<1> QED BY <1>1, <1>2, <1>3, <1>4, <1>5 DEF IsRewrite

LEMMA RewriteItself ==
  ASSUME NEW S, S \subseteq Op, IsFiniteSet(S), HasOwnIds(S), \A o \in S : o.target_op = Null, NEW target, NEW L
  PROVE  IsRewrite(S, S, target, L)
BY DEF IsRewrite, HasId

LEMMA MovedOp ==
  ASSUME NEW o \in Op, o.op \in {"PUT", "REMOVE"}
  PROVE  LET m == [o EXCEPT !.op = "MOVE", !.row = None, !.data = None]
         IN m \in Op /\ m.op = "MOVE" /\ m.op_id = o.op_id /\ m.checksum = o.checksum /\ m.target_op = o.target_op
<1>1. o \in PutOp \/ o \in RemoveOp
  BY DEF Op, MoveOp, ClearOp
<1>2. o \in [op : {"PUT", "REMOVE"}, op_id : {o.op_id}, row : Rows, data : Values \cup {None}, checksum : Nat, target_op : Nat]
  BY <1>1 DEF PutOp, RemoveOp, Null
<1> DEFINE m == [o EXCEPT !.op = "MOVE", !.row = None, !.data = None]
<1>3. m.op = "MOVE" /\ m.op_id = o.op_id /\ m.checksum = o.checksum /\ m.target_op = o.target_op
  BY <1>2
<1>4. m \in MoveOp
  BY MovedIs
<1> QED BY <1>3, <1>4 DEF Op

LEMMA RememberKnown ==
  ASSUME NEW seen, NEW o, NEW ahead, NEW L, o \in L, \A p \in ahead : p.op_id < o.op_id, IsKnown(seen, ahead, L)
  PROVE  IsKnown(Remember(o, seen), ahead, L)
<1>1. CASE Cardinality(DOMAIN seen) < MaxSeen
  <2> DEFINE f == [r \in DOMAIN seen \cup {o.row} |-> IF r = o.row THEN o.op_id ELSE seen[r]]
  <2>1. Remember(o, seen) = f
    BY <1>1 DEF Remember
  <2>2. ASSUME NEW r \in DOMAIN f
        PROVE  \E t \in L : t.op_id = f[r] /\ t.row = r /\ \A p \in ahead : p.op_id < t.op_id
    <3>1. CASE r = o.row
      BY <3>1
    <3>2. CASE r # o.row
      BY <3>2 DEF IsKnown
    <3> QED BY <3>1, <3>2
  <2> QED BY <2>1, <2>2 DEF IsKnown
<1>2. CASE ~(Cardinality(DOMAIN seen) < MaxSeen)
  BY <1>2 DEF Remember
<1> QED BY <1>1, <1>2

\* The scan of one more operation, the last before those of T
LEMMA ScanOne ==
  ASSUME NEW L, IsOps(L), NEW base, NEW T, NEW ahead, NEW o \in Op, NEW s,
         base.target_op \in Nat, IsScanned(s, T, ahead \cup {o}, base, L),
         o.target_op = Null, o.op \in {"PUT", "REMOVE"} => o \in L,
         \A p \in T : o.op_id < p.op_id, \A p \in ahead : p.op_id < o.op_id
  PROVE  IsScanned(Scan(o, s), T \cup {o}, ahead, base, L)
<1> DEFINE superseded == o.op \in {"PUT", "REMOVE"} /\ o.row \in DOMAIN s.seen
           moved == [o EXCEPT !.op = "MOVE", !.row = None, !.data = None]
           x == IF superseded THEN moved ELSE o
           t == Scan(o, s)
<1>0. /\ s \in ScanState
      /\ IsRewrite(s.ops, T, s.target_op, L)
      /\ base.target_op <= s.target_op /\ IsTarget(s.target_op, L)
      /\ s.changed # TRUE => s.ops = T
      /\ IsKnown(s.seen, ahead \cup {o}, L)
      /\ s.lastNotPut # Null =>
           IsNotPut(s.ops, s.lastNotPut) /\ (s.lastNotPut = base.lastNotPut \/ HasId(s.ops, s.lastNotPut))
  BY DEF IsScanned
<1>1. /\ t \in ScanState
      /\ t.ops = s.ops \cup {x}
      /\ t.target_op = (IF superseded THEN Max({s.target_op, s.seen[o.row]}) ELSE s.target_op)
      /\ t.changed = (IF superseded THEN TRUE ELSE s.changed)
      /\ t.seen = (IF o.op \in {"PUT", "REMOVE"} /\ ~superseded THEN Remember(o, s.seen) ELSE s.seen)
      /\ t.lastNotPut = (IF o.op = "PUT" /\ ~superseded THEN Null
                         ELSE IF o.op = "CLEAR" \/ s.lastNotPut # Null THEN s.lastNotPut
                         ELSE o.op_id)
  BY <1>0, ScanIs
<1>2. \A p \in L : p \in Op /\ p.op_id \in Nat /\ p.op_id > 0
  BY OpFields DEF IsOps
<1>3. o.op_id \in Nat /\ o.op_id > 0 /\ o.op \in {"PUT", "REMOVE", "MOVE", "CLEAR"} /\ o.checksum \in Nat
  BY OpFields
<1>4. s.target_op \in Nat /\ s.ops \subseteq Op
  BY <1>0 DEF ScanState, FiniteOps
<1>5. superseded => \E q \in L : q.op_id = s.seen[o.row] /\ Supersedes(q, o)
  BY <1>0 DEF IsKnown, Supersedes
<1>6. t.target_op \in Nat /\ s.target_op <= t.target_op /\ IsTarget(t.target_op, L)
      /\ (superseded => \E q \in L : Supersedes(q, o) /\ q.op_id <= t.target_op)
  <2>1. CASE superseded
    <3>1. PICK q \in L : q.op_id = s.seen[o.row] /\ Supersedes(q, o)
      BY <1>5, <2>1
    <3>2. s.seen[o.row] \in Nat
      BY <1>2, <3>1
    <3>3. Max({s.target_op, s.seen[o.row]}) \in {s.target_op, s.seen[o.row]}
          /\ Max({s.target_op, s.seen[o.row]}) >= s.target_op /\ Max({s.target_op, s.seen[o.row]}) >= s.seen[o.row]
      BY <1>4, <3>2, MaxOfTwoIs
    <3>4. t.target_op = Max({s.target_op, s.seen[o.row]})
      BY <1>1, <2>1
    <3>5. IsTarget(t.target_op, L)
      BY <1>0, <3>1, <3>3, <3>4 DEF IsTarget, HasId
    <3> HIDE DEF t, superseded
    <3> QED BY <1>4, <3>1, <3>2, <3>3, <3>4, <3>5
  <2>2. CASE ~superseded
    BY <1>0, <1>1, <1>4, <2>2
  <2> QED BY <2>1, <2>2
<1>7. x \in Op /\ x.op_id = o.op_id /\ x.checksum = o.checksum /\ x.target_op = Null
      /\ (x = o \/ IsMoveFor(x, o, t.target_op, L)) /\ (~superseded => x = o) /\ (superseded => x.op = "MOVE")
  <2>1. CASE superseded
    <3>1. x = moved
      BY <2>1
    <3>2. moved \in Op /\ moved.op = "MOVE" /\ moved.op_id = o.op_id /\ moved.checksum = o.checksum /\ moved.target_op = Null
      BY <2>1, MovedOp
    <3> HIDE DEF x, moved, t
    <3> QED BY <1>6, <2>1, <3>1, <3>2 DEF IsMoveFor
  <2>2. CASE ~superseded
    BY <2>2
  <2> QED BY <2>1, <2>2
<1> HIDE DEF x, t
<1>8. IsRewrite(t.ops, T \cup {o}, t.target_op, L)
  <2>1. IsRewrite({x}, {o}, t.target_op, L)
    BY <1>7, FS_Singleton DEF IsRewrite, HasOwnIds, HasId
  <2>2. \A a \in T, b \in {o} : a.op_id # b.op_id
    BY <1>3
  <2>3. IsRewrite(s.ops \cup {x}, T \cup {o}, t.target_op, L)
    BY <1>0, <1>2, <1>4, <1>6, <2>1, <2>2, RewriteMore
  <2> QED BY <1>1, <2>3
<1>9. base.target_op <= t.target_op
  BY <1>0, <1>4, <1>6
<1>10. t.changed # TRUE => t.ops = T \cup {o}
  BY <1>0, <1>1, <1>7
<1>11. IsKnown(t.seen, ahead, L)
  <2>1. IsKnown(s.seen, ahead, L)
    BY <1>0 DEF IsKnown
  <2>2. CASE o.op \in {"PUT", "REMOVE"} /\ ~superseded
    BY <1>1, <2>1, <2>2, RememberKnown
  <2>3. CASE ~(o.op \in {"PUT", "REMOVE"} /\ ~superseded)
    <3>1. t.seen = s.seen
      BY <1>1, <2>3
    <3> QED BY <2>1, <3>1
  <2> QED BY <2>2, <2>3
<1>12. ASSUME t.lastNotPut # Null
       PROVE  IsNotPut(t.ops, t.lastNotPut) /\ (t.lastNotPut = base.lastNotPut \/ HasId(t.ops, t.lastNotPut))
  <2>1. ~(o.op = "PUT" /\ ~superseded)
    BY <1>1, <1>12
  <2>2. x.op # "PUT"
    BY <1>7, <2>1
  <2>3. CASE t.lastNotPut = s.lastNotPut
    BY <1>0, <1>1, <1>12, <2>2, <2>3 DEF IsNotPut, HasId
  <2>4. CASE t.lastNotPut = o.op_id /\ t.lastNotPut # s.lastNotPut
    <3>1. \A m \in s.ops : ~(m.op_id <= o.op_id)
      <4> SUFFICES ASSUME NEW m \in s.ops PROVE ~(m.op_id <= o.op_id)
        OBVIOUS
      <4>1. PICK p \in T : m.op_id = p.op_id
        BY <1>0 DEF IsRewrite
      <4>2. m.op_id \in Nat /\ o.op_id < m.op_id
        BY <1>4, <4>1, OpFields
      <4> QED BY <1>3, <4>2
    <3>2. HasId(t.ops, o.op_id)
      BY <1>1, <1>7 DEF HasId
    <3> QED BY <1>1, <2>2, <2>4, <3>1, <3>2 DEF IsNotPut
  <2> QED BY <1>1, <2>1, <2>3, <2>4
<1> QED BY <1>0, <1>1, <1>6, <1>8, <1>9, <1>10, <1>11, <1>12 DEF IsScanned, t

LEMMA ScanAll ==
  ASSUME NEW L, IsOps(L), NEW S, S \subseteq Op, IsFiniteSet(S), HasOwnIds(S), NEW base \in ScanState, NEW rest,
         \A o \in S : o.target_op = Null /\ (o.op \in {"PUT", "REMOVE"} => o \in L),
         \A p \in rest, o \in S : p.op_id < o.op_id,
         base.ops = {}, IsTarget(base.target_op, L), IsKnown(base.seen, rest \cup S, L)
  PROVE  IsScanned(ScanOf(base, S), S, rest, base, L)
<1> DEFINE g == CHOOSE f : IsScan(f, base, S)
           IsEnd(T) == \A o \in S \ T, p \in T : o.op_id < p.op_id
           P == {T \in SUBSET S : IsEnd(T) => IsScanned(g[T], T, rest \cup (S \ T), base, L)}
<1>0. \A o \in S : o \in Op /\ o.op_id \in Nat
  BY OpFields
<1>1. IsScan(g, base, S)
  BY ScanExists
<1>2. \A T \in SUBSET S : g[T] = IF T = {} THEN base ELSE Scan(FirstOp(T), g[T \ {FirstOp(T)}])
  <2> HIDE DEF g
  <2> QED BY <1>1 DEF IsScan
<1> HIDE DEF g
<1>3. base.target_op \in Nat /\ base.lastNotPut \in Nat
  BY DEF ScanState
<1>4. IsScanned(base, {}, rest \cup S, base, L)
  <2>1. IsRewrite({}, {}, base.target_op, L)
    BY FS_EmptySet DEF IsRewrite, HasOwnIds
  <2> QED BY <1>3, <2>1 DEF IsScanned, IsNotPut
<1>5. ASSUME NEW T \in SUBSET S, \A U \in SUBSET T : U # T => U \in P
      PROVE  T \in P
  <2> SUFFICES ASSUME IsEnd(T) PROVE IsScanned(g[T], T, rest \cup (S \ T), base, L)
    OBVIOUS
  <2>1. CASE T = {}
    <3>1. g[T] = base /\ S \ T = S
      BY <1>2, <2>1
    <3> QED BY <1>4, <2>1, <3>1
  <2>2. CASE T # {}
    <3> DEFINE o == FirstOp(T)
               U == T \ {o}
               ahead == rest \cup (S \ T)
    <3>1. o \in T /\ \A p \in T : o.op_id <= p.op_id
      BY <2>2, FirstOpMin, FS_Subset
    <3> HIDE DEF o
    <3>2. \A p \in U : o.op_id < p.op_id
      BY <1>0, <3>1 DEF HasOwnIds
    <3>3. \A p \in ahead : p.op_id < o.op_id
      BY <3>1
    <3>4. IsEnd(U)
      <4> SUFFICES ASSUME NEW q \in S \ U, NEW p \in U PROVE q.op_id < p.op_id
        OBVIOUS
      <4>1. q \in S \ T \/ q = o
        OBVIOUS
      <4> QED BY <3>2, <4>1
    <3>5. U \in P
      BY <1>5, <3>1
    <3>6. rest \cup (S \ U) = ahead \cup {o}
      BY <3>1
    <3>7. IsScanned(g[U], U, ahead \cup {o}, base, L)
      BY <3>4, <3>5, <3>6
    <3>8. g[T] = Scan(o, g[U]) /\ U \cup {o} = T
      BY <1>2, <2>2, <3>1 DEF o
    <3>9. o \in Op /\ o.target_op = Null /\ (o.op \in {"PUT", "REMOVE"} => o \in L)
      BY <1>0, <3>1
    <3> HIDE DEF U, ahead
    <3>10. IsScanned(Scan(o, g[U]), U \cup {o}, ahead, base, L)
      BY <1>3, <3>2, <3>3, <3>7, <3>9, ScanOne
    <3> QED BY <3>8, <3>10 DEF ahead
  <2> QED BY <2>1, <2>2
<1>6. S \in P
  <2> HIDE DEF P
  <2>1. \A T \in SUBSET S : (\A U \in SUBSET T : U # T => U \in P) => T \in P
    BY <1>5
  <2> QED BY <2>1, SubsetInduction
<1>7. ScanOf(base, S) = g[S]
  BY ScanFold DEF g
<1>8. rest \cup (S \ S) = rest
  OBVIOUS
<1> QED BY <1>6, <1>7, <1>8

-----------------------------------------------------------------------------
(***************************************************************************)
(* What holds of a worker and the documents it works on.                   *)
(***************************************************************************)
IsBeyond(w, d) == IF w.kind = "full" THEN DocId(d) < w.bound ELSE w.bound < DocId(d)
Unread(w, docs) == {d \in docs : d \in w.batch \/ IsBeyond(w, d)}
Done(w, docs) == docs \ (Unread(w, docs) \cup w.pending)

\* No PUT up to the operation lastNotPut, which is in the group or in the document at clearAt
NotPutOK(w, lastNotPut, docs) ==
  lastNotPut # Null =>
    /\ IsNotPut(OpsOf(Done(w, docs)) \cup w.ops, lastNotPut)
    /\ HasId(w.ops, lastNotPut) \/ \E d \in Done(w, docs) : DocId(d) = w.clearAt /\ HasId(d.ops, lastNotPut)

FullOK(w, lastNotPut, docs, L, n) ==
  /\ w.step = "read" /\ w.bound <= n + 1
  /\ IsRewrite(w.ops, OpsOf(w.pending), w.target_op, L)
  /\ w.changed = TRUE \/ w.ops = OpsOf(w.pending)
  /\ IsKnown(w.seen, OpsOf(Unread(w, docs)), L)
  /\ NotPutOK(w, lastNotPut, docs)
  /\ w.more = TRUE \/ \A d \in docs : ~IsBeyond(w, d)

ChunksOK(w, n) ==
  /\ w.bound <= n /\ w.target \in Nat
  /\ w.verify = FALSE \/ (w.batch = {} /\ w.pending = {})
  /\ w.step = "merge" => w.pending # {} /\ w.ops = OpsOf(w.pending)

ReadOK(w, lastNotPut, docs, L, n) ==
  /\ IsPass(w.kind, Unread(w, docs), w.pending, docs)
  /\ w.batch \subseteq docs /\ \A d \in w.batch : ~IsBeyond(w, d)
  /\ w.bound \in Nat
  /\ IsTarget(w.target_op, L) /\ \A d \in w.pending : d.target_op <= w.target_op
  /\ w.kind = "full" => FullOK(w, lastNotPut, docs, L, n)
  /\ w.kind # "full" => ChunksOK(w, n)

ClearOK(w, docs) ==
  /\ IsNotPut(OpsOf(docs), w.lastNotPut)
  /\ \E d \in docs : DocId(d) = w.clearAt /\ HasId(d.ops, w.lastNotPut)

IsFresh(w, n) ==
  /\ w.batch = {} /\ w.pending = {} /\ w.ops = {} /\ w.seen = << >> /\ w.lastNotPut = Null /\ w.target_op = Null
  /\ w.more = TRUE /\ w.compactedOp = 0 /\ w.cap \in Nat /\ w.cap <= n

WorkOK(w, docs, L, n) ==
  /\ w.compactedOp <= n
  /\ w.step = "inspected" => IsFresh(w, n)
  /\ w.step \in {"read", "merge"} => ReadOK(w, w.lastNotPut, docs, L, n)
  /\ w.step \in {"clear", "boundary"} => ClearOK(w, docs)
  /\ w.step \in {"clear", "boundary", "finalize"} => w.compactedOp # 0

CompactedOK(s, n) == s.compacted_state # None => s.compacted_state.op_id \in 1..n

ReadInv ==
  /\ IsLog(log, last_op) /\ IsStore(bucket_data, log, last_op)
  /\ checkpoint \in Nat /\ checkpoint <= last_op
  /\ \/ bucket_state = None /\ \A c \in Compactors : compactors[c].step = "idle"
     \/ CompactedOK(bucket_state, last_op)
  /\ \A c \in Compactors : WorkOK(compactors[c], bucket_data, log, last_op)

-----------------------------------------------------------------------------
(***************************************************************************)
(* A document is written while a worker is at work.                        *)
(***************************************************************************)
LEMMA WorkGrows ==
  ASSUME NEW D, NEW L, NEW n, IsLog(L, n), IsStore(D, L, n), NEW op \in PutOp \cup RemoveOp, op.op_id = n + 1,
         NEW w, HasFields(w), WorkOK(w, D, L, n)
  PROVE  WorkOK(w, D \cup {Document({op}, Null)}, L \cup {op}, n + 1)
<1> DEFINE e == Document({op}, Null)
           E == D \cup {e}
           M == L \cup {op}
<1>0. n \in Nat /\ w.compactedOp \in Nat
  BY DEF IsLog, HasFields
<1>1. op \in Op
  BY DEF Op
<1>2. e \in Doc /\ e.ops = {op}
  BY <1>1, FS_Singleton, Documents DEF Document, Null
<1>3. DocId(e) = n + 1
  BY <1>2, DocEnds DEF HasId
<1> HIDE DEF e
<1>4. \A d \in D : IsBefore(d, e)
  BY <1>0, <1>2, StoreDoc DEF IsBefore
<1>5. e \notin D
  <2> SUFFICES ASSUME e \in D PROVE FALSE
    OBVIOUS
  <2>1. op.op_id <= n
    BY <1>2, StoreDoc
  <2> QED BY <1>0, <2>1
<1>6. \A id : IsTarget(id, L) => IsTarget(id, M)
  BY DEF IsTarget, HasId
<1>7. ASSUME w.step \in {"read", "merge"} PROVE ReadOK(w, w.lastNotPut, E, M, n + 1)
  <2>1. ReadOK(w, w.lastNotPut, D, L, n)
    BY <1>7 DEF WorkOK
  <2>2. w.batch \subseteq D /\ w.pending \subseteq D /\ w.bound \in Nat
    BY <2>1 DEF ReadOK, IsPass
  <2>3. CASE w.kind = "full"
    <3>1. FullOK(w, w.lastNotPut, D, L, n)
      BY <2>1, <2>3 DEF ReadOK
    <3>2. ~IsBeyond(w, e)
      BY <1>0, <1>3, <2>2, <2>3, <3>1 DEF IsBeyond, FullOK
    <3>3. Unread(w, E) = Unread(w, D) /\ Done(w, E) = Done(w, D) \cup {e}
      BY <1>5, <2>2, <3>2 DEF Unread, Done
    <3>4. IsPass(w.kind, Unread(w, E), w.pending, E)
      BY <1>4, <1>5, <2>1, <2>3, <3>3, PassGrows DEF ReadOK
    <3>5. NotPutOK(w, w.lastNotPut, E)
      <4> SUFFICES ASSUME w.lastNotPut # Null
                   PROVE  /\ IsNotPut(OpsOf(Done(w, E)) \cup w.ops, w.lastNotPut)
                          /\ HasId(w.ops, w.lastNotPut) \/ \E d \in Done(w, E) : DocId(d) = w.clearAt /\ HasId(d.ops, w.lastNotPut)
        BY DEF NotPutOK
      <4>1. /\ IsNotPut(OpsOf(Done(w, D)) \cup w.ops, w.lastNotPut)
            /\ HasId(w.ops, w.lastNotPut) \/ \E d \in Done(w, D) : DocId(d) = w.clearAt /\ HasId(d.ops, w.lastNotPut)
        BY <3>1 DEF FullOK, NotPutOK
      <4>2. w.lastNotPut <= n
        <5>1. CASE HasId(w.ops, w.lastNotPut)
          <6>1. PICK m \in w.ops : m.op_id = w.lastNotPut
            BY <5>1 DEF HasId
          <6>2. PICK o \in OpsOf(w.pending) : m.op_id = o.op_id
            BY <3>1 DEF FullOK, IsRewrite
          <6>3. PICK d \in w.pending : o \in d.ops
            BY OpsOfHas
          <6> QED BY <2>2, <6>1, <6>2, <6>3, StoreDoc
        <5>2. CASE \E d \in Done(w, D) : HasId(d.ops, w.lastNotPut)
          BY <5>2, StoreDoc DEF HasId, Done
        <5> QED BY <4>1, <5>1, <5>2
      <4>3. w.lastNotPut \in Nat
        BY DEF HasFields
      <4>4. OpsOf(Done(w, E)) = OpsOf(Done(w, D)) \cup {op}
        BY <1>2, <3>3 DEF OpsOf
      <4>5. IsNotPut(OpsOf(Done(w, E)) \cup w.ops, w.lastNotPut)
        <5> SUFFICES ASSUME NEW o \in OpsOf(Done(w, E)) \cup w.ops, o.op_id <= w.lastNotPut PROVE o.op # "PUT"
          BY DEF IsNotPut
        <5>1. o # op
          BY <1>0, <4>2, <4>3
        <5>2. o \in OpsOf(Done(w, D)) \cup w.ops
          BY <4>4, <5>1
        <5> QED BY <4>1, <5>2 DEF IsNotPut
      <4> QED BY <3>3, <4>1, <4>5
    <3>6. IsRewrite(w.ops, OpsOf(w.pending), w.target_op, M)
      BY <3>1 DEF FullOK, IsRewrite, IsMoveFor
    <3>7. IsKnown(w.seen, OpsOf(Unread(w, E)), M)
      BY <3>1, <3>3 DEF FullOK, IsKnown
    <3>8. w.bound <= (n + 1) + 1
      BY <1>0, <2>2, <3>1 DEF FullOK
    <3>9. w.more = TRUE \/ \A d \in E : ~IsBeyond(w, d)
      BY <3>1, <3>2 DEF FullOK
    <3>10. FullOK(w, w.lastNotPut, E, M, n + 1)
      BY <3>1, <3>5, <3>6, <3>7, <3>8, <3>9 DEF FullOK
    <3> QED BY <1>6, <2>1, <2>3, <3>4, <3>10 DEF ReadOK
  <2>4. CASE w.kind # "full"
    <3>1. ChunksOK(w, n)
      BY <2>1, <2>4 DEF ReadOK
    <3>2. IsBeyond(w, e)
      BY <1>0, <1>3, <2>2, <2>4, <3>1 DEF IsBeyond, ChunksOK
    <3>3. Unread(w, E) = Unread(w, D) \cup {e}
      BY <3>2 DEF Unread
    <3>4. IsPass(w.kind, Unread(w, E), w.pending, E)
      <4>1. IsPass(w.kind, Unread(w, D), w.pending, D)
        BY <2>1 DEF ReadOK
      <4>2. IsPass(w.kind, Unread(w, D) \cup {e}, w.pending, D \cup {e})
        <5> HIDE DEF E
        <5> QED BY <1>4, <1>5, <2>4, <4>1, PassGrows
      <4> QED BY <3>3, <4>2
    <3>5. ChunksOK(w, n + 1)
      BY <1>0, <2>2, <3>1 DEF ChunksOK
    <3> QED BY <1>6, <2>1, <2>4, <3>4, <3>5 DEF ReadOK
  <2> QED BY <2>3, <2>4
<1>8. ASSUME w.step \in {"clear", "boundary"} PROVE ClearOK(w, E)
  <2>1. ClearOK(w, D)
    BY <1>8 DEF WorkOK
  <2>2. PICK d \in D : DocId(d) = w.clearAt /\ HasId(d.ops, w.lastNotPut)
    BY <2>1 DEF ClearOK
  <2>3. w.lastNotPut <= n /\ w.lastNotPut \in Nat
    BY <2>2, StoreDoc DEF HasId, HasFields
  <2>4. OpsOf(E) = OpsOf(D) \cup {op}
    BY <1>2 DEF OpsOf
  <2>5. IsNotPut(OpsOf(E), w.lastNotPut)
    BY <1>0, <2>1, <2>3, <2>4 DEF ClearOK, IsNotPut
  <2> QED BY <2>2, <2>5 DEF ClearOK
<1>9. w.compactedOp <= n + 1
  BY <1>0 DEF WorkOK
<1>10. w.step = "inspected" => IsFresh(w, n + 1)
  BY <1>0 DEF WorkOK, IsFresh
<1>11. WorkOK(w, E, M, n + 1)
  BY <1>7, <1>8, <1>9, <1>10 DEF WorkOK
<1> QED BY <1>11 DEF e

-----------------------------------------------------------------------------
(* At most one worker has claimed the bucket. *)
OneWorker == \A c, d \in Compactors : IsBusy(compactors[c]) /\ IsBusy(compactors[d]) => c = d

(***************************************************************************)
(* What the invariant asks of a step of one worker.                        *)
(***************************************************************************)
LEMMA BecomeIs ==
  ASSUME SchedInv, NEW c \in Compactors, NEW w, Become(c, w)
  PROVE  \A d \in Compactors : compactors'[d] = IF d = c THEN w ELSE compactors[d]
BY DEF SchedInv, Become

\* One that leaves what is stored alone
LEMMA WorkStep ==
  ASSUME SchedInv, ReadInv, NEW c \in Compactors, NEW w, Become(c, w), WorkOK(w, bucket_data, log, last_op),
         CompactedOK(bucket_state', last_op),
         UNCHANGED <<bucket_data, checkpoint, log>>
  PROVE  ReadInv'
<1>1. last_op' = last_op
  BY DEF last_op
<1>2. \A d \in Compactors : compactors'[d] = IF d = c THEN w ELSE compactors[d]
  BY BecomeIs
<1>3. \A d \in Compactors : WorkOK(compactors'[d], bucket_data, log, last_op)
  BY <1>2 DEF ReadInv
<1> QED BY <1>1, <1>3 DEF ReadInv

LEMMA HasState ==
  ASSUME ReadInv, NEW c \in Compactors, compactors[c].step # "idle"
  PROVE  CompactedOK(bucket_state, last_op)
BY DEF ReadInv

LEMMA RestsOK ==
  ASSUME NEW w, ~IsBusy(w), NEW D, NEW L, NEW n, NEW E, WorkOK(w, D, L, n)
  PROVE  WorkOK(w, E, L, n)
BY DEF IsBusy, WorkOK

\* One that replaces documents
LEMMA StoreStep ==
  ASSUME SchedInv, ReadInv, OneWorker, NEW c \in Compactors, IsBusy(compactors[c]), NEW w, Become(c, w),
         NEW docs, bucket_data' = docs, IsStore(docs, log, last_op), WorkOK(w, docs, log, last_op),
         UNCHANGED <<bucket_state, checkpoint, log>>
  PROVE  ReadInv'
<1>1. last_op' = last_op
  BY DEF last_op
<1>2. \A d \in Compactors : compactors'[d] = IF d = c THEN w ELSE compactors[d]
  BY BecomeIs
<1>3. ASSUME NEW d \in Compactors PROVE WorkOK(compactors'[d], docs, log, last_op)
  <2>1. CASE d = c
    BY <1>2, <2>1
  <2>2. CASE d # c
    <3>1. ~IsBusy(compactors[d])
      BY <2>2 DEF OneWorker
    <3>2. WorkOK(compactors[d], bucket_data, log, last_op)
      BY DEF ReadInv
    <3> QED BY <1>2, <2>2, <3>1, <3>2, RestsOK
  <2> QED BY <2>1, <2>2
<1>4. CompactedOK(bucket_state, last_op)
  BY HasState DEF IsBusy
<1> QED BY <1>1, <1>3, <1>4 DEF ReadInv

LEMMA ReadFields ==
  ASSUME ReadInv, NEW c \in Compactors
  PROVE  /\ IsLog(log, last_op) /\ IsStore(bucket_data, log, last_op) /\ last_op \in Nat
         /\ WorkOK(compactors[c], bucket_data, log, last_op)
BY DEF ReadInv, IsLog

LEMMA IdleIsFine ==
  ASSUME NEW D, NEW L, NEW n \in Nat
  PROVE  WorkOK(Idle, D, L, n)
BY DEF WorkOK, Idle

\* The state of the bucket but for what was compacted
LEMMA StillCompacted ==
  ASSUME NEW s, NEW n, IsState(s), CompactedOK(s, n)
  PROVE  /\ CompactedOK([s EXCEPT !.compact_lease = None], n)
         /\ CompactedOK([s EXCEPT !.next_compact_check = TRUE], n)
         /\ \A l : CompactedOK([s EXCEPT !.compact_lease = l], n)
         /\ \A e : CompactedOK([s EXCEPT !.compact_lease.expired = e], n)
<1>1. /\ [s EXCEPT !.compact_lease = None].compacted_state = s.compacted_state
      /\ [s EXCEPT !.next_compact_check = TRUE].compacted_state = s.compacted_state
      /\ \A l : [s EXCEPT !.compact_lease = l].compacted_state = s.compacted_state
      /\ \A e : [s EXCEPT !.compact_lease.expired = e].compacted_state = s.compacted_state
  BY DEF IsState
<1> QED BY <1>1 DEF CompactedOK

LEMMA ThrowStep ==
  ASSUME SchedInv, ReadInv, NEW c \in Compactors, compactors[c].step # "idle", Throw(c), UNCHANGED <<bucket_data, checkpoint, log>>
  PROVE  ReadInv'
<1>1. IsState(bucket_state) /\ last_op \in Nat
  BY SchedFields DEF IsScheduled
<1>2. CompactedOK(bucket_state, last_op) /\ CompactedOK([bucket_state EXCEPT !.compact_lease = None], last_op)
  BY <1>1, HasState, StillCompacted
<1>3. bucket_state' = (IF Holds(c) THEN [bucket_state EXCEPT !.compact_lease = None] ELSE bucket_state) /\ Become(c, Idle)
  BY DEF Throw, Released
<1>4. CompactedOK(bucket_state', last_op)
  BY <1>2, <1>3
<1>5. WorkOK(Idle, bucket_data, log, last_op)
  BY <1>1, IdleIsFine
<1> QED BY <1>3, <1>4, <1>5, WorkStep

LEMMA FinishStep ==
  ASSUME SchedInv, ReadInv, NEW c \in Compactors, compactors[c].step # "idle", NEW state, Finish(c, state),
         IsState(state), CompactedOK(state, last_op), UNCHANGED <<bucket_data, checkpoint, log>>
  PROVE  ReadInv'
<1>1. last_op \in Nat
  BY SchedFields
<1>2. CompactedOK(bucket_state, last_op) /\ CompactedOK([state EXCEPT !.compact_lease = None], last_op)
  BY HasState, StillCompacted
<1>3. bucket_state' = (IF Holds(c) THEN [state EXCEPT !.compact_lease = None] ELSE bucket_state) /\ Become(c, Idle)
  BY DEF Finish
<1>4. CompactedOK(bucket_state', last_op)
  BY <1>2, <1>3
<1>5. WorkOK(Idle, bucket_data, log, last_op)
  BY <1>1, IdleIsFine
<1> QED BY <1>3, <1>4, <1>5, WorkStep

LEMMA StopStep ==
  ASSUME SchedInv, ReadInv, NEW c \in Compactors, compactors[c].step # "idle", Become(c, Idle),
         UNCHANGED <<bucket_data, bucket_state, checkpoint, log>>
  PROVE  ReadInv'
<1>1. WorkOK(Idle, bucket_data, log, last_op)
  BY SchedFields, IdleIsFine
<1>2. CompactedOK(bucket_state', last_op)
  BY HasState
<1> QED BY <1>1, <1>2, WorkStep

\* A step of the lease only
LEMMA LeaseStep ==
  ASSUME SchedInv, ReadInv, IsState(bucket_state), CompactedOK(bucket_state, last_op), NEW e, bucket_state' = [bucket_state EXCEPT !.compact_lease.expired = e],
         UNCHANGED <<bucket_data, checkpoint, log, compactors>>
  PROVE  ReadInv'
<1>1. last_op' = last_op
  BY DEF last_op
<1>2. CompactedOK([bucket_state EXCEPT !.compact_lease.expired = e], last_op)
  BY StillCompacted
<1> QED BY <1>1, <1>2 DEF ReadInv

LEMMA ExpireReads ==
  ASSUME SchedInv, ReadInv, Expire
  PROVE  ReadInv'
<1>1. IsState(bucket_state) /\ CompactedOK(bucket_state, last_op)
  BY DEF Expire, SchedInv, IsScheduled, ReadInv
<1> QED BY <1>1, LeaseStep DEF Expire

LEMMA RenewReads ==
  ASSUME SchedInv, ReadInv, NEW c \in Compactors, Renew(c)
  PROVE  ReadInv'
<1>1. IsState(bucket_state) /\ CompactedOK(bucket_state, last_op)
  BY HasState, SchedFields DEF Renew, Step, IsScheduled
<1> QED BY <1>1, LeaseStep DEF Renew, storageUnchanged

LEMMA FailReads ==
  ASSUME SchedInv, ReadInv, NEW c \in Compactors, Fail(c) \/ Crash(c)
  PROVE  ReadInv'
<1>1. compactors[c].step # "idle" /\ UNCHANGED <<bucket_data, checkpoint, log>>
  BY DEF Fail, Crash, Step
<1>2. Throw(c) \/ (Become(c, Idle) /\ UNCHANGED bucket_state)
  BY DEF Fail, Crash
<1> QED BY <1>1, <1>2, StopStep, ThrowStep

LEMMA RescheduleClaimedReads ==
  ASSUME SchedInv, ReadInv, NEW c \in Compactors, RescheduleClaimed(c)
  PROVE  ReadInv'
<1> DEFINE t == [bucket_state EXCEPT !.next_compact_check = TRUE]
<1>1. compactors[c].step # "idle" /\ UNCHANGED <<bucket_data, checkpoint, log>> /\ Finish(c, t)
  BY DEF RescheduleClaimed, Step, storageUnchanged
<1>2. IsState(bucket_state) /\ CompactedOK(bucket_state, last_op)
  BY <1>1, SchedFields, HasState DEF IsScheduled
<1>3. IsState(t)
  BY <1>2 DEF IsState
<1>4. CompactedOK(t, last_op)
  BY <1>2, StillCompacted
<1> HIDE DEF t
<1> QED BY <1>1, <1>3, <1>4, FinishStep

LEMMA RescheduleUnclaimedReads ==
  ASSUME SchedInv, ReadInv, NEW c \in Compactors, RescheduleUnclaimed(c)
  PROVE  ReadInv'
<1>1. compactors[c].step # "idle" /\ Become(c, Idle) /\ UNCHANGED <<bucket_data, checkpoint, log>>
  BY DEF RescheduleUnclaimed, Step, storageUnchanged
<1>2. IsState(bucket_state) /\ CompactedOK(bucket_state, last_op) /\ last_op \in Nat
  BY <1>1, SchedFields, HasState DEF IsScheduled
<1>3. bucket_state' = [bucket_state EXCEPT !.next_compact_check = TRUE] \/ bucket_state' = bucket_state
  BY DEF RescheduleUnclaimed
<1>4. CompactedOK(bucket_state', last_op)
  BY <1>2, <1>3, StillCompacted
<1>5. WorkOK(Idle, bucket_data, log, last_op)
  BY <1>2, IdleIsFine
<1> QED BY <1>1, <1>4, <1>5, WorkStep

-----------------------------------------------------------------------------
(* Replication *)
LEMMA CommitReads ==
  ASSUME SchedInv, ReadInv, Commit
  PROVE  ReadInv'
<1>1. last_op' = last_op /\ last_op \in Nat
  BY DEF Commit, last_op, ReadInv, IsLog
<1> QED BY <1>1 DEF Commit, ReadInv

LEMMA FlushReads ==
  ASSUME SchedInv, ReadInv, Flush
  PROVE  ReadInv'
<1>0. LogTypeOK /\ last_op \in Nat /\ IsLog(log, last_op) /\ IsStore(bucket_data, log, last_op)
  BY DEF SchedInv, ReadInv, IsLog
<1>1. last_op + 1 \in Nat \ {0}
  BY <1>0
<1>2. PICK row \in Rows :
        (\E data \in Values : AppendOp(Put(last_op + 1, row, data))) \/ AppendOp(Remove(last_op + 1, row))
  BY DEF Flush
<1>3. \A data \in Values : Put(last_op + 1, row, data) \in PutOp
  BY <1>1, HashAssumption DEF Put, PutOp
<1>4. Remove(last_op + 1, row) \in RemoveOp
  BY <1>1, HashAssumption DEF Remove, RemoveOp
<1>5. \A data \in Values : Put(last_op + 1, row, data).op_id = last_op + 1
  BY DEF Put
<1>6. Remove(last_op + 1, row).op_id = last_op + 1
  BY DEF Remove
<1>7. PICK op \in PutOp \cup RemoveOp : op.op_id = last_op + 1 /\ AppendOp(op)
  BY <1>2, <1>3, <1>4, <1>5, <1>6
<1>8. op \notin log
  BY <1>0, <1>7 DEF LogTypeOK
<1>9. last_op' = last_op + 1 /\ log' = log \cup {op} /\ bucket_data' = bucket_data \cup {Document({op}, Null)}
      /\ UNCHANGED <<compactors, checkpoint>>
  BY <1>0, <1>7, <1>8, FS_AddElement DEF LogTypeOK, last_op, AppendOp, Flush
<1>10. IsLog(log', last_op') /\ IsStore(bucket_data', log', last_op')
  BY <1>0, <1>7, <1>9, AppendStore
<1>11. checkpoint' \in Nat /\ checkpoint' <= last_op'
  BY <1>0, <1>9 DEF ReadInv
<1>12. ASSUME NEW c \in Compactors PROVE WorkOK(compactors'[c], bucket_data', log', last_op')
  <2>1. HasFields(compactors[c]) /\ WorkOK(compactors[c], bucket_data, log, last_op)
    BY SchedFields, ReadFields
  <2> QED BY <1>0, <1>7, <1>9, <2>1, WorkGrows
<1>13. CompactedOK(bucket_state', last_op')
  <2>1. CASE bucket_state = None
    <3>1. bucket_state'.compacted_state = None
      BY <1>7, <2>1 DEF AppendOp
    <3> QED BY <3>1 DEF CompactedOK
  <2>2. CASE bucket_state # None
    <3>1. IsState(bucket_state) /\ CompactedOK(bucket_state, last_op)
      BY <2>2 DEF SchedInv, IsScheduled, ReadInv
    <3>2. bucket_state' = [bucket_state EXCEPT !.last_op = op.op_id, !.count = @ + 1, !.chunks = @ + 1,
                                 !.first_uncompacted_write = TRUE, !.next_compact_check = TRUE]
      BY <1>7, <2>2 DEF AppendOp
    <3>3. bucket_state'.compacted_state = bucket_state.compacted_state
      BY <3>1, <3>2 DEF IsState
    <3> QED BY <1>0, <1>9, <3>1, <3>3 DEF CompactedOK
  <2> QED BY <2>1, <2>2
<1> QED BY <1>10, <1>11, <1>12, <1>13 DEF ReadInv

-----------------------------------------------------------------------------
(* Claims *)
LEMMA InspectReads ==
  ASSUME SchedInv, ReadInv, NEW c \in Compactors, Inspect(c)
  PROVE  ReadInv'
<1> DEFINE w == [Idle EXCEPT !.step = "inspected", !.cap = checkpoint, !.state = bucket_state]
<1>1. Become(c, w) /\ UNCHANGED <<bucket_data, bucket_state, checkpoint, log>>
  BY DEF Inspect, storageUnchanged
<1>2. w.step = "inspected" /\ w.compactedOp = 0 /\ w.cap = checkpoint
      /\ w.batch = {} /\ w.pending = {} /\ w.ops = {} /\ w.seen = << >> /\ w.lastNotPut = Null /\ w.target_op = Null
      /\ w.more = TRUE
  BY DEF Idle
<1>3. last_op \in Nat /\ checkpoint \in Nat /\ checkpoint <= last_op
      /\ CompactedOK(bucket_state', last_op)
  BY <1>1 DEF ReadInv, IsLog, Inspect
<1> HIDE DEF w
<1>4. WorkOK(w, bucket_data, log, last_op)
  BY <1>2, <1>3 DEF WorkOK, IsFresh
<1> QED BY <1>1, <1>3, <1>4, WorkStep

LEMMA StartIsFine ==
  ASSUME NEW D, NEW L, NEW n \in Nat, IsStore(D, L, n), NEW w, HasFields(w), w.step = "inspected", WorkOK(w, D, L, n),
         NEW state, IsState(state), state.last_op = n, CompactedOK(state, n), NEW kind \in {"none", "full", "chunks"}
  PROVE  WorkOK(Start(w, state, kind), D, L, n)
<1> DEFINE target == Target(w, state)
           previous == IF kind = "chunks" THEN Previous(state) ELSE None
           v == Start(w, state, kind)
           bound == IF kind = "full" THEN target + 1 ELSE IF previous = None THEN 0 ELSE previous.op_id - 1
<1>1. IsFresh(w, n)
  BY DEF WorkOK
<1>2. target \in Nat /\ target <= n
  BY <1>1 DEF Target, IsFresh
<1>3. kind # "full" => bound \in Nat /\ bound <= n
  <2>1. previous # None => previous = state.compacted_state /\ state.compacted_state # None /\ state.compacted_state.op_id # 0
    BY DEF Previous
  <2>2. previous # None => previous.op_id \in 1..n
    BY <2>1 DEF CompactedOK
  <2> HIDE DEF previous
  <2> QED BY <2>2
<1>4. kind = "full" => bound \in Nat /\ bound <= n + 1
  BY <1>2
<1>5. /\ v.step \in {"reschedule", "read"} /\ (v.step = "read" => kind # "none")
      /\ v.kind = kind /\ v.target = target /\ v.bound = bound /\ v.batch = w.batch /\ v.pending = w.pending /\ v.ops = w.ops /\ v.seen = w.seen
      /\ v.lastNotPut = w.lastNotPut /\ v.target_op = w.target_op /\ v.more = w.more /\ v.compactedOp = w.compactedOp
  BY DEF Start, HasFields
<1> HIDE DEF v, target, previous, bound
<1>6. /\ v.batch = {} /\ v.pending = {} /\ v.ops = {} /\ v.seen = << >> /\ v.lastNotPut = Null /\ v.target_op = Null
      /\ v.more = TRUE /\ v.compactedOp = 0
  BY <1>1, <1>5 DEF IsFresh
<1>7. ASSUME v.step = "read" PROVE ReadOK(v, v.lastNotPut, D, L, n)
  <2>1. v.bound \in Nat
    BY <1>3, <1>4, <1>5
  <2>2. Unread(v, D) = {d \in D : IsBeyond(v, d)}
    BY <1>6 DEF Unread
  <2>3. IsPass(v.kind, Unread(v, D), v.pending, D)
    <3>1. ASSUME NEW d \in Unread(v, D), NEW e \in D \ Unread(v, D) PROVE Ahead(v.kind, d, e)
      <4>1. d \in D /\ e \in D /\ IsBeyond(v, d) /\ ~IsBeyond(v, e)
        BY <2>2, <3>1
      <4>2. (DocId(d) < DocId(e) <=> IsBefore(d, e)) /\ DocId(d) \in Nat /\ (DocId(e) < DocId(d) <=> IsBefore(e, d)) /\ DocId(e) \in Nat
        BY <4>1, InOrderIds DEF IsStore
      <4> QED BY <2>1, <4>1, <4>2 DEF Ahead, IsBeyond
    <3> QED BY <1>6, <2>2, <3>1 DEF IsPass
  <2>4. ASSUME v.kind = "full" PROVE FullOK(v, v.lastNotPut, D, L, n)
    <3>1. OpsOf({}) = {}
      BY DEF OpsOf
    <3>2. IsRewrite({}, {}, Null, L)
      BY FS_EmptySet DEF IsRewrite, HasOwnIds
    <3>3. IsKnown(<< >>, OpsOf(Unread(v, D)), L)
      BY DEF IsKnown
    <3> QED BY <1>4, <1>5, <1>6, <1>7, <2>4, <3>1, <3>2, <3>3 DEF FullOK, NotPutOK
  <2>5. ASSUME v.kind # "full" PROVE ChunksOK(v, n)
    BY <1>2, <1>3, <1>5, <1>6, <1>7, <2>5 DEF ChunksOK
  <2> QED BY <1>6, <2>1, <2>3, <2>4, <2>5 DEF ReadOK, IsTarget
<1>8. WorkOK(v, D, L, n)
  BY <1>5, <1>6, <1>7 DEF WorkOK
<1> QED BY <1>8 DEF v

LEMMA ClaimReads ==
  ASSUME SchedInv, ReadInv, NEW c \in Compactors, NEW kind \in {"none", "full", "chunks"}, Claim(c, kind)
  PROVE  ReadInv'
<1>1. compactors[c].step = "inspected" /\ UNCHANGED <<bucket_data, checkpoint, log>>
  BY DEF Claim, Step, storageUnchanged
<1>2. IsScheduled(bucket_state, last_op) /\ IsState(bucket_state) /\ HasFields(compactors[c])
      /\ CompactedOK(bucket_state, last_op)
  BY <1>1, SchedFields, HasState DEF IsScheduled
<1>3. CASE bucket_state.next_compact_check /\ IsAvailable
  <2> DEFINE state == [bucket_state EXCEPT !.compact_lease = [id |-> c, expired |-> FALSE]]
             w == Start(compactors[c], state, kind)
  <2>1. bucket_state' = state /\ Become(c, w)
    BY <1>3 DEF Claim
  <2>2. IsState(state) /\ state.last_op = last_op
    BY <1>2 DEF IsState, Lease, IsScheduled
  <2>3. CompactedOK(state, last_op)
    BY <1>2, StillCompacted
  <2> HIDE DEF state
  <2>4. WorkOK(w, bucket_data, log, last_op)
    BY <1>1, <1>2, <2>2, <2>3, ReadFields, StartIsFine
  <2> HIDE DEF w
  <2> QED BY <1>1, <2>1, <2>3, <2>4, WorkStep
<1>4. CASE ~(bucket_state.next_compact_check /\ IsAvailable)
  <2>1. Become(c, Idle) /\ UNCHANGED bucket_state
    BY <1>4 DEF Claim
  <2> QED BY <1>1, <2>1, StopStep
<1> QED BY <1>3, <1>4

-----------------------------------------------------------------------------
(***************************************************************************)
(* Documents are read.                                                     *)
(***************************************************************************)

\* The next documents of a full compaction
LEMMA BatchIsRead ==
  ASSUME NEW D, NEW L, NEW n, IsLog(L, n), IsStore(D, L, n), NEW w, HasFields(w), WorkOK(w, D, L, n),
         w.step = "read", w.kind = "full", w.batch = {},
         NEW docs, docs = Highest({d \in D : DocId(d) < w.bound}, QueryLimit),
         NEW v, v.step = w.step, v.kind = w.kind, v.seen = w.seen, v.lastNotPut = w.lastNotPut, v.target_op = w.target_op,
         v.pending = w.pending, v.ops = w.ops, v.changed = w.changed, v.clearAt = w.clearAt,
         v.batch = docs, v.more = (Cardinality(docs) = QueryLimit), v.bound = Min(Ids(docs) \cup {w.bound}),
         v.compactedOp = IF w.compactedOp = 0 THEN Max(Ids(docs) \cup {0}) ELSE w.compactedOp
  PROVE  WorkOK(v, D, L, n) /\ Unread(v, D) = Unread(w, D) /\ Done(v, D) = Done(w, D) /\ v.bound \in Nat /\ v.bound <= w.bound
<1> DEFINE A == {d \in D : DocId(d) < w.bound}
<1>0. n \in Nat /\ DocsOK(D) /\ InOrder(D)
  BY DEF IsLog, IsStore
<1>1. ReadOK(w, w.lastNotPut, D, L, n) /\ FullOK(w, w.lastNotPut, D, L, n) /\ w.bound \in Nat
  BY DEF WorkOK, ReadOK
<1>2. DocsOK(A) /\ InOrder(A)
  BY <1>0, DocsPart DEF InOrder
<1>3. docs \subseteq A /\ \A d \in docs, e \in A \ docs : IsBefore(e, d)
  BY <1>2, LimitedIs, MongoLimits
<1>4. Cardinality(docs) # QueryLimit => docs = A
  BY <1>2, HighestAll, MongoLimits
<1>5. DocsOK(docs)
  BY <1>2, <1>3, DocsPart
<1>6. /\ v.bound \in Nat /\ v.bound <= w.bound /\ v.bound \in Ids(docs) \cup {w.bound}
      /\ \A id \in Ids(docs) : v.bound <= id
  BY <1>1, <1>5, MinId
<1>7. \A d \in docs : DocId(d) \in Ids(docs) /\ v.bound <= DocId(d) /\ DocId(d) \in Nat
  BY <1>2, <1>3, <1>6, IdOfDoc, StoreIds, <1>0
<1>8. \A d \in A \ docs : DocId(d) < v.bound
  <2> SUFFICES ASSUME NEW d \in A \ docs PROVE DocId(d) < v.bound
    OBVIOUS
  <2>1. CASE v.bound = w.bound
    BY <2>1
  <2>2. CASE v.bound \in Ids(docs)
    <3>1. PICK e \in docs : DocId(e) = v.bound
      BY <2>2, IdOfDoc
    <3>2. IsBefore(d, e) /\ d \in D /\ e \in D
      BY <1>3, <3>1
    <3> QED BY <3>1, <3>2, StoreOrder
  <2> QED BY <1>6, <2>1, <2>2
<1>9. \A d \in D : IsBeyond(v, d) <=> d \in A \ docs
  <2> SUFFICES ASSUME NEW d \in D PROVE DocId(d) < v.bound <=> d \in A \ docs
    BY DEF IsBeyond
  <2>1. DocId(d) \in Nat
    BY <1>0, StoreIds
  <2> QED BY <1>1, <1>6, <1>7, <1>8, <2>1
<1>10. Unread(w, D) = A
  BY DEF Unread, IsBeyond
<1>11. Unread(v, D) = A
  <2> HIDE DEF A
  <2> QED BY <1>3, <1>9, <1>10 DEF Unread
<1> HIDE DEF A
<1>12. Done(v, D) = Done(w, D)
  BY <1>10, <1>11 DEF Done
<1>13. FullOK(v, v.lastNotPut, D, L, n)
  <2>1. v.more = TRUE \/ \A d \in D : ~IsBeyond(v, d)
    BY <1>4, <1>9
  <2>2. v.bound <= n + 1
    BY <1>0, <1>1, <1>6 DEF FullOK
  <2>3. NotPutOK(v, v.lastNotPut, D)
    BY <1>1, <1>12 DEF FullOK, NotPutOK
  <2> QED BY <1>1, <1>10, <1>11, <2>1, <2>2, <2>3 DEF FullOK
<1>14. ReadOK(v, v.lastNotPut, D, L, n)
  <2>1. v.batch \subseteq D /\ \A d \in v.batch : ~IsBeyond(v, d)
    BY <1>3, <1>9 DEF A
  <2> QED BY <1>1, <1>6, <1>10, <1>11, <1>13, <2>1 DEF ReadOK
<1>15. v.compactedOp <= n
  <2>1. CASE w.compactedOp = 0
    <3>1. v.compactedOp \in Ids(docs) \cup {0}
      BY <1>5, <2>1, MaxId
    <3>2. \A d \in docs : DocId(d) <= n
      BY <1>0, <1>3, StoreIds DEF A
    <3> QED BY <1>0, <3>1, <3>2, IdOfDoc
  <2>2. CASE w.compactedOp # 0
    BY <2>2 DEF WorkOK
  <2> QED BY <2>1, <2>2
<1> QED BY <1>6, <1>10, <1>11, <1>12, <1>14, <1>15 DEF WorkOK

LEMMA ReadBatchReads ==
  ASSUME SchedInv, ReadInv, NEW c \in Compactors, ReadBatch(c)
  PROVE  ReadInv'
<1> DEFINE w == compactors[c]
           docs == Highest({d \in bucket_data : DocId(d) < w.bound}, QueryLimit)
           more == Cardinality(docs) = QueryLimit
           bound == Min(Ids(docs) \cup {w.bound})
           compactedOp == IF w.compactedOp = 0 THEN Max(Ids(docs) \cup {0}) ELSE w.compactedOp
           v == [w EXCEPT !.batch = docs, !.more = more, !.bound = bound, !.compactedOp = compactedOp]
<1>1. w.step = "read" /\ w.kind = "full" /\ w.batch = {} /\ Become(c, v) /\ UNCHANGED <<bucket_data, bucket_state, checkpoint, log>>
  BY DEF ReadBatch, Step, storageUnchanged
<1>2. HasFields(w)
  BY SchedFields
<1>3. /\ v.step = w.step /\ v.kind = w.kind /\ v.seen = w.seen /\ v.lastNotPut = w.lastNotPut /\ v.target_op = w.target_op
      /\ v.pending = w.pending /\ v.ops = w.ops /\ v.changed = w.changed /\ v.clearAt = w.clearAt
      /\ v.batch = docs /\ v.more = more /\ v.bound = bound /\ v.compactedOp = compactedOp
  <2> HIDE DEF docs, more, bound, compactedOp
  <2> QED BY <1>2 DEF HasFields
<1>4. IsLog(log, last_op) /\ IsStore(bucket_data, log, last_op) /\ WorkOK(w, bucket_data, log, last_op)
  BY ReadFields
<1>5. w.step # "idle"
  BY <1>1
<1>6. CompactedOK(bucket_state', last_op)
  BY <1>1, <1>5, HasState
<1> HIDE DEF v
<1>7. WorkOK(v, bucket_data, log, last_op)
  <2> HIDE DEF w
  <2> QED BY <1>1, <1>2, <1>3, <1>4, BatchIsRead
<1> HIDE DEF w
<1> QED BY <1>1, <1>6, <1>7, WorkStep DEF w

\* The next documents of a chunk compaction
\* What is read was unread.
StaysUnread(v, w, D) == Unread(v, D) = Unread(w, D)

LEMMA ChunksAreRead ==
  ASSUME NEW D, NEW L, NEW n, IsLog(L, n), IsStore(D, L, n), NEW w, HasFields(w), WorkOK(w, D, L, n),
         w.step = "read", w.kind = "chunks", w.batch = {},
         NEW docs, docs = Lowest({d \in D : w.bound < DocId(d) /\ DocId(d) <= w.target}, QueryLimit),
         NEW v, v.step = w.step, v.kind = w.kind, v.target = w.target, v.target_op = w.target_op,
         v.pending = w.pending, v.verify = FALSE, v.batch = docs, v.bound = Max(Ids(docs) \cup {w.bound}), v.compactedOp = Max(Ids(docs) \cup {w.compactedOp})
  PROVE  WorkOK(v, D, L, n) /\ StaysUnread(v, w, D)
<1> DEFINE A == {d \in D : w.bound < DocId(d)}
           B == {d \in D : w.bound < DocId(d) /\ DocId(d) <= w.target}
<1>0. n \in Nat /\ DocsOK(D) /\ InOrder(D) /\ w.compactedOp \in Nat
  BY DEF IsLog, IsStore, HasFields
<1>1. ReadOK(w, w.lastNotPut, D, L, n) /\ ChunksOK(w, n) /\ w.bound \in Nat /\ w.bound <= n /\ w.compactedOp <= n
  BY DEF WorkOK, ReadOK, ChunksOK
<1>2. DocsOK(B) /\ InOrder(B)
  BY <1>0, DocsPart DEF InOrder
<1>3. docs \subseteq B /\ \A d \in docs, e \in B \ docs : IsBefore(d, e)
  BY <1>2, LimitedIs, MongoLimits
<1>4. docs \subseteq A
  BY <1>3
<1>5. DocsOK(docs)
  BY <1>2, <1>3, DocsPart
<1>6. /\ v.bound \in Nat /\ w.bound <= v.bound /\ v.bound \in Ids(docs) \cup {w.bound}
      /\ \A id \in Ids(docs) : id <= v.bound
  BY <1>1, <1>5, MaxId
<1>7. \A d \in D : DocId(d) \in Nat /\ DocId(d) <= n
  BY <1>0, StoreIds
<1>8. \A d \in docs : DocId(d) <= v.bound
  BY <1>6, IdOfDoc
<1>9. \A d \in A \ docs : v.bound < DocId(d)
  <2> SUFFICES ASSUME NEW d \in A \ docs PROVE v.bound < DocId(d)
    OBVIOUS
  <2>1. CASE v.bound = w.bound
    BY <2>1
  <2>2. CASE v.bound \in Ids(docs)
    <3>1. PICK e \in docs : DocId(e) = v.bound
      BY <2>2, IdOfDoc
    <3>2. d \in D /\ e \in D /\ e \in B
      BY <1>3, <3>1
    <3>3. CASE d \in B
      <4>1. IsBefore(e, d)
        BY <1>3, <3>3
      <4> QED BY <3>1, <3>2, <4>1, StoreOrder
    <3>4. CASE d \notin B
      <4>1. ~(DocId(d) <= w.target) /\ DocId(e) <= w.target
        BY <3>2, <3>4
      <4>2. IsBefore(d, e) => FALSE
        <5> SUFFICES ASSUME IsBefore(d, e) PROVE FALSE
          OBVIOUS
        <5>1. DocId(d) < DocId(e)
          BY <3>2, StoreOrder
        <5> QED BY <1>1, <1>7, <3>2, <4>1, <5>1 DEF ChunksOK
      <4>3. d # e
        BY <4>1
      <4> QED BY <3>1, <3>2, <4>2, <4>3, StoreOrder
    <3> QED BY <3>3, <3>4
  <2> QED BY <1>6, <2>1, <2>2
<1>10. \A d \in D : IsBeyond(v, d) <=> d \in A \ docs
  <2> SUFFICES ASSUME NEW d \in D PROVE v.bound < DocId(d) <=> d \in A \ docs
    BY DEF IsBeyond
  <2> QED BY <1>1, <1>6, <1>7, <1>8, <1>9
<1>11. Unread(w, D) = A
  BY DEF Unread, IsBeyond
<1>12. Unread(v, D) = A
  <2> HIDE DEF A
  <2> QED BY <1>4, <1>10, <1>11 DEF Unread
<1>13. docs \subseteq D
  BY <1>4
<1> HIDE DEF A, B
<1>14. v.bound <= n /\ v.compactedOp <= n
  <2>1. v.compactedOp \in Ids(docs) \cup {w.compactedOp}
    BY <1>0, <1>5, MaxId
  <2>2. \A id \in Ids(docs) : id <= n
    BY <1>7, <1>13, IdOfDoc
  <2> QED BY <1>1, <1>6, <2>1, <2>2
<1>15. ChunksOK(v, n)
  BY <1>1, <1>14 DEF ChunksOK
<1>16. v.batch \subseteq D /\ \A d \in v.batch : ~IsBeyond(v, d)
  BY <1>10, <1>13
<1>17. ReadOK(v, v.lastNotPut, D, L, n)
  BY <1>1, <1>6, <1>11, <1>12, <1>15, <1>16 DEF ReadOK
<1>18. StaysUnread(v, w, D)
  BY <1>11, <1>12 DEF StaysUnread
<1> QED BY <1>14, <1>17, <1>18 DEF WorkOK

-----------------------------------------------------------------------------
(***************************************************************************)
(* Documents join the group, and the group is done.                        *)
(***************************************************************************)
LEMMA TargetOfTwo ==
  ASSUME NEW L, NEW m \in Nat, IsTarget(m, L), NEW n \in Nat, IsTarget(n, L)
  PROVE  Max({m, n}) \in Nat /\ IsTarget(Max({m, n}), L) /\ m <= Max({m, n}) /\ n <= Max({m, n})
<1>1. Max({m, n}) \in {m, n} /\ Max({m, n}) >= m /\ Max({m, n}) >= n
  BY MaxOfTwoIs
<1> QED BY <1>1

LEMMA TakesOne ==
  ASSUME NEW D, NEW L, NEW n, IsLog(L, n), IsStore(D, L, n), NEW w, HasFields(w), NEW lastNotPut, ReadOK(w, lastNotPut, D, L, n),
         NEW d \in w.batch, \A e \in w.batch : IF w.kind = "full" THEN DocId(e) <= DocId(d) ELSE DocId(d) <= DocId(e),
         NEW v, v.kind = w.kind, v.bound = w.bound, v.batch = w.batch \ {d}, v.pending = w.pending \cup {d}
  PROVE  /\ Unread(v, D) = Unread(w, D) \ {d} /\ Done(v, D) = Done(w, D)
         /\ IsPass(v.kind, Unread(v, D), v.pending, D)
         /\ v.batch \subseteq D /\ \A e \in v.batch : ~IsBeyond(v, e)
         /\ d \in D /\ d \in Unread(w, D) /\ d \notin w.pending
         /\ \A e \in Unread(w, D) : e = d \/ Ahead(w.kind, e, d)
<1>1. /\ IsPass(w.kind, Unread(w, D), w.pending, D)
      /\ w.batch \subseteq D /\ w.bound \in Nat /\ \A e \in w.batch : ~IsBeyond(w, e)
  BY DEF ReadOK
<1>2. \A e : IsBeyond(v, e) <=> IsBeyond(w, e)
  BY DEF IsBeyond
<1>3. d \in D /\ d \in Unread(w, D) /\ d \notin w.pending /\ ~IsBeyond(w, d)
  BY <1>1 DEF Unread, IsPass
<1>4. Unread(v, D) = Unread(w, D) \ {d}
  BY <1>1, <1>2, <1>3 DEF Unread
<1>5. ASSUME NEW e \in Unread(w, D), e # d PROVE Ahead(w.kind, e, d)
  <2>1. e \in D /\ (e \in w.batch \/ IsBeyond(w, e))
    BY DEF Unread
  <2>2. /\ DocId(e) \in Nat /\ DocId(d) \in Nat /\ DocId(e) # DocId(d)
        /\ (DocId(e) < DocId(d) => IsBefore(e, d)) /\ (DocId(d) < DocId(e) => IsBefore(d, e))
    BY <1>3, <1>5, <2>1, StoreOrder
  <2>3. CASE w.kind = "full"
    <3>1. DocId(e) < DocId(d)
      BY <1>1, <1>3, <2>1, <2>2, <2>3 DEF IsBeyond
    <3> QED BY <2>2, <2>3, <3>1 DEF Ahead
  <2>4. CASE w.kind # "full"
    <3>1. DocId(d) < DocId(e)
      BY <1>1, <1>3, <2>1, <2>2, <2>4 DEF IsBeyond
    <3> QED BY <2>2, <2>4, <3>1 DEF Ahead
  <2> QED BY <2>3, <2>4
<1>6. IsPass(v.kind, Unread(v, D), v.pending, D)
  BY <1>1, <1>3, <1>4, <1>5, PassTakes
<1>7. Done(v, D) = Done(w, D)
  BY <1>3, <1>4 DEF Done
<1> QED BY <1>1, <1>2, <1>3, <1>4, <1>5, <1>6, <1>7

\* What is stored when the group is done
AfterGroup(w, D) == IF IsKept(w) THEN D ELSE (D \ w.pending) \cup {Document(w.ops, w.target_op)}

LEMMA GroupDone ==
  ASSUME NEW D, NEW L, NEW n, IsLog(L, n), IsStore(D, L, n), NEW w, HasFields(w), NEW lastNotPut, ReadOK(w, lastNotPut, D, L, n),
         w.pending # {}, IsRewrite(w.ops, OpsOf(w.pending), w.target_op, L), IsKept(w) => w.ops = OpsOf(w.pending),
         NEW v, v.kind = w.kind, v.bound = w.bound, v.batch = w.batch, v.pending = {},
         NEW E, E = AfterGroup(w, D)
  PROVE  /\ IsStore(E, L, n)
         /\ Unread(v, E) = Unread(w, D)
         /\ IsPass(v.kind, Unread(v, E), v.pending, E)
         /\ v.batch \subseteq E /\ \A d \in v.batch : ~IsBeyond(v, d)
         /\ \A d \in E : IsBeyond(v, d) => d \in D
         /\ \E e \in E : e.ops = w.ops /\ Done(v, E) = Done(w, D) \cup {e}
<1>0. n \in Nat /\ w.target_op \in Nat
  BY DEF IsLog, HasFields
<1>1. /\ IsPass(w.kind, Unread(w, D), w.pending, D) /\ IsTarget(w.target_op, L) /\ \A d \in w.pending : d.target_op <= w.target_op
      /\ w.batch \subseteq D /\ w.bound \in Nat /\ \A d \in w.batch : ~IsBeyond(w, d)
  BY DEF ReadOK
<1>2. w.pending \subseteq D /\ Unread(w, D) \cap w.pending = {}
  BY <1>1 DEF IsPass
<1>3. PICK e : E = (D \ w.pending) \cup {e} /\ e.ops = w.ops /\ IsStore(E, L, n)
  <2>1. CASE IsKept(w)
    <3>1. PICK e : w.pending = {e}
      <4>1. IsFiniteSet(w.pending) /\ Cardinality(w.pending) = 1
        <5>1. IsFiniteSet(D)
          BY DEF IsStore, DocsOK
        <5> QED BY <1>2, <2>1, <5>1, FS_Subset DEF IsKept
      <4> QED BY <4>1, FS_Singleton
    <3>2. e.ops = w.ops
      BY <2>1, <3>1 DEF OpsOf
    <3>3. E = D /\ E = (D \ w.pending) \cup {e}
      BY <1>2, <2>1, <3>1 DEF AfterGroup
    <3> QED BY <3>2, <3>3
  <2>2. CASE ~IsKept(w)
    <3> DEFINE e == Document(w.ops, w.target_op)
    <3>1. E = (D \ w.pending) \cup {e}
      BY <2>2 DEF AfterGroup
    <3>2. IsGapless(w.pending, D)
      BY <1>1, PassGapless
    <3>3. IsStore((D \ w.pending) \cup {Document(w.ops, w.target_op)}, L, n)
      BY <1>0, <1>1, <1>2, <3>2, ReplaceStore
    <3>4. e.ops = w.ops
      BY DEF Document
    <3> QED BY <3>1, <3>3, <3>4
  <2> QED BY <2>1, <2>2
<1>4. e \in E /\ e \in Doc
  BY <1>3, StoreDoc
<1>5. \A m \in w.ops : \E f \in w.pending : \E o \in f.ops : m.op_id = o.op_id
  <2> SUFFICES ASSUME NEW m \in w.ops PROVE \E f \in w.pending : \E o \in f.ops : m.op_id = o.op_id
    OBVIOUS
  <2>1. PICK o \in OpsOf(w.pending) : m.op_id = o.op_id
    BY DEF IsRewrite
  <2> QED BY <2>1, OpsOfHas
<1>6. e \in D => e \in w.pending
  <2> SUFFICES ASSUME e \in D PROVE e \in w.pending
    OBVIOUS
  <2>1. PICK m \in e.ops : TRUE
    BY <1>3, <1>4, StoreDoc
  <2>2. PICK f \in w.pending : \E o \in f.ops : m.op_id = o.op_id
    BY <1>3, <1>5
  <2>3. PICK o \in f.ops : m.op_id = o.op_id
    BY <2>2
  <2>4. e = f
    BY <1>2, <2>3, SameDoc
  <2> QED BY <2>4
<1>7. ~IsBeyond(v, e)
  <2>1. \A f \in w.pending : ~IsBeyond(w, f) /\ f \in Doc /\ DocId(f) \in Nat /\ f \in D
    BY <1>2, StoreDoc, DocEnds DEF Unread
  <2>2. DocId(e) \in Nat
    BY <1>4, DocEnds
  <2>3. CASE w.kind = "full"
    <3>1. PICK f \in w.pending : TRUE
      OBVIOUS
    <3>2. PICK o \in f.ops : o.op_id = DocId(f)
      BY <2>1, DocEnds DEF HasId
    <3>3. HasId(e.ops, DocId(f))
      BY <1>3, <3>1, <3>2, OpsOfHas DEF IsRewrite
    <3>4. DocId(f) <= DocId(e)
      BY <1>4, <3>3, DocEnds DEF HasId
    <3> QED BY <1>1, <2>1, <2>2, <2>3, <3>4 DEF IsBeyond
  <2>4. CASE w.kind # "full"
    <3>1. PICK m \in e.ops : m.op_id = DocId(e)
      BY <1>4, DocEnds DEF HasId
    <3>2. PICK f \in w.pending : \E o \in f.ops : m.op_id = o.op_id
      BY <1>3, <1>5, <3>1
    <3>3. DocId(e) <= DocId(f)
      BY <2>1, <3>1, <3>2, DocEnds
    <3> QED BY <1>1, <2>1, <2>2, <2>4, <3>3 DEF IsBeyond
  <2> QED BY <2>3, <2>4
<1>8. \A d : IsBeyond(v, d) <=> IsBeyond(w, d)
  BY DEF IsBeyond
<1>9. e \notin Unread(w, D)
  BY <1>2, <1>6 DEF Unread
<1>10. Unread(v, E) = Unread(w, D)
  <2>1. ASSUME NEW d \in Unread(v, E) PROVE d \in Unread(w, D)
    <3>1. d \in E /\ (d \in w.batch \/ IsBeyond(w, d))
      BY <1>8 DEF Unread
    <3>2. d \in D
      BY <1>1, <1>3, <1>7, <1>8, <3>1
    <3> QED BY <3>1, <3>2 DEF Unread
  <2>2. ASSUME NEW d \in Unread(w, D) PROVE d \in Unread(v, E)
    <3>1. d \in D \ w.pending /\ (d \in w.batch \/ IsBeyond(w, d))
      BY <1>2 DEF Unread
    <3> QED BY <1>3, <1>8, <3>1 DEF Unread
  <2> QED BY <2>1, <2>2
<1>11. IsPass(v.kind, Unread(v, E), v.pending, E)
  <2>1. \A m \in e.ops : HasId(OpsOf(w.pending), m.op_id)
    BY <1>3 DEF IsRewrite, HasId
  <2> QED BY <1>1, <1>3, <1>9, <1>10, <2>1, PassReplaces
<1>12. v.batch \subseteq E /\ \A d \in v.batch : ~IsBeyond(v, d)
  <2>1. w.batch \subseteq Unread(w, D)
    BY <1>1 DEF Unread
  <2> QED BY <1>1, <1>2, <1>3, <1>8, <2>1
<1>13. Done(v, E) = Done(w, D) \cup {e}
  BY <1>2, <1>3, <1>9, <1>10 DEF Done
<1>14. \A d \in E : IsBeyond(v, d) => d \in D
  BY <1>3, <1>7
<1> QED BY <1>3, <1>4, <1>10, <1>11, <1>12, <1>13, <1>14

\* A flush of the group: the documents are replaced, or the attempt fails.
LEMMA FlushGroupStep ==
  ASSUME SchedInv, ReadInv, OneWorker, NEW c \in Compactors, IsBusy(compactors[c]), NEW w, w = compactors[c],
         w.pending \subseteq bucket_data, NEW v, FlushGroup(c, v), UNCHANGED <<checkpoint, log>>,
         IsStore(AfterGroup(w, bucket_data), log, last_op), WorkOK(v, AfterGroup(w, bucket_data), log, last_op)
  PROVE  ReadInv'
<1>0. w.step # "idle" /\ CompactedOK(bucket_state, last_op)
  BY HasState DEF IsBusy
<1>1. Stored(w.pending) = w.pending
  BY StoredIs DEF ReadInv, IsStore
<1>2. CASE IsKept(w)
  <2>1. Become(c, v) /\ UNCHANGED <<bucket_data, bucket_state>> /\ AfterGroup(w, bucket_data) = bucket_data
    BY <1>2 DEF FlushGroup, AfterGroup
  <2> QED BY <1>0, <2>1, WorkStep
<1>3. CASE ~IsKept(w) /\ IsUnchanged(w.pending)
  <2>1. bucket_data' = AfterGroup(w, bucket_data) /\ Become(c, v) /\ UNCHANGED bucket_state
    BY <1>1, <1>3 DEF FlushGroup, AfterGroup
  <2> QED BY <2>1, StoreStep
<1>4. CASE ~IsKept(w) /\ ~IsUnchanged(w.pending)
  <2>1. Throw(c) /\ UNCHANGED bucket_data
    BY <1>4 DEF FlushGroup
  <2> QED BY <1>0, <2>1, ThrowStep
<1> QED BY <1>2, <1>3, <1>4

-----------------------------------------------------------------------------
(* Chunk compaction *)
LEMMA PassStarts ==
  ASSUME NEW D, NEW L, NEW n, IsStore(D, L, n), NEW w, w.batch = {}, w.pending = {}, w.bound \in Nat
  PROVE  IsPass(w.kind, Unread(w, D), w.pending, D)
<1>1. ASSUME NEW d \in Unread(w, D), NEW e \in D \ Unread(w, D) PROVE Ahead(w.kind, d, e)
  <2>1. d \in D /\ e \in D /\ IsBeyond(w, d) /\ ~IsBeyond(w, e)
    BY <1>1 DEF Unread
  <2>2. (DocId(d) < DocId(e) <=> IsBefore(d, e)) /\ DocId(d) \in Nat /\ (DocId(e) < DocId(d) <=> IsBefore(e, d)) /\ DocId(e) \in Nat
    BY <2>1, StoreOrder
  <2> QED BY <2>1, <2>2 DEF Ahead, IsBeyond
<1> QED BY <1>1 DEF IsPass, Unread

LEMMA NotVerifiedIsFine ==
  ASSUME NEW D, NEW L, NEW n, IsLog(L, n), IsStore(D, L, n), NEW w, WorkOK(w, D, L, n), w.step = "read", w.kind = "chunks",
         w.batch = {}, w.verify # FALSE,
         NEW v, v.step = w.step, v.kind = w.kind, v.target = w.target, v.target_op = w.target_op, v.pending = w.pending,
         v.verify = FALSE, v.batch = w.batch, v.bound = 0, v.compactedOp = w.compactedOp
  PROVE  WorkOK(v, D, L, n)
<1>1. ReadOK(w, w.lastNotPut, D, L, n) /\ ChunksOK(w, n) /\ n \in Nat
  BY DEF WorkOK, ReadOK, IsLog
<1>2. v.pending = {} /\ v.batch = {}
  BY <1>1 DEF ChunksOK
<1>3. IsPass(v.kind, Unread(v, D), v.pending, D)
  BY <1>2, PassStarts
<1>4. ChunksOK(v, n)
  BY <1>1 DEF ChunksOK
<1>5. ReadOK(v, v.lastNotPut, D, L, n)
  BY <1>1, <1>2, <1>3, <1>4 DEF ReadOK
<1> QED BY <1>5 DEF WorkOK

LEMMA ReadChunksReads ==
  ASSUME SchedInv, ReadInv, NEW c \in Compactors, ReadChunks(c)
  PROVE  ReadInv'
<1> DEFINE w == compactors[c]
           docs == Lowest({d \in bucket_data : w.bound < DocId(d) /\ DocId(d) <= w.target}, QueryLimit)
           more == Cardinality(docs) = QueryLimit
           bound == Max(Ids(docs) \cup {w.bound})
           compactedOp == Max(Ids(docs) \cup {w.compactedOp})
           u == NotVerified(w)
           v == WithChunks(w, docs, more, bound, compactedOp)
<1>1. /\ w.step = "read" /\ w.kind = "chunks" /\ w.batch = {}
      /\ UNCHANGED <<bucket_data, bucket_state, checkpoint, log>>
      /\ Become(c, IF IsBoundaryMissing(w, docs) THEN u ELSE v)
  BY DEF ReadChunks, Step, storageUnchanged, NotVerified, WithChunks
<1>2. HasFields(w)
  BY SchedFields
<1>3. /\ u.step = w.step /\ u.kind = w.kind /\ u.target = w.target /\ u.target_op = w.target_op /\ u.pending = w.pending
      /\ u.verify = FALSE /\ u.batch = w.batch /\ u.bound = 0 /\ u.compactedOp = w.compactedOp
  BY <1>2 DEF HasFields, NotVerified
<1>4. /\ v.step = w.step /\ v.kind = w.kind /\ v.target = w.target /\ v.target_op = w.target_op /\ v.pending = w.pending
      /\ v.verify = FALSE /\ v.batch = docs /\ v.bound = bound /\ v.compactedOp = compactedOp
  <2> HIDE DEF docs, more, bound, compactedOp
  <2> QED BY <1>2 DEF HasFields, WithChunks
<1>5. IsLog(log, last_op) /\ IsStore(bucket_data, log, last_op) /\ WorkOK(w, bucket_data, log, last_op)
  BY ReadFields
<1>6. w.step # "idle"
  BY <1>1
<1>7. CompactedOK(bucket_state', last_op)
  BY <1>1, <1>6, HasState
<1> HIDE DEF u, v
<1>8. WorkOK(v, bucket_data, log, last_op)
  <2> HIDE DEF w
  <2> QED BY <1>1, <1>2, <1>4, <1>5, ChunksAreRead
<1>9. IsBoundaryMissing(w, docs) => WorkOK(u, bucket_data, log, last_op)
  <2>1. IsBoundaryMissing(w, docs) => w.verify # FALSE
    BY DEF IsBoundaryMissing
  <2> HIDE DEF w, docs
  <2> QED BY <1>1, <1>3, <1>5, <2>1, NotVerifiedIsFine
<1> HIDE DEF w, docs
<1>10. CASE IsBoundaryMissing(w, docs)
  BY <1>1, <1>7, <1>9, <1>10, WorkStep
<1>11. CASE ~IsBoundaryMissing(w, docs)
  BY <1>1, <1>7, <1>8, <1>11, WorkStep
<1> QED BY <1>10, <1>11

LEMMA ChunkIsTaken ==
  ASSUME NEW D, NEW L, NEW n, IsLog(L, n), IsStore(D, L, n), NEW w, HasFields(w), WorkOK(w, D, L, n),
         w.step = "read", w.kind = "chunks", NEW d \in w.batch, \A e \in w.batch : DocId(d) <= DocId(e),
         NEW v, v.step = w.step, v.kind = w.kind, v.target = w.target, v.bound = w.bound, v.verify = w.verify,
         v.compactedOp = w.compactedOp, v.batch = w.batch \ {d}, v.pending = w.pending \cup {d},
         v.target_op = Max({w.target_op, d.target_op})
  PROVE  WorkOK(v, D, L, n)
<1>1. ReadOK(w, w.lastNotPut, D, L, n) /\ ChunksOK(w, n)
  BY DEF WorkOK, ReadOK
<1>2. /\ IsPass(v.kind, Unread(v, D), v.pending, D) /\ v.batch \subseteq D /\ (\A e \in v.batch : ~IsBeyond(v, e))
      /\ d \in D
  BY <1>1, TakesOne
<1>3. w.target_op \in Nat /\ IsTarget(w.target_op, L) /\ w.pending \subseteq D /\ \A e \in w.pending : e.target_op <= w.target_op
  BY <1>1 DEF HasFields, ReadOK, IsPass
<1>4. d.target_op \in Nat /\ IsTarget(d.target_op, L) /\ \A e \in D : e.target_op \in Nat
  BY <1>2, StoreDoc
<1>5. v.target_op \in Nat /\ IsTarget(v.target_op, L) /\ w.target_op <= v.target_op /\ d.target_op <= v.target_op
  BY <1>3, <1>4, TargetOfTwo
<1>6. \A e \in v.pending : e.target_op <= v.target_op
  BY <1>3, <1>4, <1>5
<1>7. ChunksOK(v, n)
  BY <1>1 DEF ChunksOK
<1>8. ReadOK(v, v.lastNotPut, D, L, n)
  BY <1>1, <1>2, <1>5, <1>6, <1>7 DEF ReadOK
<1> QED BY <1>8 DEF WorkOK

LEMMA AddChunkReads ==
  ASSUME SchedInv, ReadInv, NEW c \in Compactors, AddChunk(c)
  PROVE  ReadInv'
<1> DEFINE w == compactors[c]
           d == NextChunk(w)
           target == Max({w.target_op, d.target_op})
           overlap == IF w.previous # None /\ w.previous.op_id = DocId(d) THEN Stats({d}) ELSE w.overlap
           v == WithChunk(w, d, target, overlap)
<1>1. /\ w.step = "read" /\ w.kind = "chunks" /\ w.batch # {} /\ Become(c, v)
      /\ UNCHANGED <<bucket_data, bucket_state, checkpoint, log>>
  BY DEF AddChunk, Step, storageUnchanged, WithChunk
<1>2. HasFields(w) /\ IsFiniteSet(w.batch)
  BY SchedFields DEF IsWorker
<1>3. d \in w.batch /\ \A e \in w.batch : DocId(d) <= DocId(e)
  <2>1. DocsOK(w.batch)
    BY <1>2 DEF HasFields, DocsOK
  <2> QED BY <1>1, <2>1, EndDocs DEF NextChunk
<1>4. /\ v.step = w.step /\ v.kind = w.kind /\ v.target = w.target /\ v.bound = w.bound /\ v.verify = w.verify
      /\ v.compactedOp = w.compactedOp /\ v.batch = w.batch \ {d} /\ v.pending = w.pending \cup {d} /\ v.target_op = target
  <2> HIDE DEF d, target, overlap
  <2> QED BY <1>2 DEF HasFields, WithChunk
<1>5. IsLog(log, last_op) /\ IsStore(bucket_data, log, last_op) /\ WorkOK(w, bucket_data, log, last_op)
  BY ReadFields
<1>6. w.step # "idle"
  BY <1>1
<1>7. CompactedOK(bucket_state', last_op)
  BY <1>1, <1>6, HasState
<1> HIDE DEF v, d, w
<1>8. WorkOK(v, bucket_data, log, last_op)
  BY <1>1, <1>2, <1>3, <1>4, <1>5, ChunkIsTaken
<1> QED BY <1>1, <1>7, <1>8, WorkStep

\* The ids and operations of a group
LEMMA GroupOps ==
  ASSUME NEW D, NEW L, NEW n, IsStore(D, L, n), NEW docs, docs \subseteq D, NEW target
  PROVE  /\ OpsOf(docs) \subseteq Op /\ IsFiniteSet(OpsOf(docs)) /\ HasOwnIds(OpsOf(docs)) /\ \A o \in OpsOf(docs) : o.target_op = Null
         /\ IsRewrite(OpsOf(docs), OpsOf(docs), target, L)
<1>1. DocsOK(docs)
  BY DocsPart DEF IsStore
<1>2. OpsOf(docs) \subseteq Op /\ IsFiniteSet(OpsOf(docs))
  BY <1>1, OpsOfOK
<1>3. \A o \in OpsOf(docs) : \E d \in docs : o \in d.ops
  BY OpsOfHas
<1>4. \A o \in OpsOf(docs) : o.target_op = Null
  BY <1>3, StoreDoc
<1>5. HasOwnIds(OpsOf(docs))
  BY <1>3, SameDoc DEF HasOwnIds
<1> QED BY <1>2, <1>4, <1>5, RewriteItself

LEMMA ChunkIsDone ==
  ASSUME NEW D, NEW L, NEW n, IsLog(L, n), IsStore(D, L, n), NEW w, HasFields(w), WorkOK(w, D, L, n),
         w.step \in {"read", "merge"}, w.kind # "full", w.pending # {},
         NEW E, \/ E = D
                \/ w.step = "merge" /\ E = AfterGroup(w, D),
         NEW v, v.step = "read", v.kind = w.kind, v.target = w.target, v.bound = w.bound, v.verify = w.verify,
         v.compactedOp = w.compactedOp, v.batch = w.batch, v.pending = {}, v.target_op = Null
  PROVE  IsStore(E, L, n) /\ WorkOK(v, E, L, n)
<1>1. ReadOK(w, w.lastNotPut, D, L, n) /\ ChunksOK(w, n) /\ w.pending \subseteq D
  BY DEF WorkOK, ReadOK, IsPass
<1>2. \A d : IsBeyond(v, d) <=> IsBeyond(w, d)
  BY DEF IsBeyond
<1>3. IsStore(E, L, n) /\ IsPass(v.kind, Unread(v, E), v.pending, E) /\ v.batch \subseteq E /\ \A d \in v.batch : ~IsBeyond(v, d)
  <2>1. CASE E = D
    <3>1. Unread(v, E) = Unread(w, D)
      BY <1>2, <2>1 DEF Unread
    <3> QED BY <1>1, <1>2, <2>1, <3>1, PassKeeps DEF ReadOK
  <2>2. CASE w.step = "merge" /\ E = AfterGroup(w, D)
    <3>1. w.ops = OpsOf(w.pending)
      BY <1>1, <2>2 DEF ChunksOK
    <3>2. IsRewrite(w.ops, OpsOf(w.pending), w.target_op, L)
      BY <1>1, <3>1, GroupOps
    <3> QED BY <1>1, <2>2, <3>1, <3>2, GroupDone
  <2> QED BY <2>1, <2>2
<1>4. ChunksOK(v, n)
  BY <1>1 DEF ChunksOK
<1>5. ReadOK(v, v.lastNotPut, E, L, n)
  BY <1>1, <1>3, <1>4 DEF ReadOK, IsTarget
<1>6. WorkOK(v, E, L, n)
  BY <1>5 DEF WorkOK
<1> QED BY <1>3, <1>6

LEMMA NoGroupFields ==
  ASSUME NEW w, HasFields(w), NEW stats,
         NEW v, v = WithStats(NoGroup(w), stats) \/ v = Merged(w, stats)
  PROVE  /\ v.kind = w.kind /\ v.target = w.target /\ v.bound = w.bound /\ v.verify = w.verify
         /\ v.compactedOp = w.compactedOp /\ v.batch = w.batch /\ v.pending = {} /\ v.target_op = Null
         /\ v = WithStats(NoGroup(w), stats) => v.step = w.step
         /\ v = Merged(w, stats) => v.step = "read"
<1> DEFINE u == NoGroup(w)
<1>1. /\ u.step = w.step /\ u.kind = w.kind /\ u.target = w.target /\ u.bound = w.bound /\ u.verify = w.verify
      /\ u.compactedOp = w.compactedOp /\ u.batch = w.batch /\ u.pending = {} /\ u.target_op = Null
      /\ HasFields(u)
  BY DEF NoGroup, HasFields, Null
<1>2. \A t : HasFields(t) => LET r == WithStats(t, stats) IN
        /\ r.step = t.step /\ r.kind = t.kind /\ r.target = t.target /\ r.bound = t.bound /\ r.verify = t.verify
        /\ r.compactedOp = t.compactedOp /\ r.batch = t.batch /\ r.pending = t.pending /\ r.target_op = t.target_op
  BY DEF HasFields, WithStats
<1>3. \A t : HasFields(t) => LET r == WithBoth(t, "read", stats) IN
        /\ r.step = "read" /\ r.kind = t.kind /\ r.target = t.target /\ r.bound = t.bound /\ r.verify = t.verify
        /\ r.compactedOp = t.compactedOp /\ r.batch = t.batch /\ r.pending = t.pending /\ r.target_op = t.target_op
  BY DEF HasFields, WithBoth
<1>4. Merged(w, stats) = WithBoth(u, "read", stats)
  BY DEF Merged, WithBoth
<1> HIDE DEF u
<1>5. CASE v = WithStats(NoGroup(w), stats)
  <2>1. /\ v.kind = w.kind /\ v.target = w.target /\ v.bound = w.bound /\ v.verify = w.verify /\ v.step = w.step
        /\ v.compactedOp = w.compactedOp /\ v.batch = w.batch /\ v.pending = {} /\ v.target_op = Null
    BY <1>1, <1>2, <1>5 DEF u
  <2>2. v = Merged(w, stats) => v.step = "read"
    BY <1>1, <1>3, <1>4
  <2> QED BY <2>1, <2>2
<1>6. CASE v = Merged(w, stats)
  <2>1. /\ v.kind = w.kind /\ v.target = w.target /\ v.bound = w.bound /\ v.verify = w.verify /\ v.step = "read"
        /\ v.compactedOp = w.compactedOp /\ v.batch = w.batch /\ v.pending = {} /\ v.target_op = Null
    BY <1>1, <1>3, <1>4, <1>6
  <2>2. v = WithStats(NoGroup(w), stats) => v.step = w.step
    BY <1>1, <1>2 DEF u
  <2> QED BY <2>1, <2>2
<1> QED BY <1>5, <1>6

LEMMA ReadOpsReads ==
  ASSUME SchedInv, ReadInv, NEW c \in Compactors, ReadOps(c)
  PROVE  ReadInv'
<1> DEFINE w == compactors[c]
           stats == Plus(w.stats, GroupStats(w))
           ops == OpsOf(Stored(w.pending))
           u == WithStats(NoGroup(w), stats)
           v == WithOps(w, ops)
<1>1. w.step = "read" /\ w.kind = "chunks" /\ w.pending # {} /\ UNCHANGED <<checkpoint, log>>
  BY DEF ReadOps, Step, storageUnchanged
<1>2. HasFields(w) /\ w.step # "idle"
  BY <1>1, SchedFields
<1>3. \/ Become(c, u) /\ UNCHANGED <<bucket_data, bucket_state>>
      \/ Become(c, v) /\ UNCHANGED <<bucket_data, bucket_state>>
      \/ Throw(c) /\ UNCHANGED bucket_data
  <2>1. u = [NoGroup(w) EXCEPT !.stats = Plus(@, GroupStats(w))]
    BY <1>2 DEF WithStats, NoGroup, HasFields
  <2> HIDE DEF u
  <2> QED BY <2>1 DEF ReadOps, WithOps
<1>4. IsLog(log, last_op) /\ IsStore(bucket_data, log, last_op) /\ WorkOK(w, bucket_data, log, last_op)
  BY ReadFields
<1>5. CompactedOK(bucket_state, last_op)
  BY <1>2, HasState
<1>6. CASE Become(c, u) /\ UNCHANGED <<bucket_data, bucket_state>>
  <2> HIDE DEF stats
  <2>1. /\ u.kind = w.kind /\ u.target = w.target /\ u.bound = w.bound /\ u.verify = w.verify
        /\ u.compactedOp = w.compactedOp /\ u.batch = w.batch /\ u.pending = {} /\ u.target_op = Null /\ u.step = w.step
    BY <1>2, NoGroupFields
  <2> HIDE DEF u, w
  <2>2. WorkOK(u, bucket_data, log, last_op)
    BY <1>1, <1>2, <1>4, <2>1, ChunkIsDone
  <2> QED BY <1>1, <1>5, <1>6, <2>2, WorkStep
<1>7. CASE Become(c, v) /\ UNCHANGED <<bucket_data, bucket_state>>
  <2>1. ReadOK(w, w.lastNotPut, bucket_data, log, last_op) /\ ChunksOK(w, last_op) /\ w.pending \subseteq bucket_data
    BY <1>1, <1>4 DEF WorkOK, ReadOK, IsPass
  <2>2. Stored(w.pending) = w.pending
    BY <1>4, <2>1, StoredIs DEF IsStore
  <2>3. ops = OpsOf(w.pending)
    BY <2>2
  <2> HIDE DEF ops
  <2>4. /\ v.kind = w.kind /\ v.target = w.target /\ v.bound = w.bound /\ v.verify = w.verify
        /\ v.compactedOp = w.compactedOp /\ v.batch = w.batch /\ v.pending = w.pending /\ v.target_op = w.target_op
        /\ v.step = "merge" /\ v.ops = ops
    BY <1>2 DEF HasFields, WithOps
  <2> HIDE DEF v, w
  <2>5. ChunksOK(v, last_op)
    BY <1>1, <2>1, <2>3, <2>4 DEF ChunksOK
  <2>6. Unread(v, bucket_data) = Unread(w, bucket_data) /\ \A d : IsBeyond(v, d) <=> IsBeyond(w, d)
    BY <2>4 DEF Unread, IsBeyond
  <2>7. ReadOK(v, v.lastNotPut, bucket_data, log, last_op)
    BY <1>1, <2>1, <2>4, <2>5, <2>6 DEF ReadOK
  <2>8. WorkOK(v, bucket_data, log, last_op)
    BY <1>4, <2>4, <2>7 DEF WorkOK
  <2> QED BY <1>1, <1>5, <1>7, <2>8, WorkStep
<1>8. CASE Throw(c) /\ UNCHANGED bucket_data
  BY <1>1, <1>2, <1>8, ThrowStep
<1> QED BY <1>3, <1>6, <1>7, <1>8

LEMMA MergeChunksReads ==
  ASSUME SchedInv, ReadInv, OneWorker, NEW c \in Compactors, MergeChunks(c)
  PROVE  ReadInv'
<1> DEFINE w == compactors[c]
           stats == Plus(w.stats, GroupStats(w))
           v == Merged(w, stats)
           E == AfterGroup(w, bucket_data)
<1>1. w.step = "merge" /\ UNCHANGED <<checkpoint, log>>
  BY DEF MergeChunks, Step, storageUnchanged
<1>2. HasFields(w) /\ IsBusy(w)
  BY <1>1, SchedFields DEF IsBusy
<1>3. FlushGroup(c, v)
  <2>1. v = [NoGroup(w) EXCEPT !.step = "read", !.stats = Plus(@, GroupStats(w))]
    BY <1>2 DEF Merged, NoGroup, HasFields
  <2> HIDE DEF v
  <2> QED BY <2>1 DEF MergeChunks
<1>4. IsLog(log, last_op) /\ IsStore(bucket_data, log, last_op) /\ WorkOK(w, bucket_data, log, last_op)
  BY ReadFields
<1> HIDE DEF stats
<1>5. /\ v.kind = w.kind /\ v.target = w.target /\ v.bound = w.bound /\ v.verify = w.verify
      /\ v.compactedOp = w.compactedOp /\ v.batch = w.batch /\ v.pending = {} /\ v.target_op = Null /\ v.step = "read"
  BY <1>2, NoGroupFields
<1>6. w.kind # "full" /\ w.pending # {} /\ w.pending \subseteq bucket_data
  <2>1. ReadOK(w, w.lastNotPut, bucket_data, log, last_op)
    BY <1>1, <1>4 DEF WorkOK
  <2> QED BY <1>1, <2>1 DEF ReadOK, FullOK, ChunksOK, IsPass
<1> HIDE DEF v
<1>7. IsStore(E, log, last_op) /\ WorkOK(v, E, log, last_op)
  <2> HIDE DEF w
  <2> QED BY <1>1, <1>2, <1>4, <1>5, <1>6, ChunkIsDone
<1> QED BY <1>1, <1>2, <1>3, <1>6, <1>7, FlushGroupStep

LEMMA EndChunksReads ==
  ASSUME SchedInv, ReadInv, NEW c \in Compactors, EndChunks(c)
  PROVE  ReadInv'
<1> DEFINE w == compactors[c]
           stats == IF w.previous = None THEN w.stats ELSE CombineChunkStats(w.previous, w.stats, w.overlap)
           u == WithStep(w, "reschedule")
           v == WithBoth(w, "finalize", stats)
<1>1. w.step = "read" /\ UNCHANGED <<bucket_data, bucket_state, checkpoint, log>>
      /\ (Become(c, u) \/ (w.compactedOp # 0 /\ Become(c, v)))
  BY DEF EndChunks, Step, storageUnchanged, WithStep, WithBoth
<1>2. HasFields(w) /\ w.step # "idle" /\ CompactedOK(bucket_state, last_op) /\ WorkOK(w, bucket_data, log, last_op)
  BY <1>1, SchedFields, HasState, ReadFields
<1> HIDE DEF stats
<1>3. u.step = "reschedule" /\ u.compactedOp = w.compactedOp
  BY <1>2 DEF WithStep, HasFields
<1>4. v.step = "finalize" /\ v.compactedOp = w.compactedOp
  BY <1>2 DEF WithBoth, HasFields
<1> HIDE DEF u, v
<1>5. WorkOK(u, bucket_data, log, last_op) /\ (w.compactedOp # 0 => WorkOK(v, bucket_data, log, last_op))
  BY <1>2, <1>3, <1>4 DEF WorkOK
<1>6. CASE Become(c, u)
  BY <1>1, <1>2, <1>5, <1>6, WorkStep
<1>7. CASE w.compactedOp # 0 /\ Become(c, v)
  BY <1>1, <1>2, <1>5, <1>7, WorkStep
<1> QED BY <1>1, <1>6, <1>7

-----------------------------------------------------------------------------
(***************************************************************************)
(* A full compaction: the next document is scanned.                        *)
(***************************************************************************)
LEMMA RewriteWeaker ==
  ASSUME NEW L, \A t \in L : t.op_id \in Nat, NEW A, NEW T, NEW m \in Nat, NEW n \in Nat, m <= n, IsRewrite(A, T, m, L)
  PROVE  IsRewrite(A, T, n, L)
<1>1. ASSUME NEW x \in A
      PROVE  x.target_op = Null /\ \E o \in T : x.op_id = o.op_id /\ x.checksum = o.checksum /\ (x = o \/ IsMoveFor(x, o, n, L))
  <2>1. x.target_op = Null
    BY DEF IsRewrite
  <2>2. PICK o \in T : x.op_id = o.op_id /\ x.checksum = o.checksum /\ (x = o \/ IsMoveFor(x, o, m, L))
    BY DEF IsRewrite
  <2>3. IsMoveFor(x, o, m, L) => IsMoveFor(x, o, n, L)
    BY DEF IsMoveFor
  <2> QED BY <2>1, <2>2, <2>3
<1> QED BY <1>1 DEF IsRewrite

LEMMA LogIds ==
  ASSUME NEW L, NEW n, IsLog(L, n)
  PROVE  IsOps(L) /\ \A t \in L : t.op_id \in Nat
BY OpFields DEF IsLog, IsOps

\* No PUT up to what the scan says, in all of what it has been through
LEMMA TakeNotPut ==
  ASSUME NEW D, NEW L, NEW n, IsLog(L, n), IsStore(D, L, n), NEW w, HasFields(w), NEW lastNotPut, ReadOK(w, lastNotPut, D, L, n),
         w.kind = "full", NEW d \in Unread(w, D), NEW s,
         s \in ScanState, IsRewrite(s.ops, d.ops, s.target_op, L),
         s.lastNotPut # Null => IsNotPut(s.ops, s.lastNotPut),
         s.lastNotPut # Null => s.lastNotPut = lastNotPut \/ HasId(s.ops, s.lastNotPut),
         NEW v, v.clearAt = w.clearAt, v.ops = w.ops \cup s.ops, Done(v, D) = Done(w, D)
  PROVE  NotPutOK(v, s.lastNotPut, D)
<1> DEFINE m == s.lastNotPut
<1>0. SUFFICES ASSUME m # Null
               PROVE  /\ IsNotPut(OpsOf(Done(v, D)) \cup v.ops, m)
                      /\ HasId(v.ops, m) \/ \E e \in Done(v, D) : DocId(e) = v.clearAt /\ HasId(e.ops, m)
  BY DEF NotPutOK
<1>1. IsPass("full", Unread(w, D), w.pending, D) /\ FullOK(w, lastNotPut, D, L, n)
  BY DEF ReadOK
<1>2. d \in D
  BY <1>1 DEF IsPass
<1>3. CASE HasId(s.ops, m)
  <2>1. PICK x \in s.ops : x.op_id = m
    BY <1>3 DEF HasId
  <2>2. PICK o \in d.ops : o.op_id = m
    BY <2>1 DEF IsRewrite
  <2>3. ASSUME NEW e \in D \ Unread(w, D), NEW p \in e.ops PROVE ~(p.op_id <= m)
    <3>1. IsBefore(d, e)
      BY <1>1 DEF IsPass, Ahead
    <3>2. o.op_id < p.op_id /\ o.op_id \in Nat /\ p.op_id \in Nat
      BY <1>2, <3>1, StoreDoc DEF IsBefore
    <3> QED BY <2>2, <3>2
  <2>4. \A p \in OpsOf(Done(v, D)) : ~(p.op_id <= m)
    <3> SUFFICES ASSUME NEW p \in OpsOf(Done(v, D)) PROVE ~(p.op_id <= m)
      OBVIOUS
    <3>1. PICK e \in Done(w, D) : p \in e.ops
      BY OpsOfHas
    <3> QED BY <2>3, <3>1 DEF Done
  <2>5. \A q \in w.ops : ~(q.op_id <= m)
    <3> SUFFICES ASSUME NEW q \in w.ops PROVE ~(q.op_id <= m)
      OBVIOUS
    <3>1. PICK p \in OpsOf(w.pending) : q.op_id = p.op_id
      BY <1>1 DEF FullOK, IsRewrite
    <3>2. PICK e \in w.pending : p \in e.ops
      BY OpsOfHas
    <3>3. e \in D \ Unread(w, D)
      BY <1>1 DEF IsPass
    <3> QED BY <2>3, <3>1, <3>2, <3>3
  <2>6. IsNotPut(s.ops, m)
    BY <1>0
  <2>7. IsNotPut(OpsOf(Done(v, D)) \cup v.ops, m)
    BY <2>4, <2>5, <2>6 DEF IsNotPut
  <2>8. HasId(v.ops, m)
    BY <2>1 DEF HasId
  <2> QED BY <2>7, <2>8
<1>4. CASE m = lastNotPut
  <2>1. /\ IsNotPut(OpsOf(Done(w, D)) \cup w.ops, m)
        /\ HasId(w.ops, m) \/ \E e \in Done(w, D) : DocId(e) = w.clearAt /\ HasId(e.ops, m)
    BY <1>0, <1>1, <1>4 DEF FullOK, NotPutOK
  <2>2. IsNotPut(s.ops, m)
    BY <1>0
  <2>3. IsNotPut(OpsOf(Done(v, D)) \cup v.ops, m)
    BY <2>1, <2>2 DEF IsNotPut
  <2>4. HasId(w.ops, m) => HasId(v.ops, m)
    BY DEF HasId
  <2> QED BY <2>1, <2>3, <2>4
<1> QED BY <1>0, <1>3, <1>4

\* Something was rewritten.
IsChanged(w) == w.changed = TRUE

LEMMA TakesNewest ==
  ASSUME NEW D, NEW L, NEW n, IsLog(L, n), IsStore(D, L, n), NEW w, HasFields(w), NEW lastNotPut, ReadOK(w, lastNotPut, D, L, n),
         w.kind = "full", NEW d \in w.batch, \A e \in w.batch : DocId(e) <= DocId(d),
         NEW v, v.kind = w.kind, v.bound = w.bound, v.batch = w.batch \ {d}, v.pending = w.pending \cup {d}
  PROVE  /\ Unread(v, D) = Unread(w, D) \ {d} /\ Done(v, D) = Done(w, D)
         /\ IsPass(v.kind, Unread(v, D), v.pending, D)
         /\ v.batch \subseteq D /\ \A e \in v.batch : ~IsBeyond(v, e)
         /\ d \in D /\ d \in Unread(w, D) /\ d \notin w.pending
         /\ \A e \in Unread(w, D) : e = d \/ IsBefore(e, d)
<1>1. \A e \in w.batch : IF w.kind = "full" THEN DocId(e) <= DocId(d) ELSE DocId(d) <= DocId(e)
  OBVIOUS
<1>2. /\ Unread(v, D) = Unread(w, D) \ {d} /\ Done(v, D) = Done(w, D)
      /\ IsPass(v.kind, Unread(v, D), v.pending, D)
      /\ v.batch \subseteq D /\ (\A e \in v.batch : ~IsBeyond(v, e))
      /\ d \in D /\ d \in Unread(w, D) /\ d \notin w.pending
      /\ \A e \in Unread(w, D) : e = d \/ Ahead(w.kind, e, d)
  BY <1>1, TakesOne
<1> QED BY <1>2 DEF Ahead

LEMMA TakeFull ==
  ASSUME NEW D, NEW L, NEW n, IsLog(L, n), IsStore(D, L, n), NEW w, HasFields(w), NEW lastNotPut, ReadOK(w, lastNotPut, D, L, n),
         w.kind = "full", NEW d \in w.batch, \A e \in w.batch : DocId(e) <= DocId(d),
         NEW base, base.target_op = d.target_op, NEW s, IsScanned(s, d.ops, OpsOf(Unread(w, D) \ {d}), base, L),
         s.lastNotPut # Null => s.lastNotPut = lastNotPut \/ HasId(s.ops, s.lastNotPut),
         NEW v, v.step = w.step, v.kind = w.kind, v.bound = w.bound, v.more = w.more, v.clearAt = w.clearAt,
         v.batch = w.batch \ {d}, v.pending = w.pending \cup {d}, v.ops = w.ops \cup s.ops, v.seen = s.seen,
         IsChanged(w) \/ IsChanged(s) => IsChanged(v), v.target_op = Max({w.target_op, s.target_op})
  PROVE  ReadOK(v, s.lastNotPut, D, L, n)
<1>1. IsPass("full", Unread(w, D), w.pending, D) /\ FullOK(w, lastNotPut, D, L, n) /\ w.bound \in Nat /\ w.pending \subseteq D
      /\ IsTarget(w.target_op, L) /\ \A e \in w.pending : e.target_op <= w.target_op
  BY DEF ReadOK, IsPass
<1>2. /\ Unread(v, D) = Unread(w, D) \ {d} /\ Done(v, D) = Done(w, D)
      /\ IsPass(v.kind, Unread(v, D), v.pending, D)
      /\ v.batch \subseteq D /\ (\A e \in v.batch : ~IsBeyond(v, e))
      /\ d \in D /\ d \in Unread(w, D) /\ d \notin w.pending
  <2>1. Unread(v, D) = Unread(w, D) \ {d}
    BY TakesNewest
  <2>2. IsPass(v.kind, Unread(v, D), v.pending, D)
    BY TakesNewest, ZenonT(40)
  <2>3. d \in D /\ d \in Unread(w, D) /\ d \notin w.pending
    BY TakesNewest
  <2>4. \A e \in v.batch : ~IsBeyond(v, e)
    BY TakesNewest
  <2>5. v.batch \subseteq D /\ Done(v, D) = Done(w, D)
    BY TakesNewest
  <2> QED BY <2>1, <2>2, <2>3, <2>4, <2>5
<1>3. /\ s \in ScanState /\ IsRewrite(s.ops, d.ops, s.target_op, L)
      /\ d.target_op <= s.target_op /\ IsTarget(s.target_op, L)
      /\ (s.changed # TRUE => s.ops = d.ops)
      /\ IsKnown(s.seen, OpsOf(Unread(v, D)), L)
      /\ (s.lastNotPut # Null => IsNotPut(s.ops, s.lastNotPut))
  BY <1>2 DEF IsScanned
<1>4. w.target_op \in Nat /\ s.target_op \in Nat /\ d.target_op \in Nat /\ \A e \in D : e.target_op \in Nat
  BY <1>2, <1>3, StoreDoc DEF HasFields, ScanState
<1>5. v.target_op \in Nat /\ IsTarget(v.target_op, L) /\ w.target_op <= v.target_op /\ s.target_op <= v.target_op
  BY <1>1, <1>3, <1>4, TargetOfTwo
<1>6. \A e \in v.pending : e.target_op <= v.target_op
  BY <1>1, <1>3, <1>4, <1>5
<1>7. OpsOf(v.pending) = OpsOf(w.pending) \cup d.ops
  BY DEF OpsOf
<1>8. IsRewrite(v.ops, OpsOf(v.pending), v.target_op, L)
  <2>1. IsRewrite(w.ops, OpsOf(w.pending), w.target_op, L)
    BY <1>1 DEF FullOK
  <2>2. IsRewrite(s.ops, d.ops, v.target_op, L)
    BY <1>3, <1>4, <1>5, RewriteWeaker, LogIds
  <2>3. \A o \in OpsOf(w.pending), p \in d.ops : o.op_id # p.op_id
    <3> SUFFICES ASSUME NEW o \in OpsOf(w.pending), NEW p \in d.ops, o.op_id = p.op_id PROVE FALSE
      OBVIOUS
    <3>1. PICK e \in w.pending : o \in e.ops
      BY OpsOfHas
    <3>2. e = d
      BY <1>1, <1>2, <3>1, SameDoc
    <3> QED BY <1>2, <3>1, <3>2
  <2>4. IsRewrite(w.ops \cup s.ops, OpsOf(w.pending) \cup d.ops, v.target_op, L)
    BY <1>4, <1>5, <2>1, <2>2, <2>3, RewriteMore, LogIds
  <2> QED BY <1>7, <2>4
<1>9. v.changed = TRUE \/ v.ops = OpsOf(v.pending)
  BY <1>1, <1>3, <1>7 DEF FullOK, IsChanged
<1>10. NotPutOK(v, s.lastNotPut, D)
  BY <1>2, <1>3, TakeNotPut
<1>11. v.more = TRUE \/ \A e \in D : ~IsBeyond(v, e)
  BY <1>1 DEF FullOK, IsBeyond
<1>12. FullOK(v, s.lastNotPut, D, L, n)
  BY <1>1, <1>3, <1>8, <1>9, <1>10, <1>11 DEF FullOK
<1> QED BY <1>1, <1>2, <1>5, <1>6, <1>12 DEF ReadOK

LEMMA ScanDocumentIs ==
  ASSUME NEW D, NEW L, NEW n, IsLog(L, n), IsStore(D, L, n), NEW w, HasFields(w), NEW lastNotPut, ReadOK(w, lastNotPut, D, L, n),
         w.kind = "full", NEW d \in Unread(w, D), \A e \in Unread(w, D) : e = d \/ IsBefore(e, d)
  PROVE  \E base : /\ base.target_op = d.target_op /\ base.lastNotPut = w.lastNotPut
                   /\ IsScanned(ScanDocument(w, d), d.ops, OpsOf(Unread(w, D) \ {d}), base, L)
<1> DEFINE base == [seen |-> w.seen, lastNotPut |-> w.lastNotPut, opsSincePut |-> w.opsSincePut,
                    ops |-> {}, target_op |-> d.target_op, changed |-> FALSE]
           rest == OpsOf(Unread(w, D) \ {d})
<1>0. d \in D /\ FullOK(w, lastNotPut, D, L, n)
  BY DEF ReadOK, IsPass
<1>1. /\ d \in Doc /\ d.ops \subseteq Op /\ IsFiniteSet(d.ops) /\ HasOwnIds(d.ops) /\ IsTarget(d.target_op, L) /\ d.target_op \in Nat
      /\ \A o \in d.ops : o.target_op = Null
  BY <1>0, StoreDoc
<1>2. base \in ScanState
  <2>1. w.seen \in Seen /\ w.lastNotPut \in Nat /\ w.opsSincePut \in Nat
    BY DEF HasFields
  <2>2. {} \in FiniteOps
    BY FS_EmptySet DEF FiniteOps
  <2> QED BY <1>1, <2>1, <2>2 DEF ScanState
<1>3. ScanDocument(w, d) = ScanOf(base, d.ops)
  BY DEF ScanDocument, ScanOf
<1>4. base.target_op = d.target_op /\ base.lastNotPut = w.lastNotPut /\ base.ops = {} /\ base.seen = w.seen
  OBVIOUS
<1>5. ASSUME NEW o \in d.ops, o.op \in {"PUT", "REMOVE"} PROVE o \in L
  <2>1. LogOK(View(D), L) /\ n \in Nat
    BY StoreLogged
  <2>2. Given(o, d.target_op) = o /\ Given(o, d.target_op) \in View(D)
    BY <1>0, <1>5, <2>1, ViewHas, ViewFields
  <2> QED BY <1>5, <2>1, <2>2 DEF LogOK, KeepsWritten
<1>6. \A p \in rest, o \in d.ops : p.op_id < o.op_id
  <2> SUFFICES ASSUME NEW p \in rest, NEW o \in d.ops PROVE p.op_id < o.op_id
    OBVIOUS
  <2>1. PICK e \in Unread(w, D) \ {d} : p \in e.ops
    BY OpsOfHas
  <2> QED BY <2>1 DEF IsBefore
<1>7. rest \cup d.ops = OpsOf(Unread(w, D))
  BY DEF OpsOf
<1>8. IsKnown(base.seen, rest \cup d.ops, L)
  BY <1>0, <1>7 DEF FullOK
<1>9. IsOps(L)
  BY LogIds
<1> HIDE DEF base, rest
<1>10. IsScanned(ScanOf(base, d.ops), d.ops, rest, base, L)
  BY <1>1, <1>2, <1>4, <1>5, <1>6, <1>8, <1>9, ScanAll
<1>11. IsScanned(ScanDocument(w, d), d.ops, OpsOf(Unread(w, D) \ {d}), base, L)
  BY <1>3, <1>10 DEF rest
<1> QED BY <1>4, <1>11

LEMMA FlushNotPut ==
  ASSUME NEW E, NEW L, NEW n, IsStore(E, L, n), NEW m, m # Null, NEW w, NEW v, NEW before, NEW e \in E,
         e.ops = w.ops, before \subseteq E, Done(v, E) = before \cup {e}, v.ops = {},
         v.clearAt = IF m \in FirstOp(w.ops).op_id .. LastOp(w.ops).op_id THEN LastOp(w.ops).op_id ELSE w.clearAt,
         IsNotPut(OpsOf(before) \cup w.ops, m),
         HasId(w.ops, m) \/ \E d \in before : DocId(d) = w.clearAt /\ HasId(d.ops, m)
  PROVE  NotPutOK(v, m, E)
<1>1. e \in Doc /\ FirstOp(w.ops).op_id = MinOp(e) /\ LastOp(w.ops).op_id = DocId(e)
  BY StoreDoc DEF MinOp, DocId
<1>2. /\ \A o \in e.ops : MinOp(e) <= o.op_id /\ o.op_id <= DocId(e) /\ o.op_id \in Nat
      /\ HasId(e.ops, MinOp(e)) /\ HasId(e.ops, DocId(e)) /\ MinOp(e) \in Nat /\ DocId(e) \in Nat
  BY <1>1, DocEnds, StoreDoc
<1>3. OpsOf(Done(v, E)) \cup v.ops = OpsOf(before) \cup w.ops
  BY DEF OpsOf
<1>4. CASE HasId(w.ops, m)
  <2>1. m \in MinOp(e) .. DocId(e)
    BY <1>2, <1>4 DEF HasId
  <2>2. DocId(e) = v.clearAt /\ HasId(e.ops, m)
    BY <1>1, <1>4, <2>1
  <2> QED BY <1>3, <2>2 DEF NotPutOK
<1>5. CASE ~HasId(w.ops, m)
  <2>1. PICK d \in before : DocId(d) = w.clearAt /\ HasId(d.ops, m)
    BY <1>5
  <2>2. PICK o \in d.ops : o.op_id = m /\ o.op_id \in Nat
    BY <2>1, StoreDoc DEF HasId
  <2>3. d # e
    BY <1>5, <2>1
  <2>4. IsBefore(d, e) \/ IsBefore(e, d)
    BY <2>3 DEF IsStore, InOrder
  <2>5. PICK p \in e.ops : p.op_id = MinOp(e)
    BY <1>2 DEF HasId
  <2>6. PICK q \in e.ops : q.op_id = DocId(e)
    BY <1>2 DEF HasId
  <2>7. m < MinOp(e) \/ DocId(e) < m
    BY <2>2, <2>4, <2>5, <2>6 DEF IsBefore
  <2>8. m \notin MinOp(e) .. DocId(e)
    BY <1>2, <2>2, <2>7
  <2>9. v.clearAt = w.clearAt
    BY <1>1, <2>8
  <2> QED BY <1>3, <2>1, <2>9 DEF NotPutOK
<1> QED BY <1>4, <1>5

LEMMA FlushFull ==
  ASSUME NEW D, NEW L, NEW n, IsLog(L, n), IsStore(D, L, n), NEW w, HasFields(w), NEW lastNotPut, ReadOK(w, lastNotPut, D, L, n),
         w.kind = "full", w.pending # {}, NEW m, lastNotPut = Null \/ lastNotPut = m,
         NEW v, v.step = w.step, v.kind = w.kind, v.bound = w.bound, v.more = w.more, v.batch = w.batch, v.seen = w.seen,
         v.pending = {}, v.ops = {}, v.target_op = Null,
         v.clearAt = (IF m \in FirstOp(w.ops).op_id .. LastOp(w.ops).op_id THEN LastOp(w.ops).op_id ELSE w.clearAt),
         NEW E, E = AfterGroup(w, D)
  PROVE  IsStore(E, L, n) /\ Unread(v, E) = Unread(w, D) /\ ReadOK(v, lastNotPut, E, L, n)
<1>1. FullOK(w, lastNotPut, D, L, n) /\ w.bound \in Nat
  BY DEF ReadOK
<1>2. IsRewrite(w.ops, OpsOf(w.pending), w.target_op, L) /\ (IsKept(w) => w.ops = OpsOf(w.pending))
  BY <1>1 DEF FullOK, IsKept
<1>3. /\ IsStore(E, L, n)
      /\ Unread(v, E) = Unread(w, D)
      /\ IsPass(v.kind, Unread(v, E), v.pending, E)
      /\ v.batch \subseteq E /\ (\A d \in v.batch : ~IsBeyond(v, d))
      /\ \A d \in E : IsBeyond(v, d) => d \in D
      /\ \E e \in E : e.ops = w.ops /\ Done(v, E) = Done(w, D) \cup {e}
  <2>1. IsStore(E, L, n) /\ Unread(v, E) = Unread(w, D)
    BY <1>2, GroupDone
  <2>2. IsPass(v.kind, Unread(v, E), v.pending, E)
    BY <1>2, GroupDone
  <2>3. v.batch \subseteq E /\ \A d \in v.batch : ~IsBeyond(v, d)
    BY <1>2, GroupDone
  <2>4. \A d \in E : IsBeyond(v, d) => d \in D
    BY <1>2, GroupDone
  <2>5. \E e \in E : e.ops = w.ops /\ Done(v, E) = Done(w, D) \cup {e}
    BY <1>2, GroupDone
  <2> QED BY <2>1, <2>2, <2>3, <2>4, <2>5
<1>4. PICK e \in E : e.ops = w.ops /\ Done(v, E) = Done(w, D) \cup {e}
  BY <1>3
<1>5. NotPutOK(v, lastNotPut, E)
  <2> SUFFICES ASSUME lastNotPut # Null PROVE NotPutOK(v, lastNotPut, E)
    BY DEF NotPutOK
  <2>1. /\ IsNotPut(OpsOf(Done(w, D)) \cup w.ops, m)
        /\ HasId(w.ops, m) \/ \E d \in Done(w, D) : DocId(d) = w.clearAt /\ HasId(d.ops, m)
    BY <1>1 DEF FullOK, NotPutOK
  <2>2. Done(w, D) \subseteq E
    BY <1>4 DEF Done
  <2>3. m # Null /\ lastNotPut = m
    OBVIOUS
  <2>4. NotPutOK(v, m, E)
    BY <1>3, <1>4, <2>1, <2>2, <2>3, FlushNotPut
  <2> QED BY <2>3, <2>4
<1>6. v.more = TRUE \/ \A d \in E : ~IsBeyond(v, d)
  BY <1>1, <1>3 DEF FullOK, IsBeyond
<1>7. OpsOf(v.pending) = {}
  BY DEF OpsOf
<1>8. IsRewrite(v.ops, OpsOf(v.pending), v.target_op, L)
  BY <1>7, FS_EmptySet DEF IsRewrite, HasOwnIds
<1>9. FullOK(v, lastNotPut, E, L, n)
  <2>1. IsKnown(v.seen, OpsOf(Unread(v, E)), L)
    BY <1>1, <1>3 DEF FullOK
  <2>2. v.step = "read" /\ v.bound <= n + 1 /\ (v.changed = TRUE \/ v.ops = OpsOf(v.pending))
    BY <1>1, <1>7 DEF FullOK
  <2> QED BY <1>5, <1>6, <1>8, <2>1, <2>2 DEF FullOK
<1>10. IsTarget(v.target_op, L) /\ \A d \in v.pending : d.target_op <= v.target_op
  BY DEF IsTarget
<1>11. ReadOK(v, lastNotPut, E, L, n)
  BY <1>1, <1>3, <1>9, <1>10 DEF ReadOK
<1> QED BY <1>3, <1>11

\* The worker after these
WithScanned(w, d, s) ==
  [w EXCEPT !.batch = @ \ {d}, !.seen = s.seen, !.lastNotPut = s.lastNotPut, !.opsSincePut = s.opsSincePut,
            !.pending = @ \cup {d}, !.ops = @ \cup s.ops, !.changed = @ \/ s.changed,
            !.target_op = Max({@, s.target_op})]

LEMMA WithFields ==
  ASSUME NEW w, HasFields(w), NEW d, NEW s, NEW v, v = WithScanned(w, d, s)
  PROVE  /\ v.step = w.step /\ v.kind = w.kind /\ v.bound = w.bound /\ v.more = w.more /\ v.clearAt = w.clearAt
         /\ v.compactedOp = w.compactedOp
         /\ v.batch = w.batch \ {d} /\ v.pending = w.pending \cup {d} /\ v.ops = w.ops \cup s.ops /\ v.seen = s.seen
         /\ v.lastNotPut = s.lastNotPut /\ v.target_op = Max({w.target_op, s.target_op})
         /\ IsChanged(w) \/ IsChanged(s) => IsChanged(v)
<1> DEFINE changed == w.changed \/ s.changed
           target == Max({w.target_op, s.target_op})
           u == [w EXCEPT !.batch = @ \ {d}, !.seen = s.seen, !.lastNotPut = s.lastNotPut, !.opsSincePut = s.opsSincePut,
                          !.pending = @ \cup {d}, !.ops = @ \cup s.ops, !.changed = changed, !.target_op = target]
<1>1. v = u
  BY DEF WithScanned
<1>2. w.changed = TRUE \/ s.changed = TRUE => changed = TRUE
  OBVIOUS
<1> HIDE DEF changed, target
<1>3. /\ u.step = w.step /\ u.kind = w.kind /\ u.bound = w.bound /\ u.more = w.more /\ u.clearAt = w.clearAt
      /\ u.compactedOp = w.compactedOp
      /\ u.batch = w.batch \ {d} /\ u.pending = w.pending \cup {d} /\ u.ops = w.ops \cup s.ops /\ u.seen = s.seen
      /\ u.lastNotPut = s.lastNotPut /\ u.target_op = target
  BY DEF HasFields
<1>4. u.changed = changed
  BY DEF HasFields
<1> HIDE DEF u
<1>5. IsChanged(w) \/ IsChanged(s) => IsChanged(v)
  BY <1>1, <1>2, <1>4 DEF IsChanged
<1> QED BY <1>1, <1>3, <1>5 DEF target

LEMMA FlushedFields ==
  ASSUME NEW w, HasFields(w), NEW m, NEW v, v = Flushed(w, m)
  PROVE  /\ v.step = w.step /\ v.kind = w.kind /\ v.bound = w.bound /\ v.more = w.more /\ v.batch = w.batch /\ v.seen = w.seen
         /\ v.pending = {} /\ v.ops = {} /\ v.target_op = Null /\ v.compactedOp = w.compactedOp /\ v.lastNotPut = w.lastNotPut
         /\ v.clearAt = (IF m \in FirstOp(w.ops).op_id .. LastOp(w.ops).op_id THEN LastOp(w.ops).op_id ELSE w.clearAt)
         /\ HasFields(v)
<1> DEFINE u == NoGroup(w)
           stats == Plus(u.stats, GroupStats(w))
           at == IF m \in FirstOp(w.ops).op_id .. LastOp(w.ops).op_id THEN LastOp(w.ops).op_id ELSE u.clearAt
<1>1. /\ u.step = w.step /\ u.kind = w.kind /\ u.bound = w.bound /\ u.more = w.more /\ u.batch = w.batch /\ u.seen = w.seen
      /\ u.pending = {} /\ u.ops = {} /\ u.target_op = Null /\ u.compactedOp = w.compactedOp /\ u.lastNotPut = w.lastNotPut
      /\ u.clearAt = w.clearAt /\ HasFields(u)
  BY DEF NoGroup, HasFields, Null
<1>2. v = Counting(u, stats, at)
  BY DEF Flushed, Counting
<1> HIDE DEF u, stats, at
<1>3. \A t : HasFields(t) => LET r == Counting(t, stats, at) IN
        /\ r.step = t.step /\ r.kind = t.kind /\ r.bound = t.bound /\ r.more = t.more /\ r.batch = t.batch /\ r.seen = t.seen
        /\ r.pending = t.pending /\ r.ops = t.ops /\ r.target_op = t.target_op /\ r.compactedOp = t.compactedOp
        /\ r.lastNotPut = t.lastNotPut /\ r.clearAt = at /\ HasFields(r)
  BY DEF HasFields, Counting
<1>4. at = IF m \in FirstOp(w.ops).op_id .. LastOp(w.ops).op_id THEN LastOp(w.ops).op_id ELSE w.clearAt
  BY <1>1 DEF at
<1> QED BY <1>1, <1>2, <1>3, <1>4

LEMMA DocumentIsTaken ==
  ASSUME NEW D, NEW L, NEW n, IsLog(L, n), IsStore(D, L, n), NEW w, HasFields(w), WorkOK(w, D, L, n),
         w.step = "read", w.kind = "full", NEW d \in w.batch, \A e \in w.batch : DocId(e) <= DocId(d),
         NEW s, s = ScanDocument(w, d), NEW v, v = WithScanned(w, d, s)
  PROVE  WorkOK(v, D, L, n)
<1>1. ReadOK(w, w.lastNotPut, D, L, n)
  BY DEF WorkOK
<1>2. d \in Unread(w, D) /\ \A e \in Unread(w, D) : e = d \/ IsBefore(e, d)
  <2> DEFINE u == [kind |-> w.kind, bound |-> w.bound, batch |-> w.batch \ {d}, pending |-> w.pending \cup {d}]
  <2>1. u.kind = w.kind /\ u.bound = w.bound /\ u.batch = w.batch \ {d} /\ u.pending = w.pending \cup {d}
    OBVIOUS
  <2> HIDE DEF u
  <2>2. d \in Unread(w, D)
    BY <1>1, <2>1, TakesNewest
  <2>3. \A e \in Unread(w, D) : e = d \/ IsBefore(e, d)
    BY <1>1, <2>1, TakesNewest
  <2> QED BY <2>2, <2>3
<1>3. PICK base : /\ base.target_op = d.target_op /\ base.lastNotPut = w.lastNotPut
                  /\ IsScanned(ScanDocument(w, d), d.ops, OpsOf(Unread(w, D) \ {d}), base, L)
  BY <1>1, <1>2, ScanDocumentIs
<1>4. IsScanned(s, d.ops, OpsOf(Unread(w, D) \ {d}), base, L)
      /\ (s.lastNotPut # Null => s.lastNotPut = w.lastNotPut \/ HasId(s.ops, s.lastNotPut))
  BY <1>3 DEF IsScanned
<1>5. /\ v.step = w.step /\ v.kind = w.kind /\ v.bound = w.bound /\ v.more = w.more /\ v.clearAt = w.clearAt
      /\ v.compactedOp = w.compactedOp
      /\ v.batch = w.batch \ {d} /\ v.pending = w.pending \cup {d} /\ v.ops = w.ops \cup s.ops /\ v.seen = s.seen
      /\ v.lastNotPut = s.lastNotPut /\ v.target_op = Max({w.target_op, s.target_op})
  BY WithFields
<1>6. IsChanged(w) \/ IsChanged(s) => IsChanged(v)
  BY WithFields
<1>7. ReadOK(v, s.lastNotPut, D, L, n)
  BY <1>1, <1>3, <1>4, <1>5, <1>6, TakeFull
<1> QED BY <1>5, <1>7 DEF WorkOK

LEMMA DocumentStartsGroup ==
  ASSUME NEW D, NEW L, NEW n, IsLog(L, n), IsStore(D, L, n), NEW w, HasFields(w), WorkOK(w, D, L, n),
         w.step = "read", w.kind = "full", w.pending # {}, NEW d \in w.batch, \A e \in w.batch : DocId(e) <= DocId(d),
         NEW s, s = ScanDocument(w, d), NEW u, u = Flushed(w, s.lastNotPut), NEW v, v = WithScanned(u, d, s),
         NEW E, E = AfterGroup(w, D)
  PROVE  IsStore(E, L, n) /\ WorkOK(v, E, L, n)
<1>1. ReadOK(w, w.lastNotPut, D, L, n)
  BY DEF WorkOK
<1>2. d \in Unread(w, D) /\ \A e \in Unread(w, D) : e = d \/ IsBefore(e, d)
  <2> DEFINE t == [kind |-> w.kind, bound |-> w.bound, batch |-> w.batch \ {d}, pending |-> w.pending \cup {d}]
  <2>1. t.kind = w.kind /\ t.bound = w.bound /\ t.batch = w.batch \ {d} /\ t.pending = w.pending \cup {d}
    OBVIOUS
  <2> HIDE DEF t
  <2>2. d \in Unread(w, D)
    BY <1>1, <2>1, TakesNewest
  <2>3. \A e \in Unread(w, D) : e = d \/ IsBefore(e, d)
    BY <1>1, <2>1, TakesNewest
  <2> QED BY <2>2, <2>3
<1>3. PICK base : /\ base.target_op = d.target_op /\ base.lastNotPut = w.lastNotPut
                  /\ IsScanned(ScanDocument(w, d), d.ops, OpsOf(Unread(w, D) \ {d}), base, L)
  BY <1>1, <1>2, ScanDocumentIs
<1> DEFINE known == IF s.lastNotPut = w.lastNotPut THEN w.lastNotPut ELSE Null
<1>4. /\ s.lastNotPut # Null => s.lastNotPut = known \/ HasId(s.ops, s.lastNotPut)
      /\ known = Null \/ known = s.lastNotPut
      /\ known = Null \/ known = w.lastNotPut
  BY <1>3 DEF IsScanned
<1> HIDE DEF known
<1>5. ReadOK(w, known, D, L, n)
  BY <1>1, <1>4 DEF ReadOK, FullOK, NotPutOK
<1>6. /\ u.step = w.step /\ u.kind = w.kind /\ u.bound = w.bound /\ u.more = w.more /\ u.batch = w.batch /\ u.seen = w.seen
      /\ u.pending = {} /\ u.ops = {} /\ u.target_op = Null /\ u.compactedOp = w.compactedOp
      /\ HasFields(u)
  BY FlushedFields
<1>7. u.clearAt = (IF s.lastNotPut \in FirstOp(w.ops).op_id .. LastOp(w.ops).op_id THEN LastOp(w.ops).op_id ELSE w.clearAt)
  BY FlushedFields
<1>8. IsStore(E, L, n) /\ Unread(u, E) = Unread(w, D)
  BY <1>4, <1>5, <1>6, <1>7, FlushFull
<1>9. ReadOK(u, known, E, L, n)
  BY <1>4, <1>5, <1>6, <1>7, FlushFull
<1>10. IsScanned(s, d.ops, OpsOf(Unread(u, E) \ {d}), base, L)
  BY <1>3, <1>8
<1>11. /\ v.step = u.step /\ v.kind = u.kind /\ v.bound = u.bound /\ v.more = u.more /\ v.clearAt = u.clearAt
       /\ v.compactedOp = u.compactedOp
       /\ v.batch = u.batch \ {d} /\ v.pending = u.pending \cup {d} /\ v.ops = u.ops \cup s.ops /\ v.seen = s.seen
       /\ v.lastNotPut = s.lastNotPut /\ v.target_op = Max({u.target_op, s.target_op})
  <2>1. HasFields(u)
    BY <1>6
  <2> QED BY <2>1, WithFields
<1>12. IsChanged(u) \/ IsChanged(s) => IsChanged(v)
  BY <1>6, WithFields
<1>13. u.kind = "full" /\ d \in u.batch /\ \A e \in u.batch : DocId(e) <= DocId(d)
  BY <1>6
<1>14. ReadOK(v, s.lastNotPut, E, L, n)
  BY <1>3, <1>4, <1>6, <1>8, <1>9, <1>10, <1>11, <1>12, <1>13, TakeFull
<1>15. v.step = "read" /\ v.compactedOp = w.compactedOp /\ v.lastNotPut = s.lastNotPut
  BY <1>6, <1>11
<1>16. WorkOK(v, E, L, n)
  BY <1>14, <1>15 DEF WorkOK
<1> QED BY <1>8, <1>16

LEMMA CompactDocumentReads ==
  ASSUME SchedInv, ReadInv, OneWorker, NEW c \in Compactors, CompactDocument(c)
  PROVE  ReadInv'
<1> DEFINE w == compactors[c]
           d == CHOOSE e \in w.batch : \A f \in w.batch : DocId(f) <= DocId(e)
           s == ScanDocument(w, d)
           t == WithScanned(w, d, s)
           u == Flushed(w, s.lastNotPut)
           v == WithScanned(u, d, s)
<1>1. /\ w.step = "read" /\ w.kind = "full" /\ w.batch # {} /\ UNCHANGED <<checkpoint, log>>
      /\ \/ Become(c, t) /\ UNCHANGED <<bucket_data, bucket_state>>
         \/ w.pending # {} /\ FlushGroup(c, v)
  BY DEF CompactDocument, Step, storageUnchanged, WithScanned
<1>2. HasFields(w) /\ IsFiniteSet(w.batch) /\ IsBusy(w)
  BY <1>1, SchedFields DEF IsWorker, IsBusy
<1>3. d \in w.batch /\ \A e \in w.batch : DocId(e) <= DocId(d)
  <2>1. DocsOK(w.batch)
    BY <1>2 DEF HasFields, DocsOK
  <2> QED BY <1>1, <2>1, EndDocs
<1>4. IsLog(log, last_op) /\ IsStore(bucket_data, log, last_op) /\ WorkOK(w, bucket_data, log, last_op)
  BY ReadFields
<1>5. CompactedOK(bucket_state, last_op)
  BY <1>2, HasState DEF IsBusy
<1> HIDE DEF d
<1>6. CASE Become(c, t) /\ UNCHANGED <<bucket_data, bucket_state>>
  <2>1. WorkOK(t, bucket_data, log, last_op)
    <3> HIDE DEF w, s, t
    <3> QED BY <1>1, <1>2, <1>3, <1>4, DocumentIsTaken DEF s, t
  <2> HIDE DEF t
  <2> QED BY <1>1, <1>5, <1>6, <2>1, WorkStep
<1>7. CASE w.pending # {} /\ FlushGroup(c, v)
  <2> DEFINE E == AfterGroup(w, bucket_data)
  <2>1. IsStore(E, log, last_op)
    <3> HIDE DEF w, s, u, v
    <3> QED BY <1>1, <1>2, <1>3, <1>4, <1>7, DocumentStartsGroup DEF s, u, v
  <2>2. WorkOK(v, E, log, last_op)
    <3> HIDE DEF w, s, u, v
    <3> QED BY <1>1, <1>2, <1>3, <1>4, <1>7, DocumentStartsGroup DEF s, u, v
  <2>3. w.pending \subseteq bucket_data
    BY <1>1, <1>4 DEF WorkOK, ReadOK, IsPass
  <2> HIDE DEF v
  <2> QED BY <1>1, <1>2, <1>7, <2>1, <2>2, <2>3, FlushGroupStep
<1> QED BY <1>1, <1>6, <1>7

\* There is nothing left to read.
IsLast(w, D) == \A d \in D : ~IsBeyond(w, d)

\* The scan is through: all documents are done, and what is not a PUT is known of all of them.
LEMMA ScanEnds ==
  ASSUME NEW D, NEW L, NEW n, NEW w, ReadOK(w, w.lastNotPut, D, L, n), w.compactedOp <= n, w.kind = "full",
         w.batch = {}, IsLast(w, D), w.pending = {}, w.ops = {},
         NEW v, v.step \in {"reschedule", "clear", "finalize"}, v.step # "reschedule" => w.compactedOp # 0,
         v.step = "clear" => w.lastNotPut # Null,
         v.lastNotPut = w.lastNotPut, v.clearAt = w.clearAt, v.compactedOp = w.compactedOp
  PROVE  WorkOK(v, D, L, n)
<1>1. FullOK(w, w.lastNotPut, D, L, n)
  BY DEF ReadOK
<1>2. Done(w, D) = D
  BY DEF IsLast, Done, Unread
<1>3. ASSUME v.step = "clear" PROVE ClearOK(v, D)
  <2>1. IsNotPut(OpsOf(D), w.lastNotPut) /\ \E d \in D : DocId(d) = w.clearAt /\ HasId(d.ops, w.lastNotPut)
    <3>1. NotPutOK(w, w.lastNotPut, D)
      BY <1>1 DEF FullOK
    <3> QED BY <1>2, <1>3, <3>1 DEF NotPutOK, HasId, IsNotPut
  <2> QED BY <2>1 DEF ClearOK
<1> QED BY <1>3 DEF WorkOK

LEMMA AfterScanFields ==
  ASSUME NEW u, HasFields(u), NEW v, v = AfterScan(u)
  PROVE  /\ v.step \in {"reschedule", "clear", "finalize"} /\ (v.step # "reschedule" => u.compactedOp # 0)
         /\ (v.step = "clear" => u.lastNotPut # Null)
         /\ v.lastNotPut = u.lastNotPut /\ v.clearAt = u.clearAt /\ v.compactedOp = u.compactedOp
BY DEF AfterScan, HasFields

LEMMA EndScanReads ==
  ASSUME SchedInv, ReadInv, OneWorker, NEW c \in Compactors, EndScan(c)
  PROVE  ReadInv'
<1> DEFINE w == compactors[c]
           u == Flushed(w, w.lastNotPut)
           E == AfterGroup(w, bucket_data)
<1>1. /\ w.step = "read" /\ w.kind = "full" /\ w.batch = {} /\ w.more # TRUE /\ UNCHANGED <<checkpoint, log>>
      /\ \/ w.pending = {} /\ Become(c, AfterScan(w)) /\ UNCHANGED <<bucket_data, bucket_state>>
         \/ w.pending # {} /\ FlushGroup(c, AfterScan(u))
  BY DEF EndScan, Step, storageUnchanged, AfterScan
<1>2. HasFields(w) /\ IsBusy(w)
  BY <1>1, SchedFields DEF IsBusy
<1>3. IsLog(log, last_op) /\ IsStore(bucket_data, log, last_op) /\ WorkOK(w, bucket_data, log, last_op)
  BY ReadFields
<1>4. CompactedOK(bucket_state, last_op)
  BY <1>2, HasState DEF IsBusy
<1>5. ReadOK(w, w.lastNotPut, bucket_data, log, last_op) /\ w.compactedOp <= last_op
  BY <1>1, <1>3 DEF WorkOK
<1>6. CASE w.pending = {} /\ Become(c, AfterScan(w)) /\ UNCHANGED <<bucket_data, bucket_state>>
  <2> DEFINE v == AfterScan(w)
  <2>1. w.ops = {}
    <3>1. IsRewrite(w.ops, OpsOf(w.pending), w.target_op, log)
      BY <1>1, <1>5 DEF ReadOK, FullOK
    <3> QED BY <1>6, <3>1 DEF IsRewrite, OpsOf
  <2>2. /\ v.step \in {"reschedule", "clear", "finalize"} /\ (v.step # "reschedule" => w.compactedOp # 0)
        /\ (v.step = "clear" => w.lastNotPut # Null)
        /\ v.lastNotPut = w.lastNotPut /\ v.clearAt = w.clearAt /\ v.compactedOp = w.compactedOp
    BY <1>2, AfterScanFields
  <2>3. Become(c, v) /\ IsLast(w, bucket_data)
    BY <1>1, <1>5, <1>6 DEF ReadOK, FullOK, IsLast
  <2> HIDE DEF v, w
  <2>4. WorkOK(v, bucket_data, log, last_op)
    BY <1>1, <1>5, <1>6, <2>1, <2>2, <2>3, ScanEnds
  <2> QED BY <1>1, <1>4, <1>6, <2>3, <2>4, WorkStep
<1>7. CASE w.pending # {} /\ FlushGroup(c, AfterScan(u))
  <2> DEFINE v == AfterScan(u)
  <2>1. /\ u.step = w.step /\ u.kind = w.kind /\ u.bound = w.bound /\ u.more = w.more /\ u.batch = w.batch /\ u.seen = w.seen
        /\ u.pending = {} /\ u.ops = {} /\ u.target_op = Null /\ u.compactedOp = w.compactedOp /\ u.lastNotPut = w.lastNotPut
        /\ u.clearAt = (IF w.lastNotPut \in FirstOp(w.ops).op_id .. LastOp(w.ops).op_id THEN LastOp(w.ops).op_id ELSE w.clearAt)
        /\ HasFields(u)
    BY <1>2, FlushedFields
  <2>2. /\ v.step \in {"reschedule", "clear", "finalize"} /\ (v.step # "reschedule" => u.compactedOp # 0)
        /\ (v.step = "clear" => u.lastNotPut # Null)
        /\ v.lastNotPut = u.lastNotPut /\ v.clearAt = u.clearAt /\ v.compactedOp = u.compactedOp
    BY <2>1, AfterScanFields
  <2>3. FlushGroup(c, v)
    BY <1>7
  <2>4. w.pending \subseteq bucket_data
    BY <1>5 DEF ReadOK, IsPass
  <2>5. IsStore(E, log, last_op) /\ WorkOK(v, E, log, last_op)
    <3> HIDE DEF u, v, w, E
    <3>1. IsStore(E, log, last_op)
      BY <1>1, <1>2, <1>3, <1>5, <1>7, <2>1, FlushFull DEF E
    <3>2. ReadOK(u, w.lastNotPut, E, log, last_op)
      BY <1>1, <1>2, <1>3, <1>5, <1>7, <2>1, FlushFull DEF E
    <3>3. IsLast(u, E) /\ u.compactedOp <= last_op /\ u.kind = "full" /\ u.batch = {}
      BY <1>1, <1>5, <2>1, <3>2 DEF ReadOK, FullOK, IsLast
    <3>4. ReadOK(u, u.lastNotPut, E, log, last_op)
      BY <2>1, <3>2
    <3>5. WorkOK(v, E, log, last_op)
      BY <2>1, <2>2, <3>3, <3>4, ScanEnds
    <3> QED BY <3>1, <3>5
  <2> HIDE DEF v
  <2> QED BY <1>1, <1>2, <1>7, <2>3, <2>4, <2>5, FlushGroupStep
<1> QED BY <1>1, <1>6, <1>7

-----------------------------------------------------------------------------
(***************************************************************************)
(* The start of the bucket is cleared, and the compaction ends.            *)
(***************************************************************************)
LEMMA ClearDocs ==
  ASSUME NEW D, NEW L, NEW n, IsLog(L, n), IsStore(D, L, n), NEW docs, docs \subseteq D, docs # {},
         \A d \in docs, e \in D \ docs : IsBefore(d, e),
         NEW x \in OpsOf(docs), \A o \in OpsOf(docs) : o.op_id <= x.op_id => o.op # "PUT",
         NEW prefix, NEW rest, prefix = {o \in OpsOf(docs) : o.op_id <= x.op_id}, rest = OpsOf(docs) \ prefix
  PROVE  IsStore((D \ docs) \cup ClearedDocs(prefix, rest, x.op_id, Targets(docs)), L, n)
<1> DEFINE target == Targets(docs)
           one == Document(OpsOf(docs), target)
           M == (D \ docs) \cup {one}
<1>1. target \in Nat /\ (\A d \in docs : d.target_op <= target) /\ IsTarget(target, L)
  <2>1. DocsOK(docs)
    BY DocsPart DEF IsStore
  <2>2. target \in Nat /\ (\A d \in docs : d.target_op <= target) /\ (target = Null \/ \E d \in docs : d.target_op = target)
    BY <2>1, TargetsMax
  <2>3. \A d \in docs : IsTarget(d.target_op, L)
    BY StoreDoc
  <2> HIDE DEF target
  <2> QED BY <2>2, <2>3 DEF IsTarget
<1>2. IsGapless(docs, D)
  BY DEF IsGapless
<1>3. IsRewrite(OpsOf(docs), OpsOf(docs), target, L)
  BY GroupOps
<1>4. IsStore(M, L, n)
  <2> HIDE DEF target
  <2> QED BY <1>1, <1>2, <1>3, ReplaceStore
<1>5. one.ops = OpsOf(docs) /\ one.target_op = target
  BY DEF Document
<1> HIDE DEF one
<1>6. \A e \in M : e = one \/ IsBefore(one, e)
  <2> SUFFICES ASSUME NEW e \in D \ docs, NEW o \in one.ops, NEW p \in e.ops PROVE o.op_id < p.op_id
    BY DEF IsBefore
  <2>1. PICK d \in docs : o \in d.ops
    BY <1>5, OpsOfHas
  <2> QED BY <2>1 DEF IsBefore
<1>7. one \notin D \ docs
  <2> SUFFICES ASSUME one \in D \ docs PROVE FALSE
    OBVIOUS
  <2>1. PICK d \in docs : x \in d.ops
    BY OpsOfHas
  <2> QED BY <1>5, <2>1, SameDoc
<1>8. M \ {one} = D \ docs
  BY <1>7
<1> HIDE DEF M, target
<1>9. one \in M
  BY DEF M
<1>10. IsStore((M \ {one}) \cup ClearedDocs(prefix, rest, x.op_id, one.target_op), L, n)
  BY <1>4, <1>5, <1>6, <1>9, ClearStore
<1> QED BY <1>5, <1>8, <1>10 DEF target

\* Whole documents before the one in which the prefix ends
LEMMA LeadingIsCleared ==
  ASSUME NEW D, NEW L, NEW n, IsLog(L, n), IsStore(D, L, n), NEW w, HasFields(w), WorkOK(w, D, L, n), w.step = "clear",
         NEW docs, docs = Lowest({d \in D : DocId(d) < w.clearAt}, ClearBatchLimit), docs # {},
         NEW E, E = (D \ docs) \cup {ClearOf(Max(Ids(docs)), OpsOf(docs), docs)}
  PROVE  IsStore(E, L, n) /\ ClearOK(w, E)
<1> DEFINE A == {d \in D : DocId(d) < w.clearAt}
<1>1. ClearOK(w, D) /\ n \in Nat /\ DocsOK(D) /\ InOrder(D)
  BY DEF WorkOK, IsLog, IsStore
<1>2. PICK f \in D : DocId(f) = w.clearAt /\ HasId(f.ops, w.lastNotPut)
  BY <1>1 DEF ClearOK
<1>3. DocsOK(A) /\ InOrder(A) /\ A \subseteq D
  BY <1>1, DocsPart DEF InOrder
<1>4. docs \subseteq A /\ \A d \in docs, e \in A \ docs : IsBefore(d, e)
  BY <1>3, LimitedIs, MongoLimits
<1>5. \A d \in A : d \in D /\ DocId(d) < w.clearAt
  OBVIOUS
<1>6. \A e \in D \ A : ~(DocId(e) < w.clearAt)
  OBVIOUS
<1> HIDE DEF A
<1>7. \A d \in docs, e \in D \ docs : IsBefore(d, e)
  <2> SUFFICES ASSUME NEW d \in docs, NEW e \in D \ docs PROVE IsBefore(d, e)
    OBVIOUS
  <2>1. CASE e \in A
    BY <1>4, <2>1
  <2>2. CASE e \notin A
    <3>1. d \in D /\ DocId(d) < w.clearAt /\ ~(DocId(e) < w.clearAt) /\ DocId(f) = w.clearAt
      BY <1>2, <1>4, <1>5, <1>6, <2>2
    <3>2. DocId(d) \in Nat /\ DocId(e) \in Nat /\ DocId(f) \in Nat
      BY <3>1, StoreOrder
    <3>3. DocId(d) < DocId(e)
      BY <3>1, <3>2
    <3> QED BY <3>1, <3>3, StoreOrder
  <2> QED BY <2>1, <2>2
<1>8. \A d \in docs : d \in D /\ IsBefore(d, f)
  <2> SUFFICES ASSUME NEW d \in docs PROVE d \in D /\ IsBefore(d, f)
    OBVIOUS
  <2>1. d \in D /\ DocId(d) < DocId(f)
    BY <1>2, <1>4, <1>5
  <2> QED BY <2>1, StoreOrder
<1>9. f \notin docs
  <2>1. ~(DocId(f) < DocId(f))
    BY StoreOrder
  <2> QED BY <1>2, <1>4, <1>5, <2>1
<1>10. DocsOK(docs)
  BY <1>3, <1>4, DocsPart
<1>11. Max(Ids(docs)) \in Ids(docs) /\ \A id \in Ids(docs) : id <= Max(Ids(docs))
  <2>1. IsFiniteSet(Ids(docs)) /\ Ids(docs) \subseteq Nat /\ Ids(docs) # {}
    BY <1>10, IdsOK DEF Ids
  <2>2. Max(Ids(docs)) \in Ids(docs) /\ \A id \in Ids(docs) : Max(Ids(docs)) >= id
    BY <2>1, MaxIs
  <2> QED BY <2>1, <2>2
<1>12. PICK h \in docs : DocId(h) = Max(Ids(docs))
  BY <1>11, IdOfDoc
<1>13. PICK x \in h.ops : x.op_id = Max(Ids(docs))
  <2>1. h \in Doc
    BY <1>10 DEF DocsOK
  <2> QED BY <1>12, <2>1, DocEnds DEF HasId
<1>14. x \in OpsOf(docs)
  BY <1>13, OpsOfHas
<1>15. ASSUME NEW o \in OpsOf(docs) PROVE o.op_id <= x.op_id /\ o.op # "PUT" /\ o \in Op
  <2>1. PICK d \in docs : o \in d.ops
    BY OpsOfHas
  <2>2. d \in D /\ d \in Doc /\ o \in Op /\ o.op_id \in Nat
    BY <1>8, <2>1, StoreDoc
  <2>3. o.op_id <= DocId(d) /\ DocId(d) \in Nat
    BY <2>1, <2>2, DocEnds
  <2>4. DocId(d) \in Ids(docs)
    BY IdOfDoc
  <2>5. DocId(d) <= x.op_id /\ x.op_id \in Nat
    BY <1>8, <1>11, <1>13, <2>4, StoreDoc
  <2>6. PICK p \in f.ops : p.op_id = w.lastNotPut /\ p.op_id \in Nat
    BY <1>2, StoreDoc DEF HasId
  <2>7. o.op_id < p.op_id
    BY <1>8, <2>1, <2>6 DEF IsBefore
  <2>8. o \in OpsOf(D)
    BY <2>1, <2>2, OpsOfHas
  <2>9. o.op # "PUT"
    BY <1>1, <2>2, <2>6, <2>7, <2>8 DEF ClearOK, IsNotPut
  <2> QED BY <2>2, <2>3, <2>5, <2>9
<1>16. {o \in OpsOf(docs) : o.op_id <= x.op_id} = OpsOf(docs) /\ OpsOf(docs) \ OpsOf(docs) = {}
  BY <1>15
<1>17. docs \subseteq D
  BY <1>8
<1>18. IsStore((D \ docs) \cup ClearedDocs(OpsOf(docs), {}, x.op_id, Targets(docs)), L, n)
  <2> DEFINE prefix == OpsOf(docs)
             rest == {}
  <2>1. prefix = {o \in OpsOf(docs) : o.op_id <= x.op_id} /\ rest = OpsOf(docs) \ prefix
    BY <1>16
  <2>2. \A o \in OpsOf(docs) : o.op_id <= x.op_id => o.op # "PUT"
    BY <1>15
  <2> HIDE DEF prefix, rest
  <2>3. IsStore((D \ docs) \cup ClearedDocs(prefix, rest, x.op_id, Targets(docs)), L, n)
    BY <1>7, <1>14, <1>17, <2>1, <2>2, ClearDocs
  <2> QED BY <2>3 DEF prefix, rest
<1>19. ClearedDocs(OpsOf(docs), {}, x.op_id, Targets(docs)) = {ClearOf(Max(Ids(docs)), OpsOf(docs), docs)}
  BY <1>13 DEF ClearedDocs, ClearOf, ClearOp_
<1>20. IsStore(E, L, n)
  BY <1>18, <1>19
<1>21. IsNotPut(OpsOf(E), w.lastNotPut)
  <2> SUFFICES ASSUME NEW o \in OpsOf(E), o.op_id <= w.lastNotPut PROVE o.op # "PUT"
    BY DEF IsNotPut
  <2>1. PICK d \in E : o \in d.ops
    BY OpsOfHas
  <2>2. CASE d \in D
    <3>1. o \in OpsOf(D)
      BY <2>1, <2>2, OpsOfHas
    <3> QED BY <1>1, <3>1 DEF ClearOK, IsNotPut
  <2>3. CASE d = ClearOf(Max(Ids(docs)), OpsOf(docs), docs)
    <3>1. o.op = "CLEAR"
      BY <2>1, <2>3 DEF ClearOf, Document
    <3> QED BY <3>1
  <2> QED BY <2>1, <2>2, <2>3
<1>22. f \in E
  BY <1>9
<1>23. ClearOK(w, E)
  BY <1>2, <1>21, <1>22 DEF ClearOK
<1> QED BY <1>20, <1>23

LEMMA ClearLeadingReads ==
  ASSUME SchedInv, ReadInv, OneWorker, NEW c \in Compactors, ClearLeading(c)
  PROVE  ReadInv'
<1> DEFINE w == compactors[c]
           docs == Lowest({d \in bucket_data : DocId(d) < w.clearAt}, ClearBatchLimit)
           new == {ClearOf(Max(Ids(docs)), OpsOf(docs), docs)}
           stats == Plus(Minus(w.stats, Stats(docs)), Stats(new))
           u == WithStep(w, "boundary")
           v == WithStats(w, stats)
           E == (bucket_data \ docs) \cup new
<1>1. /\ w.step = "clear" /\ UNCHANGED <<checkpoint, log>>
      /\ \/ Throw(c) /\ UNCHANGED bucket_data
         \/ Become(c, u) /\ UNCHANGED <<bucket_data, bucket_state>>
         \/ docs # {} /\ bucket_data' = E /\ Become(c, v) /\ UNCHANGED bucket_state
  BY DEF ClearLeading, Step, storageUnchanged, Cleared, WithStep, WithStats
<1>2. HasFields(w) /\ IsBusy(w)
  BY <1>1, SchedFields DEF IsBusy
<1>3. IsLog(log, last_op) /\ IsStore(bucket_data, log, last_op) /\ WorkOK(w, bucket_data, log, last_op)
  BY ReadFields
<1>4. CompactedOK(bucket_state, last_op)
  BY <1>2, HasState DEF IsBusy
<1>5. w.compactedOp <= last_op /\ w.compactedOp # 0 /\ ClearOK(w, bucket_data)
  BY <1>1, <1>3 DEF WorkOK
<1>6. CASE Throw(c) /\ UNCHANGED bucket_data
  BY <1>1, <1>6, ThrowStep
<1>7. CASE Become(c, u) /\ UNCHANGED <<bucket_data, bucket_state>>
  <2>1. u.step = "boundary" /\ u.clearAt = w.clearAt /\ u.lastNotPut = w.lastNotPut /\ u.compactedOp = w.compactedOp
    BY <1>2 DEF HasFields, WithStep
  <2> HIDE DEF u
  <2>2. WorkOK(u, bucket_data, log, last_op)
    BY <1>5, <2>1 DEF WorkOK, ClearOK
  <2> QED BY <1>1, <1>4, <1>7, <2>2, WorkStep
<1>8. CASE docs # {} /\ bucket_data' = E /\ Become(c, v) /\ UNCHANGED bucket_state
  <2>1. IsStore(E, log, last_op) /\ ClearOK(w, E)
    <3> HIDE DEF w, docs
    <3> QED BY <1>1, <1>2, <1>3, <1>8, LeadingIsCleared DEF docs
  <2> HIDE DEF stats
  <2>2. v.step = "clear" /\ v.clearAt = w.clearAt /\ v.lastNotPut = w.lastNotPut /\ v.compactedOp = w.compactedOp
    BY <1>1, <1>2 DEF HasFields, WithStats
  <2> HIDE DEF v, E
  <2>3. WorkOK(v, E, log, last_op)
    BY <1>5, <2>1, <2>2 DEF WorkOK, ClearOK
  <2> QED BY <1>1, <1>2, <1>8, <2>1, <2>3, StoreStep
<1> QED BY <1>1, <1>6, <1>7, <1>8

\* The document in which the prefix ends
LEMMA BoundaryIsCleared ==
  ASSUME NEW D, NEW L, NEW n, IsLog(L, n), IsStore(D, L, n), NEW w, ClearOK(w, D),
         NEW docs, docs = {d \in D : DocId(d) <= w.clearAt},
         NEW prefix, NEW rest, prefix = {o \in OpsOf(docs) : o.op_id <= w.lastNotPut}, rest = OpsOf(docs) \ prefix
  PROVE  IsStore((D \ docs) \cup ({ClearOf(w.lastNotPut, prefix, docs)} \cup
                                  (IF rest = {} THEN {} ELSE {Document(rest, Targets(docs))})), L, n)
<1>1. PICK f \in D : DocId(f) = w.clearAt /\ HasId(f.ops, w.lastNotPut)
  BY DEF ClearOK
<1>2. PICK x \in f.ops : x.op_id = w.lastNotPut
  BY <1>1 DEF HasId
<1>3. \A d \in D : DocId(d) \in Nat
  BY StoreOrder
<1>4. f \in docs /\ docs \subseteq D
  BY <1>1, <1>3
<1>5. ASSUME NEW d \in docs, NEW e \in D \ docs PROVE IsBefore(d, e)
  <2>1. d \in D /\ DocId(d) <= w.clearAt /\ ~(DocId(e) <= w.clearAt)
    OBVIOUS
  <2>2. DocId(d) < DocId(e)
    BY <1>1, <1>3, <2>1
  <2> QED BY <2>1, <2>2, StoreOrder
<1>6. x \in OpsOf(docs)
  BY <1>4, OpsOfHas
<1>7. \A o \in OpsOf(docs) : o \in OpsOf(D)
  BY <1>4 DEF OpsOf
<1>8. \A o \in OpsOf(docs) : o.op_id <= x.op_id => o.op # "PUT"
  BY <1>2, <1>7 DEF ClearOK, IsNotPut
<1>9. prefix = {o \in OpsOf(docs) : o.op_id <= x.op_id}
  BY <1>2
<1> HIDE DEF Targets
<1>10. IsStore((D \ docs) \cup ClearedDocs(prefix, rest, x.op_id, Targets(docs)), L, n)
  BY <1>4, <1>5, <1>6, <1>8, <1>9, ClearDocs
<1>11. ClearedDocs(prefix, rest, x.op_id, Targets(docs))
         = {ClearOf(w.lastNotPut, prefix, docs)} \cup (IF rest = {} THEN {} ELSE {Document(rest, Targets(docs))})
  BY <1>2 DEF ClearedDocs, ClearOf, ClearOp_
<1> QED BY <1>10, <1>11

LEMMA ClearBoundaryReads ==
  ASSUME SchedInv, ReadInv, OneWorker, NEW c \in Compactors, ClearBoundary(c)
  PROVE  ReadInv'
<1> DEFINE w == compactors[c]
           docs == {d \in bucket_data : DocId(d) <= w.clearAt}
           prefix == {o \in OpsOf(docs) : o.op_id <= w.lastNotPut}
           rest == OpsOf(docs) \ prefix
           new == {ClearOf(w.lastNotPut, prefix, docs)} \cup
                  (IF rest = {} THEN {} ELSE {Document(rest, Targets(docs))})
           stats == Plus(Minus(w.stats, Stats(docs)), Stats(new))
           v == WithBoth(w, "finalize", stats)
           E == (bucket_data \ docs) \cup new
<1>1. /\ w.step = "boundary" /\ UNCHANGED <<checkpoint, log>>
      /\ \/ Throw(c) /\ UNCHANGED bucket_data
         \/ bucket_data' = E /\ Become(c, [Cleared(w, docs, new) EXCEPT !.step = "finalize"]) /\ UNCHANGED bucket_state
  BY DEF ClearBoundary, Step, storageUnchanged
<1>2. HasFields(w) /\ IsBusy(w)
  BY <1>1, SchedFields DEF IsBusy
<1>3. IsLog(log, last_op) /\ IsStore(bucket_data, log, last_op) /\ WorkOK(w, bucket_data, log, last_op)
  BY ReadFields
<1>4. w.compactedOp <= last_op /\ w.compactedOp # 0 /\ ClearOK(w, bucket_data)
  BY <1>1, <1>3 DEF WorkOK
<1>5. CASE Throw(c) /\ UNCHANGED bucket_data
  BY <1>1, <1>5, ThrowStep
<1>6. CASE bucket_data' = E /\ Become(c, [Cleared(w, docs, new) EXCEPT !.step = "finalize"]) /\ UNCHANGED bucket_state
  <2>1. IsStore(E, log, last_op)
    <3> HIDE DEF w, docs
    <3> QED BY <1>3, <1>4, BoundaryIsCleared DEF docs
  <2>2. Become(c, v)
    <3> HIDE DEF docs, new, w
    <3>1. v = [Cleared(w, docs, new) EXCEPT !.step = "finalize"]
      BY <1>2 DEF WithBoth, Cleared, HasFields
    <3> HIDE DEF v
    <3> QED BY <1>6, <3>1
  <2> HIDE DEF stats
  <2>3. v.step = "finalize" /\ v.compactedOp = w.compactedOp
    BY <1>2 DEF HasFields, WithBoth
  <2> HIDE DEF v, E
  <2>4. WorkOK(v, E, log, last_op)
    BY <1>4, <2>3 DEF WorkOK
  <2> QED BY <1>1, <1>2, <1>6, <2>1, <2>2, <2>4, StoreStep
<1> QED BY <1>1, <1>5, <1>6

LEMMA FinalizeReads ==
  ASSUME SchedInv, ReadInv, NEW c \in Compactors, Finalize(c)
  PROVE  ReadInv'
<1> DEFINE w == compactors[c]
           t == Finalized(w)
<1>1. w.step = "finalize" /\ Finish(c, t) /\ UNCHANGED <<bucket_data, checkpoint, log>>
  BY DEF Finalize, Step, storageUnchanged
<1>2. /\ IsScheduled(bucket_state, last_op) /\ LeaseOK(bucket_state, compactors) /\ last_op \in Nat
      /\ HasFields(w) /\ IsState(w.state) /\ w.step # "idle"
  BY <1>1, SchedFields DEF IsWorker
<1>3. WorkOK(w, bucket_data, log, last_op) /\ w.compactedOp \in 1..last_op
  <2>1. WorkOK(w, bucket_data, log, last_op) /\ w.compactedOp \in Nat
    BY <1>2, ReadFields DEF HasFields
  <2> QED BY <1>1, <1>2, <2>1 DEF WorkOK
<1>4. Holds(c) => bucket_state.first_uncompacted_write = TRUE
  BY <1>1, <1>2 DEF LeaseOK, IsBusy, IsHeldBy, Holds
<1>5. CASE Holds(c)
  <2>1. IsScheduled(t, last_op)
    BY <1>2, <1>4, <1>5, FinalizedIs
  <2>2. t.compacted_state.op_id = w.compactedOp
    BY <1>2 DEF Finalized, IsScheduled, IsState
  <2> HIDE DEF t
  <2>3. CompactedOK(t, last_op)
    BY <1>3, <2>2 DEF CompactedOK
  <2>4. IsState(t)
    BY <2>1 DEF IsScheduled
  <2> QED BY <1>1, <1>2, <2>3, <2>4, FinishStep
<1>6. CASE ~Holds(c)
  <2>1. Become(c, Idle) /\ UNCHANGED bucket_state
    BY <1>1, <1>6 DEF Finish
  <2> QED BY <1>1, <1>2, <2>1, StopStep
<1> QED BY <1>5, <1>6

-----------------------------------------------------------------------------
LEMMA ReadStutters ==
  ASSUME ReadInv, UNCHANGED vars
  PROVE  ReadInv'
<1>1. last_op' = last_op
  BY DEF vars, last_op
<1> QED BY <1>1 DEF vars, ReadInv

LEMMA ReadCompactorStep ==
  ASSUME SchedInv, ReadInv, OneWorker, NEW c \in Compactors, CompactorStep(c)
  PROVE  ReadInv'
<1>1. CASE RescheduleUnclaimed(c) \/ RescheduleClaimed(c)
  BY <1>1, RescheduleUnclaimedReads, RescheduleClaimedReads
<1>2. CASE ReadBatch(c) \/ CompactDocument(c) \/ EndScan(c)
  BY <1>2, ReadBatchReads, CompactDocumentReads, EndScanReads
<1>3. CASE ClearLeading(c) \/ ClearBoundary(c)
  BY <1>3, ClearLeadingReads, ClearBoundaryReads
<1>4. CASE ReadChunks(c) \/ AddChunk(c) \/ ReadOps(c)
  BY <1>4, ReadChunksReads, AddChunkReads, ReadOpsReads
<1>5. CASE MergeChunks(c) \/ EndChunks(c) \/ Finalize(c)
  BY <1>5, MergeChunksReads, EndChunksReads, FinalizeReads
<1> QED BY <1>1, <1>2, <1>3, <1>4, <1>5 DEF CompactorStep

LEMMA ReadNext ==
  ASSUME SchedInv, ReadInv, OneWorker, [MongoNext]_vars
  PROVE  ReadInv'
<1>1. CASE Flush
  BY <1>1, FlushReads
<1>2. CASE Commit
  BY <1>2, CommitReads
<1>3. CASE Expire
  BY <1>3, ExpireReads
<1>4. ASSUME NEW c \in Compactors, Inspect(c) \/ \E kind \in {"full", "chunks", "none"} : Claim(c, kind)
      PROVE  ReadInv'
  BY <1>4, InspectReads, ClaimReads
<1>5. ASSUME NEW c \in Compactors, CompactorStep(c)
      PROVE  ReadInv'
  BY <1>5, ReadCompactorStep
<1>6. ASSUME NEW c \in Compactors, Renew(c) \/ Fail(c) \/ Crash(c)
      PROVE  ReadInv'
  BY <1>6, RenewReads, FailReads
<1>7. CASE UNCHANGED vars
  BY <1>7, ReadStutters
<1> QED BY <1>1, <1>2, <1>3, <1>4, <1>5, <1>6, <1>7 DEF MongoNext

LEMMA ReadInit == MongoInit => ReadInv
<1> SUFFICES ASSUME MongoInit PROVE ReadInv
  OBVIOUS
<1>1. log = {} /\ bucket_data = {} /\ checkpoint = 0 /\ bucket_state = None /\ \A c \in Compactors : compactors[c] = Idle
  BY DEF MongoInit
<1>2. last_op = 0
  BY <1>1, FS_EmptySet DEF last_op
<1>3. View({}) = {}
  BY DEF View
<1>4. IsOps({})
  BY FS_EmptySet DEF IsOps
<1>5. IsLog(log, last_op)
  BY <1>1, <1>2, <1>4 DEF IsLog
<1>6. LogOK({}, {})
  BY DEF LogOK, KeepsWritten, MovesSuperseded, ClearsStart, NothingMissing, TargetsWritten
<1>7. IsStore(bucket_data, log, last_op)
  BY <1>1, <1>3, <1>6, FS_EmptySet DEF IsStore, DocsOK, InOrder
<1>8. \A c \in Compactors : compactors[c].step = "idle" /\ WorkOK(compactors[c], bucket_data, log, last_op)
  <2>1. 0 \in Nat /\ Idle.step = "idle"
    BY DEF Idle
  <2>2. WorkOK(Idle, bucket_data, log, last_op)
    BY <1>2, <2>1, IdleIsFine
  <2> QED BY <1>1, <2>1, <2>2
<1> QED BY <1>1, <1>2, <1>5, <1>7, <1>8 DEF ReadInv

(***************************************************************************)
(* The invariant is kept while no two workers have claimed the bucket.     *)
(***************************************************************************)
LEMMA ReadInvariant == MongoSpec /\ []OneWorker => []ReadInv
<1>1. SchedInv /\ ReadInv /\ OneWorker /\ [MongoNext]_vars => ReadInv'
  BY ReadNext
<1> QED BY <1>1, ReadInit, SchedInvariant, PTL DEF MongoSpec

(***************************************************************************)
(* Reads are consistent at every checkpoint, whatever compaction and       *)
(* replication do in between: for every position and every later           *)
(* checkpoint that no CLEAR has overtaken, the documents in range give the *)
(* client the bucket as it was at the checkpoint, or a target_op past it,  *)
(* while at most one worker at a time has claimed the bucket. Two workers  *)
(* come to it only after a lease that expires while its holder is at work, *)
(* and then a run has to do.                                               *)
(***************************************************************************)
THEOREM CompactedReadsAreConsistent == MongoSpec /\ []OneWorker => []ReadsConsistent
<1>1. ReadInv => ReadsConsistent
  <2> SUFFICES ASSUME ReadInv PROVE ReadsConsistent
    OBVIOUS
  <2> DEFINE original == [a \in 0..checkpoint |-> Original(a)]
  <2>1. SUFFICES ASSUME NEW k \in 0..checkpoint, ~IsOvertaken(k), NEW a \in 0..k PROVE IsServed(a, k, original)
    BY DEF ReadsConsistent
  <2>2. IsLog(log, last_op) /\ IsStore(bucket_data, log, last_op) /\ checkpoint \in Nat /\ last_op \in Nat
    BY DEF ReadInv, IsLog
  <2>3. k \in Nat /\ a \in Nat /\ a <= k /\ a \in 0..checkpoint
    BY <2>2
  <2>4. original[a] = Reduce(EmptyBucket, Between(log, 0, a)) /\ original[k] = Reduce(EmptyBucket, Between(log, 0, k))
    BY <2>3 DEF Original
  <2> HIDE DEF original
  <2>5. InRange(a, k) = Sent(bucket_data, a, k)
    BY DEF InRange, Sent
  <2>6. Targets(InRange(a, k)) \in Nat
    <3>1. DocsOK(InRange(a, k))
      BY <2>2, DocsPart DEF InRange, IsStore
    <3> QED BY <3>1, TargetsMax
  <2>7. \A d \in bucket_data : HasClear(d) => MinOp(d) <= k
    <3> SUFFICES ASSUME NEW d \in bucket_data, HasClear(d) PROVE MinOp(d) <= k
      OBVIOUS
    <3>1. ~(MinOp(d) > k)
      BY <2>1 DEF IsOvertaken
    <3>2. MinOp(d) \in Nat
      BY <2>2, StoreIds
    <3> QED BY <2>3, <3>1, <3>2
  <2>8. CASE Targets(InRange(a, k)) > k
    BY <2>8 DEF IsServed
  <2>9. CASE ~(Targets(InRange(a, k)) > k)
    <3>1. Targets(Sent(bucket_data, a, k)) <= k
      BY <2>3, <2>5, <2>6, <2>9
    <3>2. Reduce(Reduce(EmptyBucket, Between(log, 0, a)), Between(OpsOf(Sent(bucket_data, a, k)), a, k))
            = Reduce(EmptyBucket, Between(log, 0, k))
      BY <2>2, <2>3, <2>7, <3>1, ServedIs
    <3> QED BY <2>4, <2>5, <3>2 DEF IsServed
  <2> QED BY <2>8, <2>9
<1> QED BY <1>1, ReadInvariant, PTL

-----------------------------------------------------------------------------
\* A cached prefix that ends at p, and the documents that reach beyond it, up to k: combined, without
\* what both of them count, they are a prefix that ends at k.
LEMMA CombinedStats ==
  ASSUME NEW D, NEW L, NEW n, IsLog(L, n), IsStore(D, L, n), NEW p \in Nat, NEW k \in Nat, IsWhole(D, k),
         NEW T, T = {d \in D : p <= DocId(d) /\ DocId(d) <= k}, NEW low, low = LowOps(T, p), low # {},
         NEW previous, IsPrefix(previous, p, D, L), NEW overlap, IsOverlap(overlap, low),
         NEW s, s = CombineChunkStats(previous, Stats(T), overlap)
  PROVE  IsPrefix(s, k, D, L)
<1>1. /\ Stats(T).checksum = SumChecksums(OpsOf(T)) /\ Stats(T).count = Cardinality(OpsOf(T))
      /\ Stats(T).chunks = Cardinality(T) /\ IsFiniteSet(T) /\ Stats(T).chunks \in Nat
  BY PartStats DEF DocsOK
<1>2. T # {}
  BY DEF LowOps, OpsOf
<1>3. Cardinality(T) > 0
  BY <1>1, <1>2, FS_EmptySet
<1>4. /\ s.checksum = (previous.checksum - overlap.checksum) + Stats(T).checksum
      /\ s.count = (previous.count - overlap.count) + Stats(T).count
      /\ s.chunks = (previous.chunks - overlap.chunks) + Stats(T).chunks
  <2> DEFINE q == [checksum |-> previous.checksum, count |-> previous.count, chunks |-> previous.chunks]
  <2>1. q.checksum = previous.checksum /\ q.count = previous.count /\ q.chunks = previous.chunks
    OBVIOUS
  <2>2. s = Plus(Minus(q, overlap), Stats(T))
    BY DEF CombineChunkStats
  <2> HIDE DEF q
  <2> QED BY <2>1, <2>2, PlusIs, MinusIs
<1>5. /\ previous.checksum = SumChecksums(Between(L, 0, p)) /\ previous.count \in Nat /\ previous.chunks \in Nat /\ previous.chunks > 0
      /\ Cardinality(IdsUpTo(D, p)) <= previous.count
      /\ overlap.checksum = SumChecksums(low) /\ overlap.count = Cardinality(low) /\ overlap.chunks = 1
  BY DEF IsPrefix, IsOverlap
<1>6. /\ SumChecksums(Between(L, 0, p)) + (SumChecksums(OpsOf(T)) - SumChecksums(low)) = SumChecksums(Between(L, 0, k))
      /\ Cardinality(IdsUpTo(D, k)) <= Cardinality(IdsUpTo(D, p)) + (Cardinality(OpsOf(T)) - Cardinality(low))
      /\ Cardinality(low) \in Nat /\ Cardinality(OpsOf(T)) - Cardinality(low) \in Nat
      /\ SumChecksums(low) \in Nat /\ SumChecksums(OpsOf(T)) \in Nat
      /\ Cardinality(IdsUpTo(D, k)) \in Nat /\ Cardinality(IdsUpTo(D, p)) \in Nat
  BY CombinedSums
<1>7. SumChecksums(Between(L, 0, p)) \in Nat /\ Cardinality(OpsOf(T)) \in Nat
  <2>1. IsOps(L)
    BY DEF IsLog
  <2>2. SumChecksums(Between(L, 0, p)) \in Nat
    BY <2>1, BetweenIs, SumType
  <2>3. Cardinality(OpsOf(T)) \in Nat
    BY PartStats
  <2> QED BY <2>2, <2>3
<1>8. s.checksum = SumChecksums(Between(L, 0, k))
  BY <1>1, <1>4, <1>5, <1>6, <1>7
<1>9. s.count \in Nat /\ Cardinality(IdsUpTo(D, k)) <= s.count
  BY <1>1, <1>4, <1>5, <1>6, <1>7
<1>10. s.chunks \in Nat /\ s.chunks > 0
  BY <1>1, <1>3, <1>4, <1>5
<1> QED BY <1>8, <1>9, <1>10 DEF IsPrefix

-----------------------------------------------------------------------------
(***************************************************************************)
(* The checksum a reader gets, from a cached one that is right.            *)
(***************************************************************************)
LEMMA ChecksumAt ==
  ASSUME NEW n, IsLog(log, n), IsStore(bucket_data, log, n), NEW a \in Nat, NEW k \in Nat, a <= k,
         ~IsOvertaken(k), ~IsInvalidated(0, k), NEW cached, cached = SumChecksums(Between(log, 0, a))
  PROVE  ChecksumAfter(cached, a, k) = SumChecksums(Between(log, 0, k))
<1> DEFINE D == bucket_data
           docs == Sent(D, a, k)
           all == Sent(D, 0, k)
           sum == SumChecksums(OpsOf(docs))
           true == SumChecksums(Between(log, 0, k))
<1>0. n \in Nat /\ IsOps(log)
  BY DEF IsLog
<1>1. InRange(a, k) = docs /\ InRange(0, k) = all
  BY DEF InRange, Sent
<1>2. \A d \in D : DocId(d) \in Nat /\ DocId(d) > 0 /\ MinOp(d) \in Nat /\ MinOp(d) > 0 /\ MinOp(d) <= DocId(d)
  <2> SUFFICES ASSUME NEW d \in D
               PROVE  DocId(d) \in Nat /\ DocId(d) > 0 /\ MinOp(d) \in Nat /\ MinOp(d) > 0 /\ MinOp(d) <= DocId(d)
    OBVIOUS
  <2>1. PICK o \in d.ops : o.op_id = MinOp(d)
    BY StoreDoc, DocEnds DEF HasId
  <2>2. o.op_id > 0
    BY <2>1, StoreDoc
  <2> QED BY <1>0, <2>1, <2>2, StoreIds
<1>3. \A d \in D : HasClear(d) => MinOp(d) <= k
  BY <1>2 DEF IsOvertaken
<1>4. \A d \in all : DocId(d) <= k
  BY <1>1, <1>2 DEF IsInvalidated, Sent
<1>5. docs \subseteq all /\ all \subseteq D
  BY <1>2 DEF Sent
<1>6. SumChecksums(OpsOf(all)) = true
  <2>1. \A d \in all : 0 < MinOp(d) /\ DocId(d) <= k
    BY <1>2, <1>4, <1>5
  <2> QED BY <1>3, <2>1, SentSum
<1>7. CASE IsStraddled(a, k)
  <2>1. ChecksumAfter(cached, a, k) = SumChecksums(OpsOf(InRange(0, k)))
    BY <1>7 DEF ChecksumAfter
  <2> QED BY <1>1, <1>6, <2>1
<1>8. CASE ~IsStraddled(a, k)
  <2>1. \A d \in docs : a < MinOp(d) /\ DocId(d) <= k
    BY <1>1, <1>2, <1>4, <1>5, <1>8 DEF IsStraddled
  <2>2. sum = IF \E d \in docs : HasClear(d) THEN true ELSE SumChecksums(Between(log, a, k))
    BY <1>3, <2>1, SentSum
  <2>3. ChecksumAfter(cached, a, k) = IF \E d \in docs : HasClear(d) THEN sum ELSE cached + sum
    BY <1>1, <1>8 DEF ChecksumAfter
  <2>4. true = SumChecksums(Between(log, 0, a)) + SumChecksums(Between(log, a, k))
    BY <1>0, SumSplit
  <2>5. ChecksumAfter(cached, a, k) = true
    <3> HIDE DEF sum, true, docs
    <3> QED BY <2>2, <2>3, <2>4
  <2> QED BY <2>5
<1> QED BY <1>7, <1>8

\* What a reader finds in the state of the bucket
PrefixOK(p, docs, L) == IsPrefix(p, p.op_id, docs, L)
StateOK(s, docs, L) ==
  /\ s.count \in Int /\ s.chunks \in Int /\ s.last_full_compact \in Nat
  /\ s.compacted_state = None \/ (s.compacted_state \in CompactedStates /\ PrefixOK(s.compacted_state, docs, L))

LEMMA StateIsThere ==
  ASSUME NEW s, IsState(s), NEW D, NEW L, StateOK(s, D, L)
  PROVE  s # None
<1>1. s.count \in Int /\ s.chunks \in Int /\ s.last_full_compact \in Nat /\ s.compacted_state \in CompactedStates \cup {None}
  BY DEF StateOK
<1>2. s \in BucketStates
  BY <1>1 DEF IsState, BucketStates, Lease, Leases
<1> QED BY <1>2, StateAssumption

LEMMA ChecksumsAreRight ==
  ASSUME ReadInv, bucket_state # None => StateOK(bucket_state, bucket_data, log)
  PROVE  ChecksumsMatch
<1> DEFINE state == IF bucket_state = None THEN None ELSE bucket_state.compacted_state
<1>1. /\ IsLog(log, last_op) /\ IsStore(bucket_data, log, last_op) /\ checkpoint \in Nat /\ last_op \in Nat
  BY DEF ReadInv, IsLog
<1>2. state # None => /\ state.op_id \in Nat /\ state.checksum = SumChecksums(Between(log, 0, state.op_id))
  <2> SUFFICES ASSUME state # None
               PROVE  state.op_id \in Nat /\ state.checksum = SumChecksums(Between(log, 0, state.op_id))
    OBVIOUS
  <2>1. bucket_state # None /\ state = bucket_state.compacted_state
    OBVIOUS
  <2>2. CompactedOK(bucket_state, last_op) /\ StateOK(bucket_state, bucket_data, log)
    BY <2>1 DEF ReadInv
  <2> QED BY <1>1, <2>1, <2>2 DEF CompactedOK, StateOK, PrefixOK, IsPrefix
<1> HIDE DEF state
<1>3. ASSUME NEW k \in 0..checkpoint, ~IsOvertaken(k), ~IsInvalidated(0, k)
      PROVE  /\ \A a \in 0..k : ChecksumAfter(TrueChecksum(a), a, k) = TrueChecksum(k)
             /\ state # None /\ state.op_id <= k => ChecksumAfter(state.checksum, state.op_id, k) = TrueChecksum(k)
  <2>0. k \in Nat /\ TrueChecksum(k) = SumChecksums(Between(log, 0, k))
    BY <1>1 DEF TrueChecksum
  <2>1. ASSUME NEW a \in 0..k PROVE ChecksumAfter(TrueChecksum(a), a, k) = TrueChecksum(k)
    <3>1. a \in Nat /\ a <= k /\ TrueChecksum(a) = SumChecksums(Between(log, 0, a))
      BY <2>0 DEF TrueChecksum
    <3> QED BY <1>1, <1>3, <2>0, <3>1, ChecksumAt
  <2>2. ASSUME state # None, state.op_id <= k PROVE ChecksumAfter(state.checksum, state.op_id, k) = TrueChecksum(k)
    BY <1>1, <1>2, <1>3, <2>0, <2>2, ChecksumAt
  <2> QED BY <2>1, <2>2
<1> QED BY <1>3 DEF ChecksumsMatch, state

-----------------------------------------------------------------------------
(***************************************************************************)
(* The statistics of a worker, and of the state of the bucket. A full      *)
(* compaction counts the documents it is done with up to the one it began  *)
(* with; a chunk compaction those from the end of the cached prefix on.    *)
(***************************************************************************)
Base(w) == IF w.previous = None THEN 0 ELSE w.previous.op_id - 1

FullStats(w, docs) ==
  /\ w.stats = Stats(DocsUpTo(Done(w, docs), w.compactedOp))
  /\ w.clearAt \in Nat /\ w.clearAt <= w.compactedOp
  /\ w.bound <= w.state.last_op + 1
  /\ w.compactedOp = 0 => w.batch = {} /\ w.pending = {}
  /\ w.compactedOp # 0 => \A d \in Unread(w, docs) \cup w.pending : DocId(d) <= w.compactedOp

\* What the cached prefix and the documents that are read have in common
Low(w, docs) == LowOps(DocsAfter(Done(w, docs) \cup w.pending, Base(w)), w.previous.op_id)

OverlapOK(w, docs, L) ==
  /\ w.previous.op_id \in Nat \ {0} /\ w.previous.op_id <= w.state.last_op
  /\ PrefixOK(w.previous, docs, L)
  /\ w.verify = (w.compactedOp = 0)
  /\ IsOverlap(w.overlap, Low(w, docs))
  /\ w.compactedOp # 0 =>
       /\ \A d \in Unread(w, docs) : DocId(d) = w.previous.op_id \/ \A o \in d.ops : o.op_id > w.previous.op_id
       /\ Low(w, docs) # {} \/ \E d \in w.batch : DocId(d) = w.previous.op_id

ChunkStats(w, docs, L) ==
  /\ w.stats = Stats(DocsAfter(Done(w, docs), Base(w)))
  /\ \A d \in w.batch \cup w.pending : DocId(d) > Base(w)
  /\ w.compactedOp = 0 => w.batch = {} /\ w.pending = {} /\ w.bound = Base(w)
  /\ w.compactedOp # 0 => w.compactedOp = w.bound /\ Base(w) < w.bound
  /\ w.target <= w.state.last_op
  /\ w.step = "merge" \/ w.changed = FALSE
  /\ IF w.previous = None THEN w.verify = FALSE ELSE OverlapOK(w, docs, L)

ClearStats(w, docs) ==
  /\ w.kind = "full" /\ w.clearAt \in Nat /\ w.clearAt <= w.compactedOp
  /\ w.stats = Stats(DocsUpTo(docs, w.compactedOp))

FinalStats(w, docs, L) ==
  /\ IsPrefix(w.stats, w.compactedOp, docs, L)
  /\ w.kind = "full" => w.stats = Stats(DocsUpTo(docs, w.compactedOp))

WorkStats(w, docs, L) ==
  /\ w.step \in {"read", "merge"} /\ w.kind = "full" => FullStats(w, docs)
  /\ w.step \in {"read", "merge"} /\ w.kind # "full" => ChunkStats(w, docs, L)
  /\ w.step \in {"clear", "boundary"} => ClearStats(w, docs)
  /\ w.step = "finalize" => FinalStats(w, docs, L)

\* The bucket counts what it counted at the claim, and a document with one operation for each write since.
CountsOK(w, s, docs, n) ==
  /\ w.state.count \in Int /\ w.state.chunks \in Int
  /\ w.state.last_op <= n
  /\ s.count = w.state.count + (n - w.state.last_op)
  /\ s.chunks = w.state.chunks + (n - w.state.last_op)
  /\ Stats(DocsAfter(docs, w.state.last_op)).count = n - w.state.last_op
  /\ Stats(DocsAfter(docs, w.state.last_op)).chunks = n - w.state.last_op
  /\ w.compactedOp <= w.state.last_op
  /\ w.compactedOp # 0 => IsWhole(docs, w.compactedOp)

StatsOK(w, s, docs, L, n) ==
  /\ w.step = "inspected" => w.stats = NoStats /\ w.clearAt = 0 /\ w.overlap = NoStats /\ w.changed = FALSE
  /\ IsBusy(w) => CountsOK(w, s, docs, n) /\ WorkStats(w, docs, L)

StatsInv ==
  /\ \/ bucket_state = None /\ \A c \in Compactors : compactors[c].step = "idle"
     \/ StateOK(bucket_state, bucket_data, log)
  /\ \A c \in Compactors : StatsOK(compactors[c], bucket_state, bucket_data, log, last_op)

LEMMA StatsFields ==
  ASSUME SchedInv, ReadInv, StatsInv, NEW c \in Compactors, compactors[c].step # "idle"
  PROVE  /\ IsState(bucket_state) /\ bucket_state.last_op = last_op /\ CompactedOK(bucket_state, last_op) /\ last_op \in Nat
         /\ StateOK(bucket_state, bucket_data, log) /\ StatsOK(compactors[c], bucket_state, bucket_data, log, last_op)
         /\ IsWorker(compactors[c]) /\ HasFields(compactors[c]) /\ IsState(compactors[c].state)
<1>1. IsScheduled(bucket_state, last_op) /\ IsWorker(compactors[c]) /\ HasFields(compactors[c]) /\ last_op \in Nat
  BY SchedFields
<1>2. CompactedOK(bucket_state, last_op)
  BY HasState
<1> QED BY <1>1, <1>2 DEF StatsInv, IsScheduled, IsWorker

(***************************************************************************)
(* What the invariant asks of a step.                                      *)
(***************************************************************************)
SameCounts(s, t) ==
  t.count = s.count /\ t.chunks = s.chunks /\ t.compacted_state = s.compacted_state /\ t.last_full_compact = s.last_full_compact

LEMMA SameCountsIs ==
  ASSUME NEW s, IsState(s)
  PROVE  /\ SameCounts(s, s)
         /\ SameCounts(s, [s EXCEPT !.compact_lease = None])
         /\ SameCounts(s, [s EXCEPT !.next_compact_check = TRUE])
         /\ \A l : SameCounts(s, [s EXCEPT !.compact_lease = l])
         /\ \A e : SameCounts(s, [s EXCEPT !.compact_lease.expired = e])
BY DEF SameCounts, IsState

LEMMA CountsSame ==
  ASSUME NEW s, NEW t, SameCounts(s, t), NEW D, NEW L
  PROVE  /\ StateOK(s, D, L) => StateOK(t, D, L)
         /\ \A w, n : StatsOK(w, s, D, L, n) => StatsOK(w, t, D, L, n)
<1>1. StateOK(s, D, L) => StateOK(t, D, L)
  BY DEF SameCounts, StateOK
<1>2. \A w, n : CountsOK(w, s, D, n) => CountsOK(w, t, D, n)
  BY DEF SameCounts, CountsOK
<1> QED BY <1>1, <1>2 DEF StatsOK

\* A step that leaves the counts alone
LEMMA CountsStep ==
  ASSUME SchedInv, StatsInv, StateOK(bucket_state, bucket_data, log), NEW c \in Compactors, NEW w, Become(c, w),
         StatsOK(w, bucket_state, bucket_data, log, last_op), SameCounts(bucket_state, bucket_state'),
         UNCHANGED <<bucket_data, log>>
  PROVE  StatsInv'
<1>1. last_op' = last_op
  BY DEF last_op
<1>2. \A d \in Compactors : compactors'[d] = IF d = c THEN w ELSE compactors[d]
  BY BecomeIs
<1>3. \A d \in Compactors : StatsOK(compactors'[d], bucket_state, bucket_data, log, last_op)
  BY <1>2 DEF StatsInv
<1>4. StateOK(bucket_state', bucket_data, log) /\ \A d \in Compactors : StatsOK(compactors'[d], bucket_state', bucket_data, log, last_op)
  BY <1>3, CountsSame
<1> QED BY <1>1, <1>4 DEF StatsInv

LEMMA RestsCount ==
  ASSUME NEW w, ~IsBusy(w), NEW s, NEW D, NEW L, NEW n, NEW t, NEW E, NEW M, NEW m, StatsOK(w, s, D, L, n)
  PROVE  StatsOK(w, t, E, M, m)
BY DEF StatsOK

LEMMA IdleCounts == \A s, D, L, n : StatsOK(Idle, s, D, L, n)
BY DEF StatsOK, Idle, IsBusy

\* One of the worker that has the bucket
LEMMA OwnerStep ==
  ASSUME SchedInv, StatsInv, OneWorker, NEW c \in Compactors, IsBusy(compactors[c]), NEW w, Become(c, w),
         NEW docs, bucket_data' = docs, NEW s, bucket_state' = s, StateOK(s, docs, log), StatsOK(w, s, docs, log, last_op),
         UNCHANGED log
  PROVE  StatsInv'
<1>1. last_op' = last_op
  BY DEF last_op
<1>2. \A d \in Compactors : compactors'[d] = IF d = c THEN w ELSE compactors[d]
  BY BecomeIs
<1>3. ASSUME NEW d \in Compactors PROVE StatsOK(compactors'[d], s, docs, log, last_op)
  <2>1. CASE d = c
    BY <1>2, <2>1
  <2>2. CASE d # c
    <3>1. ~IsBusy(compactors[d])
      BY <2>2 DEF OneWorker
    <3>2. StatsOK(compactors[d], bucket_state, bucket_data, log, last_op)
      BY DEF StatsInv
    <3> QED BY <1>2, <2>2, <3>1, <3>2, RestsCount
  <2> QED BY <2>1, <2>2
<1> QED BY <1>1, <1>3 DEF StatsInv

LEMMA StopCounts ==
  ASSUME SchedInv, ReadInv, StatsInv, NEW c \in Compactors, compactors[c].step # "idle", Become(c, Idle),
         SameCounts(bucket_state, bucket_state'), UNCHANGED <<bucket_data, log>>
  PROVE  StatsInv'
BY StatsFields, IdleCounts, CountsStep

LEMMA ThrowCounts ==
  ASSUME SchedInv, ReadInv, StatsInv, NEW c \in Compactors, compactors[c].step # "idle", Throw(c), UNCHANGED <<bucket_data, log>>
  PROVE  StatsInv'
<1>1. bucket_state' = (IF Holds(c) THEN [bucket_state EXCEPT !.compact_lease = None] ELSE bucket_state) /\ Become(c, Idle)
  BY DEF Throw, Released
<1>2. SameCounts(bucket_state, bucket_state) /\ SameCounts(bucket_state, [bucket_state EXCEPT !.compact_lease = None])
  BY StatsFields, SameCountsIs
<1>3. SameCounts(bucket_state, bucket_state')
  BY <1>1, <1>2
<1> QED BY <1>1, <1>3, StopCounts

-----------------------------------------------------------------------------
LEMMA LeaseCounts ==
  ASSUME SchedInv, StatsInv, IsState(bucket_state), StateOK(bucket_state, bucket_data, log), NEW e,
         bucket_state' = [bucket_state EXCEPT !.compact_lease.expired = e], UNCHANGED <<bucket_data, log, compactors>>
  PROVE  StatsInv'
<1>1. last_op' = last_op
  BY DEF last_op
<1>2. SameCounts(bucket_state, bucket_state')
  BY SameCountsIs
<1>3. \A d \in Compactors : StatsOK(compactors[d], bucket_state, bucket_data, log, last_op)
  BY DEF StatsInv
<1>4. StateOK(bucket_state', bucket_data, log) /\ \A d \in Compactors : StatsOK(compactors[d], bucket_state', bucket_data, log, last_op)
  BY <1>2, <1>3, CountsSame
<1> QED BY <1>1, <1>4 DEF StatsInv

LEMMA ExpireCounts ==
  ASSUME SchedInv, StatsInv, Expire
  PROVE  StatsInv'
<1>1. IsState(bucket_state) /\ StateOK(bucket_state, bucket_data, log)
  BY DEF Expire, SchedInv, IsScheduled, StatsInv
<1> QED BY <1>1, LeaseCounts DEF Expire

LEMMA RenewCounts ==
  ASSUME SchedInv, ReadInv, StatsInv, NEW c \in Compactors, Renew(c)
  PROVE  StatsInv'
<1>1. IsState(bucket_state) /\ StateOK(bucket_state, bucket_data, log)
  BY StatsFields DEF Renew, Step
<1> QED BY <1>1, LeaseCounts DEF Renew, storageUnchanged

LEMMA FailCounts ==
  ASSUME SchedInv, ReadInv, StatsInv, NEW c \in Compactors, Fail(c) \/ Crash(c)
  PROVE  StatsInv'
<1>1. compactors[c].step # "idle" /\ UNCHANGED <<bucket_data, log>>
  BY DEF Fail, Crash, Step
<1>2. Throw(c) \/ (Become(c, Idle) /\ UNCHANGED bucket_state)
  BY DEF Fail, Crash
<1>3. SameCounts(bucket_state, bucket_state)
  BY DEF SameCounts
<1> QED BY <1>1, <1>2, <1>3, StopCounts, ThrowCounts

LEMMA FinishCounts ==
  ASSUME SchedInv, ReadInv, StatsInv, NEW c \in Compactors, compactors[c].step # "idle", NEW state, Finish(c, state),
         IsState(state), SameCounts(bucket_state, state), UNCHANGED <<bucket_data, log>>
  PROVE  StatsInv'
<1>1. bucket_state' = (IF Holds(c) THEN [state EXCEPT !.compact_lease = None] ELSE bucket_state) /\ Become(c, Idle)
  BY DEF Finish
<1>2. SameCounts(bucket_state, bucket_state) /\ SameCounts(state, [state EXCEPT !.compact_lease = None])
  BY StatsFields, SameCountsIs
<1>3. SameCounts(bucket_state, bucket_state')
  BY <1>1, <1>2 DEF SameCounts
<1> QED BY <1>1, <1>3, StopCounts

LEMMA RescheduleClaimedCounts ==
  ASSUME SchedInv, ReadInv, StatsInv, NEW c \in Compactors, RescheduleClaimed(c)
  PROVE  StatsInv'
<1> DEFINE t == [bucket_state EXCEPT !.next_compact_check = TRUE]
<1>1. compactors[c].step # "idle" /\ UNCHANGED <<bucket_data, log>> /\ Finish(c, t)
  BY DEF RescheduleClaimed, Step, storageUnchanged
<1>2. IsState(bucket_state)
  BY <1>1, StatsFields
<1>3. IsState(t) /\ SameCounts(bucket_state, t)
  BY <1>2 DEF IsState, SameCounts
<1> HIDE DEF t
<1> QED BY <1>1, <1>3, FinishCounts

LEMMA RescheduleUnclaimedCounts ==
  ASSUME SchedInv, ReadInv, StatsInv, NEW c \in Compactors, RescheduleUnclaimed(c)
  PROVE  StatsInv'
<1>1. compactors[c].step # "idle" /\ Become(c, Idle) /\ UNCHANGED <<bucket_data, log>>
  BY DEF RescheduleUnclaimed, Step, storageUnchanged
<1>2. bucket_state' = [bucket_state EXCEPT !.next_compact_check = TRUE] \/ bucket_state' = bucket_state
  BY DEF RescheduleUnclaimed
<1>3. SameCounts(bucket_state, bucket_state')
  BY <1>1, <1>2, StatsFields, SameCountsIs
<1> QED BY <1>1, <1>3, StopCounts

LEMMA CommitCounts ==
  ASSUME SchedInv, StatsInv, Commit
  PROVE  StatsInv'
<1>1. last_op' = last_op
  BY DEF Commit, last_op
<1> QED BY <1>1 DEF Commit, StatsInv

LEMMA InspectCounts ==
  ASSUME SchedInv, ReadInv, StatsInv, NEW c \in Compactors, Inspect(c)
  PROVE  StatsInv'
<1> DEFINE w == [Idle EXCEPT !.step = "inspected", !.cap = checkpoint, !.state = bucket_state]
<1>1. Become(c, w) /\ UNCHANGED <<bucket_data, bucket_state, log>> /\ bucket_state # None
  BY DEF Inspect, storageUnchanged
<1>2. w.step = "inspected" /\ w.stats = NoStats /\ w.clearAt = 0 /\ w.overlap = NoStats /\ w.changed = FALSE
  BY DEF Idle
<1>3. StateOK(bucket_state, bucket_data, log)
  BY <1>1 DEF StatsInv
<1> HIDE DEF w
<1>4. StatsOK(w, bucket_state, bucket_data, log, last_op)
  BY <1>2 DEF StatsOK, IsBusy
<1>5. SameCounts(bucket_state, bucket_state')
  BY <1>1 DEF SameCounts
<1> QED BY <1>1, <1>3, <1>4, <1>5, CountsStep

-----------------------------------------------------------------------------
(***************************************************************************)
(* A document is written: it comes after all that is counted.              *)
(***************************************************************************)
LEMMA NewDoc ==
  ASSUME NEW D, NEW L, NEW n, IsLog(L, n), IsStore(D, L, n), NEW op \in PutOp \cup RemoveOp, op.op_id = n + 1,
         NEW e, e = Document({op}, Null)
  PROVE  e \in Doc /\ e.ops = {op} /\ DocId(e) = n + 1 /\ n \in Nat /\ e \notin D
<1>0. n \in Nat
  BY DEF IsLog
<1>1. op \in Op
  BY DEF Op
<1>2. e \in Doc /\ e.ops = {op}
  BY <1>1, FS_Singleton, Documents DEF Document, Null
<1>3. DocId(e) = n + 1
  BY <1>2, DocEnds DEF HasId
<1>4. \A d \in D : DocId(d) \in Nat /\ DocId(d) <= n
  BY <1>0, StoreIds
<1>5. e \notin D
  BY <1>0, <1>3, <1>4
<1> QED BY <1>0, <1>2, <1>3, <1>5

LEMMA PrefixGrows ==
  ASSUME NEW D, NEW L, NEW n, IsLog(L, n), IsStore(D, L, n), NEW op \in PutOp \cup RemoveOp, op.op_id = n + 1,
         NEW e, e = Document({op}, Null), NEW k \in Nat, k <= n, NEW s, IsPrefix(s, k, D, L)
  PROVE  IsPrefix(s, k, D \cup {e}, L \cup {op})
<1> DEFINE E == D \cup {e}
           M == L \cup {op}
<1>1. e.ops = {op} /\ n \in Nat
  BY NewDoc
<1>2. Between(M, 0, k) = Between(L, 0, k)
  BY <1>1 DEF Between
<1>3. \A id \in IdsUpTo(E, k) : id \in IdsUpTo(D, k)
  <2> SUFFICES ASSUME NEW id \in 1..k, HasId(OpsOf(E), id) PROVE HasId(OpsOf(D), id)
    BY DEF IdsUpTo
  <2>1. PICK o \in OpsOf(E) : o.op_id = id
    BY DEF HasId
  <2>2. PICK d \in E : o \in d.ops
    BY OpsOfHas
  <2>3. d \in D
    BY <1>1, <2>1, <2>2
  <2>4. o \in OpsOf(D)
    BY <2>2, <2>3, OpsOfHas
  <2> QED BY <2>1, <2>4 DEF HasId
<1>4. Cardinality(IdsUpTo(E, k)) <= Cardinality(IdsUpTo(D, k)) /\ Cardinality(IdsUpTo(E, k)) \in Nat /\ Cardinality(IdsUpTo(D, k)) \in Nat
  BY <1>3, IdsAreCounted
<1> HIDE DEF E, M
<1>5. IsPrefix(s, k, E, M)
  BY <1>2, <1>4 DEF IsPrefix
<1> QED BY <1>5 DEF E, M

LEMMA StateGrows ==
  ASSUME NEW D, NEW L, NEW n, IsLog(L, n), IsStore(D, L, n), NEW op \in PutOp \cup RemoveOp, op.op_id = n + 1,
         NEW e, e = Document({op}, Null), NEW s, CompactedOK(s, n), StateOK(s, D, L),
         NEW t, t.count = s.count + 1, t.chunks = s.chunks + 1, t.compacted_state = s.compacted_state,
         t.last_full_compact = s.last_full_compact
  PROVE  StateOK(t, D \cup {e}, L \cup {op})
<1>1. t.count \in Int /\ t.chunks \in Int /\ t.last_full_compact \in Nat
  BY DEF StateOK
<1>2. CASE s.compacted_state = None
  BY <1>1, <1>2 DEF StateOK
<1>3. CASE s.compacted_state # None
  <2>1. s.compacted_state \in CompactedStates /\ s.compacted_state.op_id \in Nat /\ s.compacted_state.op_id <= n
        /\ IsPrefix(s.compacted_state, s.compacted_state.op_id, D, L)
    BY <1>3 DEF CompactedOK, StateOK, PrefixOK, IsLog
  <2>2. IsPrefix(s.compacted_state, s.compacted_state.op_id, D \cup {e}, L \cup {op})
    BY <2>1, PrefixGrows
  <2> QED BY <1>1, <2>1, <2>2 DEF StateOK, PrefixOK
<1> QED BY <1>2, <1>3

LEMMA CountsGrow ==
  ASSUME NEW D, NEW L, NEW n, IsLog(L, n), IsStore(D, L, n), NEW op \in PutOp \cup RemoveOp, op.op_id = n + 1,
         NEW e, e = Document({op}, Null), NEW s, NEW t, t.count = s.count + 1, t.chunks = s.chunks + 1,
         NEW w, IsState(w.state), CountsOK(w, s, D, n)
  PROVE  CountsOK(w, t, D \cup {e}, n + 1)
<1> DEFINE h == w.state.last_op
           A == DocsAfter(D, h)
           B == DocsAfter(D \cup {e}, h)
<1>0. h \in Nat /\ n \in Nat /\ h <= n
  BY DEF IsState, CountsOK, IsLog
<1>1. e \in Doc /\ e.ops = {op} /\ DocId(e) = n + 1 /\ e \notin D
  BY NewDoc
<1>2. B = A \cup {e} /\ A \cap {e} = {}
  BY <1>0, <1>1 DEF DocsAfter
<1>3. DocsOK(A) /\ DocsOK({e})
  <2>1. A \subseteq D
    BY DEF DocsAfter
  <2> HIDE DEF A
  <2> QED BY <1>1, <2>1, PartStats, OneDoc
<1>4. Cardinality(e.ops) = 1
  BY <1>1, FS_Singleton
<1>5. Stats({e}).count = 1 /\ Stats({e}).chunks = 1
  BY <1>1, <1>4, StatsOne
<1>6. Stats(A).count = n - h /\ Stats(A).chunks = n - h
  BY DEF CountsOK
<1> HIDE DEF A, B
<1>7. Stats(B).count = Stats(A).count + 1 /\ Stats(B).chunks = Stats(A).chunks + 1
  <2>1. Stats(B) = Plus(Stats(A), Stats({e}))
    BY <1>2, <1>3, StatsAdd
  <2> QED BY <1>5, <2>1, PlusIs
<1>8. w.state.count \in Int /\ w.state.chunks \in Int /\ s.count = w.state.count + (n - h) /\ s.chunks = w.state.chunks + (n - h)
      /\ w.compactedOp <= h
  BY DEF CountsOK
<1>9. w.compactedOp # 0 => IsWhole(D \cup {e}, w.compactedOp)
  BY DEF CountsOK, IsWhole
<1> HIDE DEF h
<1>10. t.count = w.state.count + ((n + 1) - h) /\ t.chunks = w.state.chunks + ((n + 1) - h)
  BY <1>0, <1>8
<1>11. Stats(B).count = (n + 1) - h /\ Stats(B).chunks = (n + 1) - h
  BY <1>0, <1>6, <1>7
<1>12. h <= n + 1
  BY <1>0
<1> QED BY <1>8, <1>9, <1>10, <1>11, <1>12 DEF CountsOK, B, h

\* The parts of the documents that a worker counts
IsAppended(D, L, n, op, e) ==
  IsLog(L, n) /\ IsStore(D, L, n) /\ op \in PutOp \cup RemoveOp /\ op.op_id = n + 1 /\ e = Document({op}, Null)
HasGrown(w, D, E, e) ==
  /\ w.kind = "full" => Unread(w, E) = Unread(w, D) /\ Done(w, E) = Done(w, D) \cup {e}
  /\ w.kind # "full" => Unread(w, E) = Unread(w, D) \cup {e} /\ Done(w, E) = Done(w, D)

LEMMA PartsGrow ==
  ASSUME NEW D, NEW L, NEW n, NEW op, NEW e, IsAppended(D, L, n, op, e), NEW w, HasFields(w), ReadOK(w, w.lastNotPut, D, L, n)
  PROVE  HasGrown(w, D, D \cup {e}, e)
<1>1. DocId(e) = n + 1 /\ e \notin D /\ n \in Nat
  BY NewDoc DEF IsAppended
<1>2. w.batch \subseteq D /\ w.pending \subseteq D /\ w.bound \in Nat
  BY DEF ReadOK, IsPass
<1>3. CASE w.kind = "full"
  <2>1. ~IsBeyond(w, e)
    BY <1>1, <1>2, <1>3 DEF ReadOK, FullOK, IsBeyond
  <2> QED BY <1>1, <1>2, <1>3, <2>1 DEF Unread, Done, HasGrown
<1>4. CASE w.kind # "full"
  <2>1. IsBeyond(w, e)
    BY <1>1, <1>2, <1>4 DEF ReadOK, ChunksOK, IsBeyond
  <2> QED BY <1>1, <1>2, <1>4, <2>1 DEF Unread, Done, HasGrown
<1> QED BY <1>3, <1>4

LEMMA UpToGrows ==
  ASSUME NEW D, NEW e, NEW n \in Nat, DocId(e) = n + 1, NEW k \in Nat, k <= n
  PROVE  DocsUpTo(D \cup {e}, k) = DocsUpTo(D, k)
BY DEF DocsUpTo

LEMMA WorkStatsGrow ==
  ASSUME NEW D, NEW L, NEW n, IsLog(L, n), IsStore(D, L, n), NEW op \in PutOp \cup RemoveOp, op.op_id = n + 1,
         NEW e, e = Document({op}, Null), NEW w, HasFields(w), IsState(w.state), w.state.last_op <= n,
         w.compactedOp <= w.state.last_op, WorkOK(w, D, L, n), WorkStats(w, D, L)
  PROVE  WorkStats(w, D \cup {e}, L \cup {op})
<1> DEFINE E == D \cup {e}
           M == L \cup {op}
           k == w.compactedOp
<1>0. IsAppended(D, L, n, op, e)
  BY DEF IsAppended
<1>1. DocId(e) = n + 1 /\ e \notin D /\ n \in Nat /\ e.ops = {op}
  BY NewDoc
<1>2. k \in Nat /\ k <= n /\ w.state.last_op \in Nat
  BY <1>1 DEF HasFields, IsState
<1>3. \A X : DocsUpTo(X \cup {e}, k) = DocsUpTo(X, k)
  BY <1>1, <1>2, UpToGrows
<1>4. ASSUME w.step \in {"read", "merge"}, w.kind = "full" PROVE FullStats(w, E)
  <2>0. ReadOK(w, w.lastNotPut, D, L, n)
    BY <1>4 DEF WorkOK
  <2>1. Unread(w, E) = Unread(w, D) /\ Done(w, E) = Done(w, D) \cup {e}
    <3>1. HasGrown(w, D, E, e)
      BY <1>0, <2>0, PartsGrow
    <3> QED BY <1>4, <3>1 DEF HasGrown
  <2>2. FullStats(w, D)
    BY <1>4 DEF WorkStats
  <2> HIDE DEF E
  <2> QED BY <1>3, <2>1, <2>2 DEF FullStats
<1>5. ASSUME w.step \in {"read", "merge"}, w.kind # "full" PROVE ChunkStats(w, E, M)
  <2>0. ReadOK(w, w.lastNotPut, D, L, n)
    BY <1>5 DEF WorkOK
  <2>1. Unread(w, E) = Unread(w, D) \cup {e} /\ Done(w, E) = Done(w, D)
    <3>1. HasGrown(w, D, E, e)
      BY <1>0, <2>0, PartsGrow
    <3> QED BY <1>5, <3>1 DEF HasGrown
  <2>2. ChunkStats(w, D, L)
    BY <1>5 DEF WorkStats
  <2>3. ASSUME w.previous # None PROVE OverlapOK(w, E, M)
    <3>1. OverlapOK(w, D, L)
      BY <2>2, <2>3 DEF ChunkStats
    <3>2. Low(w, E) = Low(w, D)
      BY <2>1 DEF Low
    <3>0. w.previous.op_id \in Nat \ {0} /\ w.previous.op_id <= w.state.last_op /\ IsPrefix(w.previous, w.previous.op_id, D, L)
      BY <3>1 DEF OverlapOK, PrefixOK
    <3>3. w.previous.op_id \in Nat /\ w.previous.op_id <= n /\ IsPrefix(w.previous, w.previous.op_id, D, L)
      BY <1>1, <1>2, <3>0
    <3>4. PrefixOK(w.previous, E, M)
      BY <3>3, PrefixGrows DEF PrefixOK
    <3>5. \A o \in e.ops : o.op_id > w.previous.op_id
      <4>1. n + 1 > w.previous.op_id
        BY <1>1, <3>3
      <4> QED BY <1>1, <4>1
    <3> HIDE DEF E, M
    <3>6. k # 0 => \A d \in Unread(w, E) : DocId(d) = w.previous.op_id \/ \A o \in d.ops : o.op_id > w.previous.op_id
      BY <2>1, <3>1, <3>5 DEF OverlapOK
    <3> QED BY <3>1, <3>2, <3>4, <3>6 DEF OverlapOK
  <2> HIDE DEF E, M
  <2> QED BY <2>1, <2>2, <2>3 DEF ChunkStats
<1>6. ASSUME w.step \in {"clear", "boundary"} PROVE ClearStats(w, E)
  <2>1. ClearStats(w, D)
    BY <1>6 DEF WorkStats
  <2> QED BY <1>3, <2>1 DEF ClearStats
<1>7. ASSUME w.step = "finalize" PROVE FinalStats(w, E, M)
  <2>1. FinalStats(w, D, L)
    BY <1>7 DEF WorkStats
  <2>2. IsPrefix(w.stats, k, E, M)
    BY <1>2, <2>1, PrefixGrows DEF FinalStats
  <2> QED BY <1>3, <2>1, <2>2 DEF FinalStats
<1> HIDE DEF E, M
<1>8. WorkStats(w, E, M)
  BY <1>4, <1>5, <1>6, <1>7 DEF WorkStats
<1> QED BY <1>8 DEF E, M

LEMMA FlushCounts ==
  ASSUME SchedInv, ReadInv, StatsInv, Flush
  PROVE  StatsInv'
<1>0. LogTypeOK /\ last_op \in Nat /\ IsLog(log, last_op) /\ IsStore(bucket_data, log, last_op)
  BY DEF SchedInv, ReadInv, IsLog
<1>1. last_op + 1 \in Nat \ {0}
  BY <1>0
<1>2. PICK row \in Rows :
        (\E data \in Values : AppendOp(Put(last_op + 1, row, data))) \/ AppendOp(Remove(last_op + 1, row))
  BY DEF Flush
<1>3. \A data \in Values : Put(last_op + 1, row, data) \in PutOp
  BY <1>1, HashAssumption DEF Put, PutOp
<1>4. Remove(last_op + 1, row) \in RemoveOp
  BY <1>1, HashAssumption DEF Remove, RemoveOp
<1>5. \A data \in Values : Put(last_op + 1, row, data).op_id = last_op + 1
  BY DEF Put
<1>6. Remove(last_op + 1, row).op_id = last_op + 1
  BY DEF Remove
<1>7. PICK op \in PutOp \cup RemoveOp : op.op_id = last_op + 1 /\ AppendOp(op)
  BY <1>2, <1>3, <1>4, <1>5, <1>6
<1>8. op \notin log
  BY <1>0, <1>7 DEF LogTypeOK
<1> DEFINE e == Document({op}, Null)
           E == bucket_data \cup {e}
           M == log \cup {op}
<1>9. last_op' = last_op + 1 /\ log' = M /\ bucket_data' = E /\ UNCHANGED compactors
  BY <1>0, <1>7, <1>8, FS_AddElement DEF LogTypeOK, last_op, AppendOp, Flush
<1>10. CASE bucket_state = None
  <2>1. \A c \in Compactors : compactors[c].step = "idle"
    <3>1. SUFFICES ASSUME ~ \A c \in Compactors : compactors[c].step = "idle" PROVE FALSE
      OBVIOUS
    <3>2. IsState(bucket_state) /\ StateOK(bucket_state, bucket_data, log)
      BY <3>1 DEF SchedInv, IsScheduled, StatsInv
    <3> QED BY <1>10, <3>2, StateIsThere
  <2>2. \A c \in Compactors : StatsOK(compactors'[c], bucket_state', bucket_data', log', last_op')
    BY <1>9, <2>1 DEF StatsOK, IsBusy
  <2>3. StateOK(bucket_state', bucket_data', log')
    BY <1>7, <1>10 DEF AppendOp, StateOK
  <2> QED BY <2>2, <2>3 DEF StatsInv
<1>11. CASE bucket_state # None
  <2>1. IsState(bucket_state) /\ CompactedOK(bucket_state, last_op) /\ StateOK(bucket_state, bucket_data, log)
    BY <1>11 DEF SchedInv, IsScheduled, ReadInv, StatsInv
  <2>2. bucket_state' = [bucket_state EXCEPT !.last_op = op.op_id, !.count = @ + 1, !.chunks = @ + 1,
                                 !.first_uncompacted_write = TRUE, !.next_compact_check = TRUE]
    BY <1>7, <1>11 DEF AppendOp
  <2>3. bucket_state'.compacted_state = bucket_state.compacted_state
        /\ bucket_state'.last_full_compact = bucket_state.last_full_compact
        /\ bucket_state'.count = bucket_state.count + 1 /\ bucket_state'.chunks = bucket_state.chunks + 1
    BY <2>1, <2>2 DEF IsState
  <2>4. StateOK(bucket_state', E, M)
    BY <1>0, <1>7, <2>1, <2>3, StateGrows
  <2>5. ASSUME NEW c \in Compactors PROVE StatsOK(compactors[c], bucket_state', E, M, last_op + 1)
    <3> DEFINE w == compactors[c]
    <3>1. StatsOK(w, bucket_state, bucket_data, log, last_op) /\ HasFields(w) /\ WorkOK(w, bucket_data, log, last_op) /\ IsWorker(w)
      BY SchedFields, ReadFields DEF StatsInv
    <3> HIDE DEF w, E, M
    <3>2. ASSUME ~IsBusy(w) PROVE StatsOK(w, bucket_state', E, M, last_op + 1)
      BY <3>1, <3>2, RestsCount
    <3>3. ASSUME IsBusy(w) PROVE StatsOK(w, bucket_state', E, M, last_op + 1)
      <4>1. CountsOK(w, bucket_state, bucket_data, last_op) /\ WorkStats(w, bucket_data, log) /\ IsState(w.state)
        BY <3>1, <3>3 DEF StatsOK, IsWorker, IsBusy
      <4>2. CountsOK(w, bucket_state', E, last_op + 1)
        BY <1>0, <1>7, <2>3, <4>1, CountsGrow DEF E
      <4>3. w.state.last_op <= last_op /\ w.compactedOp <= w.state.last_op
        BY <4>1 DEF CountsOK
      <4>4. WorkStats(w, E, M)
        BY <1>0, <1>7, <3>1, <4>1, <4>3, WorkStatsGrow DEF E, M
      <4> QED BY <3>3, <4>2, <4>4 DEF StatsOK, IsBusy
    <3>4. StatsOK(w, bucket_state', E, M, last_op + 1)
      BY <3>2, <3>3
    <3> QED BY <3>4 DEF w, E, M
  <2> HIDE DEF E, M
  <2> QED BY <1>9, <2>4, <2>5 DEF StatsInv
<1> QED BY <1>10, <1>11

-----------------------------------------------------------------------------
\* Nothing is counted yet when a worker starts.
LEMMA NothingAfter ==
  ASSUME NEW D, NEW L, NEW n \in Nat, IsStore(D, L, n)
  PROVE  DocsAfter(D, n) = {} /\ Stats(DocsAfter(D, n)).count = 0 /\ Stats(DocsAfter(D, n)).chunks = 0
<1>1. \A d \in D : DocId(d) \in Nat /\ DocId(d) <= n
  BY StoreIds
<1>2. DocsAfter(D, n) = {}
  BY <1>1 DEF DocsAfter
<1> QED BY <1>2, StatsEmpty DEF NoStats

LEMMA StartCounts ==
  ASSUME NEW D, NEW L, NEW n \in Nat, IsStore(D, L, n), NEW w, HasFields(w), w.step = "inspected", WorkOK(w, D, L, n),
         w.stats = NoStats, w.clearAt = 0, w.overlap = NoStats, w.changed = FALSE,
         NEW state, IsState(state), state.last_op = n, CompactedOK(state, n), StateOK(state, D, L),
         NEW kind \in {"none", "full", "chunks"}
  PROVE  StatsOK(Start(w, state, kind), state, D, L, n)
<1> DEFINE target == Target(w, state)
           previous == IF kind = "chunks" THEN Previous(state) ELSE None
           v == Start(w, state, kind)
           bound == IF kind = "full" THEN target + 1 ELSE IF previous = None THEN 0 ELSE previous.op_id - 1
<1>1. IsFresh(w, n)
  BY DEF WorkOK
<1>2. target \in Nat /\ target <= n
  BY <1>1 DEF Target, IsFresh
<1>3. previous # None => previous.op_id \in 1..n /\ PrefixOK(previous, D, L) /\ previous = state.compacted_state /\ kind = "chunks"
  <2>1. previous # None => previous = state.compacted_state /\ state.compacted_state # None /\ kind = "chunks"
    BY DEF Previous
  <2> HIDE DEF previous
  <2> QED BY <2>1 DEF CompactedOK, StateOK
<1>4. /\ v.step \in {"reschedule", "read"} /\ v.kind = kind /\ v.target = target /\ v.bound = bound /\ v.previous = previous
      /\ v.stats = w.stats /\ v.clearAt = w.clearAt /\ v.overlap = w.overlap /\ v.state = state
      /\ v.batch = w.batch /\ v.pending = w.pending /\ v.compactedOp = w.compactedOp /\ v.changed = w.changed
      /\ (v.step = "read" => kind # "none")
  BY DEF Start, HasFields
<1>5. v.verify = (previous # None)
  BY DEF Start, HasFields
<1> HIDE DEF v, target, previous, bound
<1>6. v.batch = {} /\ v.pending = {} /\ v.compactedOp = 0 /\ v.stats = Stats({}) /\ v.clearAt = 0 /\ v.overlap = NoStats
  BY <1>1, <1>4, StatsEmpty DEF IsFresh
<1>7. CountsOK(v, state, D, n)
  <2>1. state.count \in Int /\ state.chunks \in Int
    BY DEF StateOK
  <2>2. Stats(DocsAfter(D, n)).count = n - n /\ Stats(DocsAfter(D, n)).chunks = n - n
    BY NothingAfter
  <2> QED BY <1>4, <1>6, <2>1, <2>2 DEF CountsOK
<1>8. \A d \in D : DocId(d) \in Nat /\ DocId(d) > 0
  BY StoreIds
<1>9. ASSUME kind = "full" PROVE FullStats(v, D)
  <2>1. DocsUpTo(Done(v, D), v.compactedOp) = {}
    BY <1>6, <1>8 DEF DocsUpTo, Done
  <2>2. v.bound <= v.state.last_op + 1
    BY <1>2, <1>4, <1>9 DEF bound
  <2> QED BY <1>6, <2>1, <2>2 DEF FullStats
<1>10. ASSUME kind = "chunks" PROVE ChunkStats(v, D, L)
  <2>1. v.bound = Base(v) /\ Base(v) \in Nat
    BY <1>3, <1>4, <1>10 DEF bound, Base
  <2>2. DocsAfter(Done(v, D), Base(v)) = {}
    BY <1>4, <1>8, <1>10, <2>1 DEF DocsAfter, Done, Unread, IsBeyond
  <2>3. ASSUME v.previous # None PROVE OverlapOK(v, D, L)
    <3>1. v.previous.op_id \in Nat \ {0} /\ v.previous.op_id <= v.state.last_op /\ PrefixOK(v.previous, D, L)
      BY <1>3, <1>4, <2>3
    <3>2. v.verify = (v.compactedOp = 0)
      BY <1>4, <1>5, <1>6, <2>3
    <3>3. Low(v, D) = {}
      BY <1>6, <2>2 DEF Low, LowOps, OpsOf
    <3>4. IsOverlap(v.overlap, Low(v, D))
      BY <1>6, <3>3, SumEmpty, FS_EmptySet DEF IsOverlap, NoStats
    <3> QED BY <1>6, <3>1, <3>2, <3>4 DEF OverlapOK
  <2>4. v.target <= v.state.last_op
    BY <1>2, <1>4
  <2>5. v.changed = FALSE /\ (v.previous = None => v.verify = FALSE)
    BY <1>4, <1>5
  <2> QED BY <1>6, <2>1, <2>2, <2>3, <2>4, <2>5 DEF ChunkStats
<1>11. WorkStats(v, D, L)
  BY <1>4, <1>9, <1>10 DEF WorkStats
<1>12. StatsOK(v, state, D, L, n)
  BY <1>4, <1>7, <1>11 DEF StatsOK
<1> QED BY <1>12 DEF v

LEMMA ClaimCounts ==
  ASSUME SchedInv, ReadInv, StatsInv, NEW c \in Compactors, NEW kind \in {"none", "full", "chunks"}, Claim(c, kind)
  PROVE  StatsInv'
<1>1. compactors[c].step = "inspected" /\ UNCHANGED <<bucket_data, log>>
  BY DEF Claim, Step, storageUnchanged
<1>2. /\ IsState(bucket_state) /\ bucket_state.last_op = last_op /\ CompactedOK(bucket_state, last_op) /\ last_op \in Nat
      /\ StateOK(bucket_state, bucket_data, log) /\ StatsOK(compactors[c], bucket_state, bucket_data, log, last_op)
      /\ HasFields(compactors[c])
  BY <1>1, StatsFields
<1>3. CASE bucket_state.next_compact_check /\ IsAvailable
  <2> DEFINE state == [bucket_state EXCEPT !.compact_lease = [id |-> c, expired |-> FALSE]]
             w == Start(compactors[c], state, kind)
  <2>1. bucket_state' = state /\ Become(c, w)
    BY <1>3 DEF Claim
  <2>2. IsState(state) /\ state.last_op = last_op
    BY <1>2 DEF IsState, Lease
  <2>3. CompactedOK(state, last_op)
    BY <1>2, StillCompacted
  <2>4. SameCounts(bucket_state, state)
    BY <1>2, SameCountsIs
  <2> HIDE DEF state
  <2>5. StateOK(state, bucket_data, log)
    BY <1>2, <2>4, CountsSame
  <2>6. IsStore(bucket_data, log, last_op) /\ WorkOK(compactors[c], bucket_data, log, last_op)
    BY ReadFields
  <2>7. compactors[c].stats = NoStats /\ compactors[c].clearAt = 0 /\ compactors[c].overlap = NoStats
        /\ compactors[c].changed = FALSE
    BY <1>1, <1>2 DEF StatsOK
  <2>8. StatsOK(w, state, bucket_data, log, last_op)
    BY <1>1, <1>2, <2>2, <2>3, <2>5, <2>6, <2>7, StartCounts
  <2> HIDE DEF w
  <2>9. StatsOK(w, bucket_state, bucket_data, log, last_op)
    <3>1. SameCounts(state, bucket_state)
      BY <2>4 DEF SameCounts
    <3> QED BY <2>8, <3>1, CountsSame
  <2>10. SameCounts(bucket_state, bucket_state')
    BY <2>1, <2>4
  <2> QED BY <1>1, <1>2, <2>1, <2>9, <2>10, CountsStep
<1>4. CASE ~(bucket_state.next_compact_check /\ IsAvailable)
  <2>1. Become(c, Idle) /\ UNCHANGED bucket_state
    BY <1>4 DEF Claim
  <2>2. SameCounts(bucket_state, bucket_state')
    BY <2>1 DEF SameCounts
  <2> QED BY <1>1, <2>1, <2>2, StopCounts
<1> QED BY <1>3, <1>4

-----------------------------------------------------------------------------
(***************************************************************************)
(* The counts are those of the claim as long as the worker keeps the       *)
(* documents after it, and the end of what it compacts.                    *)
(***************************************************************************)
LEMMA CountsKept ==
  ASSUME NEW w, NEW s, NEW D, NEW n, CountsOK(w, s, D, n), NEW v, v.state = w.state,
         v.compactedOp <= v.state.last_op, v.compactedOp # 0 => IsWhole(D, v.compactedOp)
  PROVE  CountsOK(v, s, D, n)
BY DEF CountsOK

LEMMA BatchCounts ==
  ASSUME NEW D, NEW L, NEW n, IsLog(L, n), IsStore(D, L, n), NEW w, HasFields(w), WorkOK(w, D, L, n),
         w.step = "read", w.kind = "full", w.batch = {}, IsState(w.state), NEW s, StatsOK(w, s, D, L, n),
         NEW docs, docs = Highest({d \in D : DocId(d) < w.bound}, QueryLimit),
         NEW v, v.step = w.step, v.kind = w.kind, v.stats = w.stats, v.pending = w.pending, v.clearAt = w.clearAt,
         v.state = w.state, v.batch = docs, v.bound \in Nat, v.bound <= w.bound, Unread(v, D) = Unread(w, D), Done(v, D) = Done(w, D),
         v.compactedOp = IF w.compactedOp = 0 THEN Max(Ids(docs) \cup {0}) ELSE w.compactedOp
  PROVE  StatsOK(v, s, D, L, n)
<1> DEFINE A == {d \in D : DocId(d) < w.bound}
<1>0. n \in Nat /\ DocsOK(D) /\ InOrder(D)
  BY DEF IsLog, IsStore
<1>1. ReadOK(w, w.lastNotPut, D, L, n) /\ w.bound \in Nat
  BY DEF WorkOK, ReadOK
<1>2. DocsOK(A) /\ InOrder(A)
  BY <1>0, DocsPart DEF InOrder
<1>3. docs \subseteq A /\ \A d \in docs, e \in A \ docs : IsBefore(e, d)
  BY <1>2, LimitedIs, MongoLimits
<1>4. DocsOK(docs)
  BY <1>2, <1>3, DocsPart
<1>5. Unread(w, D) = A
  BY DEF Unread, IsBeyond
<1>6. FullStats(w, D) /\ CountsOK(w, s, D, n)
  BY DEF StatsOK, IsBusy, WorkStats
<1>7. \A d \in D : DocId(d) \in Nat /\ DocId(d) > 0
  BY <1>0, StoreIds
<1>8. w.compactedOp \in Nat /\ w.state.last_op \in Nat
  BY DEF HasFields, IsState
<1>9. CASE w.compactedOp # 0
  <2>1. v.compactedOp = w.compactedOp
    BY <1>9
  <2>2. FullStats(v, D)
    <3>1. \A d \in Unread(v, D) \cup v.pending : DocId(d) <= v.compactedOp
      BY <1>6, <1>9, <2>1 DEF FullStats
    <3>2. v.bound <= v.state.last_op + 1
      BY <1>1, <1>6, <1>8 DEF FullStats
    <3>3. v.stats = Stats(DocsUpTo(Done(v, D), v.compactedOp)) /\ v.clearAt \in Nat /\ v.clearAt <= v.compactedOp
      BY <1>6, <2>1 DEF FullStats
    <3> QED BY <1>9, <2>1, <3>1, <3>2, <3>3 DEF FullStats
  <2>3. CountsOK(v, s, D, n)
    BY <1>6, <2>1, CountsKept DEF CountsOK
  <2> QED BY <2>2, <2>3 DEF StatsOK, WorkStats
<1>10. CASE w.compactedOp = 0
  <2> DEFINE m == v.compactedOp
  <2>1. m \in Nat /\ m \in Ids(docs) \cup {0} /\ \A id \in Ids(docs) : id <= m
    BY <1>4, <1>10, MaxId
  <2>2. \A d \in docs : DocId(d) \in Ids(docs) /\ d \in D /\ DocId(d) < w.bound
    BY <1>3, IdOfDoc
  <2>3. m # 0 => \E d \in docs : DocId(d) = m
    BY <2>1, IdOfDoc
  <2>4. m = 0 \/ m < w.bound
    BY <2>2, <2>3
  <2>5. w.pending = {} /\ w.stats = Stats(DocsUpTo(Done(w, D), 0)) /\ w.clearAt = 0 /\ w.bound <= w.state.last_op + 1
    BY <1>6, <1>10 DEF FullStats
  <2>6. \A d \in Done(w, D) : d \in D /\ ~(DocId(d) < w.bound)
    BY <1>5, <2>5 DEF Done
  <2>7. DocsUpTo(Done(w, D), 0) = {} /\ DocsUpTo(Done(v, D), m) = {}
    <3>1. \A d \in Done(w, D) : d \in D /\ DocId(d) > 0 /\ DocId(d) > m /\ DocId(d) \in Nat
      BY <1>1, <1>7, <2>1, <2>4, <2>6
    <3>2. Done(v, D) = Done(w, D)
      OBVIOUS
    <3> HIDE DEF m
    <3> QED BY <2>1, <3>1, <3>2 DEF DocsUpTo
  <2>8. m = 0 => docs = {}
    BY <1>7, <2>1, <2>2
  <2>9. \A d \in A : m # 0 => DocId(d) <= m
    <3> SUFFICES ASSUME NEW d \in A, m # 0 PROVE DocId(d) <= m
      OBVIOUS
    <3>1. CASE d \in docs
      BY <2>1, <2>2, <3>1
    <3>2. CASE d \notin docs
      <4>1. PICK e \in docs : DocId(e) = m
        BY <2>3
      <4>2. IsBefore(d, e) /\ d \in D /\ e \in D
        BY <1>3, <3>2, <4>1
      <4> QED BY <4>1, <4>2, StoreOrder
    <3> QED BY <3>1, <3>2
  <2>10. v.bound <= v.state.last_op + 1
    BY <1>1, <1>8, <2>5
  <2>11. m <= v.state.last_op
    <3> DEFINE l == w.state.last_op
               b == w.bound
    <3>1. l \in Nat /\ b \in Nat /\ b <= l + 1 /\ (m = 0 \/ m < b) /\ m \in Nat /\ v.state.last_op = l
      BY <1>1, <1>8, <2>1, <2>4, <2>5
    <3> HIDE DEF l, b, m
    <3> QED BY <3>1
  <2>12. m # 0 => IsWhole(D, m)
    BY <2>2, <2>3 DEF IsWhole
  <2> HIDE DEF A
  <2>13. FullStats(v, D)
    <3>1. m # 0 => \A d \in Unread(v, D) \cup v.pending : DocId(d) <= m
      BY <1>5, <2>5, <2>9
    <3>2. v.stats = Stats(DocsUpTo(Done(v, D), m)) /\ v.clearAt \in Nat /\ v.clearAt <= m
      <4>1. Stats(DocsUpTo(Done(w, D), 0)) = Stats({}) /\ Stats(DocsUpTo(Done(v, D), m)) = Stats({})
        BY <2>7
      <4> QED BY <2>1, <2>5, <4>1
    <3> QED BY <2>5, <2>8, <2>10, <3>1, <3>2 DEF FullStats
  <2>14. CountsOK(v, s, D, n)
    BY <1>6, <2>11, <2>12, CountsKept
  <2> QED BY <2>13, <2>14 DEF StatsOK, WorkStats
<1> QED BY <1>9, <1>10

LEMMA ReadBatchCounts ==
  ASSUME SchedInv, ReadInv, StatsInv, NEW c \in Compactors, ReadBatch(c)
  PROVE  StatsInv'
<1> DEFINE w == compactors[c]
           docs == Highest({d \in bucket_data : DocId(d) < w.bound}, QueryLimit)
           more == Cardinality(docs) = QueryLimit
           bound == Min(Ids(docs) \cup {w.bound})
           compactedOp == IF w.compactedOp = 0 THEN Max(Ids(docs) \cup {0}) ELSE w.compactedOp
           v == [w EXCEPT !.batch = docs, !.more = more, !.bound = bound, !.compactedOp = compactedOp]
<1>1. w.step = "read" /\ w.kind = "full" /\ w.batch = {} /\ Become(c, v) /\ UNCHANGED <<bucket_data, bucket_state, log>>
  BY DEF ReadBatch, Step, storageUnchanged
<1>2. HasFields(w) /\ IsState(w.state) /\ StateOK(bucket_state, bucket_data, log)
      /\ StatsOK(w, bucket_state, bucket_data, log, last_op)
  BY <1>1, StatsFields
<1>3. /\ v.step = w.step /\ v.kind = w.kind /\ v.seen = w.seen /\ v.lastNotPut = w.lastNotPut /\ v.target_op = w.target_op
      /\ v.pending = w.pending /\ v.ops = w.ops /\ v.changed = w.changed /\ v.clearAt = w.clearAt
      /\ v.batch = docs /\ v.more = more /\ v.bound = bound /\ v.compactedOp = compactedOp
      /\ v.stats = w.stats /\ v.state = w.state
  <2> HIDE DEF docs, more, bound, compactedOp
  <2> QED BY <1>2 DEF HasFields
<1>4. IsLog(log, last_op) /\ IsStore(bucket_data, log, last_op) /\ WorkOK(w, bucket_data, log, last_op)
  BY ReadFields
<1>5. SameCounts(bucket_state, bucket_state')
  BY <1>1 DEF SameCounts
<1> HIDE DEF v
<1>6. Unread(v, bucket_data) = Unread(w, bucket_data) /\ Done(v, bucket_data) = Done(w, bucket_data) /\ v.bound \in Nat /\ v.bound <= w.bound
  <2> HIDE DEF w
  <2> QED BY <1>1, <1>2, <1>3, <1>4, BatchIsRead
<1>7. StatsOK(v, bucket_state, bucket_data, log, last_op)
  <2> HIDE DEF w
  <2> QED BY <1>1, <1>2, <1>3, <1>4, <1>6, BatchCounts
<1> HIDE DEF w
<1> QED BY <1>1, <1>2, <1>5, <1>7, CountsStep

-----------------------------------------------------------------------------
(***************************************************************************)
(* A group up to k is done: no other ids are stored, k stays the end of a  *)
(* document, and what comes after it is as it was.                         *)
(***************************************************************************)
IsRewritten(D, E, k) ==
  /\ \A o \in OpsOf(E) : HasId(OpsOf(D), o.op_id)
  /\ IsWhole(D, k) => IsWhole(E, k)
  /\ \A h \in Nat : k <= h => DocsAfter(E, h) = DocsAfter(D, h)

\* A group, and the document that takes its place
IsGroup(w, D, L, k) ==
  /\ w.pending \subseteq D /\ w.pending # {}
  /\ IsRewrite(w.ops, OpsOf(w.pending), w.target_op, L)
  /\ IsKept(w) => w.ops = OpsOf(w.pending)
  /\ \A d \in w.pending : DocId(d) <= k

LEMMA GroupEnd ==
  ASSUME NEW D, NEW L, NEW n, IsStore(D, L, n), NEW w, NEW k \in Nat, IsGroup(w, D, L, k), NEW e \in Doc, e.ops = w.ops
  PROVE  /\ DocId(e) \in Nat /\ DocId(e) <= k
         /\ \A d \in w.pending : DocId(d) <= DocId(e) /\ DocId(d) \in Nat
         /\ e \in D => e \in w.pending
<1>0. w.pending \subseteq D /\ IsRewrite(w.ops, OpsOf(w.pending), w.target_op, L) /\ \A d \in w.pending : DocId(d) <= k
  BY DEF IsGroup
<1>1. \A m \in e.ops : \E f \in w.pending : \E o \in f.ops : m.op_id = o.op_id
  <2> SUFFICES ASSUME NEW m \in e.ops PROVE \E f \in w.pending : \E o \in f.ops : m.op_id = o.op_id
    OBVIOUS
  <2>1. PICK o \in OpsOf(w.pending) : m.op_id = o.op_id
    BY <1>0 DEF IsRewrite
  <2> QED BY <2>1, OpsOfHas
<1>2. PICK m \in e.ops : m.op_id = DocId(e)
  BY DocEnds DEF HasId
<1>3. PICK f \in w.pending : \E o \in f.ops : m.op_id = o.op_id
  BY <1>1
<1>4. PICK o \in f.ops : m.op_id = o.op_id
  BY <1>3
<1>5. o.op_id <= DocId(f) /\ DocId(f) \in Nat /\ DocId(f) <= k /\ o.op_id \in Nat
  BY <1>0, <1>4, OpInDoc
<1>6. DocId(e) \in Nat /\ DocId(e) <= k
  BY <1>2, <1>4, <1>5
<1>7. ASSUME NEW d \in w.pending PROVE DocId(d) <= DocId(e) /\ DocId(d) \in Nat
  <2>1. d \in Doc /\ DocId(d) \in Nat
    BY <1>0, StoreDoc, DocEnds
  <2>2. PICK p \in d.ops : p.op_id = DocId(d)
    BY <2>1, DocEnds DEF HasId
  <2>3. p \in OpsOf(w.pending)
    BY <2>2, OpsOfHas
  <2>4. HasId(e.ops, DocId(d))
    BY <1>0, <2>2, <2>3 DEF IsRewrite
  <2>5. PICK q \in e.ops : q.op_id = DocId(d)
    BY <2>4 DEF HasId
  <2>6. q.op_id <= DocId(e)
    BY <2>5, DocEnds
  <2> QED BY <2>1, <2>5, <2>6
<1>8. e \in D => e \in w.pending
  <2> SUFFICES ASSUME e \in D PROVE e \in w.pending
    OBVIOUS
  <2>1. e = f
    BY <1>0, <1>3, <1>4, SameDoc
  <2> QED BY <2>1
<1> QED BY <1>6, <1>7, <1>8

LEMMA GroupFrame ==
  ASSUME NEW D, NEW L, NEW n, IsStore(D, L, n), NEW w, NEW k \in Nat, IsGroup(w, D, L, k),
         NEW E, E = AfterGroup(w, D), IsStore(E, L, n)
  PROVE  IsRewritten(D, E, k)
<1>0. w.pending \subseteq D /\ IsRewrite(w.ops, OpsOf(w.pending), w.target_op, L) /\ \A d \in w.pending : DocId(d) <= k
  BY DEF IsGroup
<1>1. CASE IsKept(w)
  <2>1. E = D
    BY <1>1 DEF AfterGroup
  <2>2. \A o \in OpsOf(E) : HasId(OpsOf(D), o.op_id)
    BY <2>1 DEF HasId
  <2> QED BY <2>1, <2>2 DEF IsRewritten
<1>2. CASE ~IsKept(w)
  <2> DEFINE e == Document(w.ops, w.target_op)
  <2>1. E = (D \ w.pending) \cup {e} /\ e.ops = w.ops
    BY <1>2 DEF AfterGroup, Document
  <2> HIDE DEF e
  <2>2. e \in Doc /\ e \in E
    BY <2>1, StoreDoc
  <2>3. DocId(e) \in Nat /\ DocId(e) <= k /\ \A d \in w.pending : DocId(d) <= DocId(e) /\ DocId(d) \in Nat
    BY <2>1, <2>2, GroupEnd
  <2>4. ASSUME NEW o \in OpsOf(E) PROVE HasId(OpsOf(D), o.op_id)
    <3>1. PICK d \in E : o \in d.ops
      BY OpsOfHas
    <3>2. CASE d \in D
      BY <3>1, <3>2, OpsOfHas DEF HasId
    <3>3. CASE d = e
      <4>1. PICK p \in OpsOf(w.pending) : o.op_id = p.op_id
        BY <1>0, <2>1, <3>1, <3>3 DEF IsRewrite
      <4>2. p \in OpsOf(D)
        BY <1>0, <4>1, OpsOfHas
      <4> QED BY <4>1, <4>2 DEF HasId
    <3> QED BY <2>1, <3>2, <3>3
  <2>5. ASSUME IsWhole(D, k) PROVE IsWhole(E, k)
    <3>1. PICK d \in D : DocId(d) = k
      BY <2>5 DEF IsWhole
    <3>2. CASE d \in w.pending
      <4>1. DocId(e) = k
        BY <2>3, <3>1, <3>2
      <4> QED BY <2>2, <4>1 DEF IsWhole
    <3>3. CASE d \notin w.pending
      BY <2>1, <3>1, <3>3 DEF IsWhole
    <3> QED BY <3>2, <3>3
  <2>6. ASSUME NEW h \in Nat, k <= h PROVE DocsAfter(E, h) = DocsAfter(D, h)
    <3>1. ~(DocId(e) > h) /\ \A d \in w.pending : ~(DocId(d) > h)
      BY <2>3, <2>6, <1>0
    <3> QED BY <1>0, <2>1, <3>1 DEF DocsAfter
  <2> QED BY <2>4, <2>5, <2>6 DEF IsRewritten
<1> QED BY <1>1, <1>2

LEMMA GroupStatsAre ==
  ASSUME NEW D, NEW L, NEW n, IsStore(D, L, n), NEW w, NEW k \in Nat, IsGroup(w, D, L, k), w.target_op \in Nat,
         NEW e \in Doc, e.ops = w.ops
  PROVE  GroupStats(w) = Stats({e})
<1>1. \E f \in Doc : f.ops = e.ops /\ GroupStats(w) = Stats({f})
  <2>1. CASE IsKept(w)
    <3>1. IsFiniteSet(w.pending) /\ Cardinality(w.pending) = 1
      <4>1. IsFiniteSet(D) /\ w.pending \subseteq D
        BY DEF IsStore, DocsOK, IsGroup
      <4> QED BY <2>1, <4>1, FS_Subset DEF IsKept
    <3>2. PICK f : w.pending = {f}
      BY <3>1, FS_Singleton
    <3>3. f.ops = e.ops
      <4>1. w.ops = OpsOf(w.pending)
        BY <2>1 DEF IsGroup
      <4>2. OpsOf({f}) = f.ops
        BY DEF OpsOf
      <4> QED BY <3>2, <4>1, <4>2
    <3>4. f \in Doc
      BY <3>2, StoreDoc DEF IsGroup
    <3> QED BY <2>1, <3>2, <3>3, <3>4 DEF GroupStats
  <2>2. CASE ~IsKept(w)
    <3> DEFINE f == Document(w.ops, w.target_op)
    <3>0. w.ops \subseteq Op /\ IsFiniteSet(w.ops) /\ w.ops # {}
      BY DocFields
    <3>1. f \in Doc
      BY <3>0, Documents
    <3>2. f.ops = e.ops
      BY DEF Document
    <3>3. GroupStats(w) = Stats({f})
      BY <2>2 DEF GroupStats
    <3> QED BY <3>1, <3>2, <3>3
  <2> QED BY <2>1, <2>2
<1>2. PICK f \in Doc : f.ops = e.ops /\ GroupStats(w) = Stats({f})
  BY <1>1
<1>3. DocsOK({e}) /\ DocsOK({f})
  BY OneDoc
<1>4. Stats({e}).checksum = Stats({f}).checksum /\ Stats({e}).count = Stats({f}).count /\ Stats({e}).chunks = Stats({f}).chunks
  BY <1>2, StatsOne
<1>5. Stats({f}) \in StatsType
      /\ Stats({e}) = [checksum |-> Stats({e}).checksum, count |-> Stats({e}).count, chunks |-> Stats({e}).chunks]
  BY <1>3, StatsAre
<1>6. Stats({f}) = Stats({e})
  BY <1>4, <1>5, StatsEqual
<1> QED BY <1>2, <1>6

\* What the state of the bucket, and the counts of the claim, ask of the documents survives.
LEMMA PrefixKept ==
  ASSUME NEW D, NEW E, NEW L, NEW k \in Nat, NEW s, IsPrefix(s, k, D, L), \A o \in OpsOf(E) : HasId(OpsOf(D), o.op_id)
  PROVE  IsPrefix(s, k, E, L)
<1>1. Cardinality(IdsUpTo(E, k)) <= Cardinality(IdsUpTo(D, k)) /\ Cardinality(IdsUpTo(D, k)) \in Nat /\ Cardinality(IdsUpTo(E, k)) \in Nat
  BY IdsKept
<1> QED BY <1>1 DEF IsPrefix

LEMMA StateKept ==
  ASSUME NEW D, NEW E, NEW L, NEW n \in Nat, NEW s, StateOK(s, D, L), CompactedOK(s, n),
         \A o \in OpsOf(E) : HasId(OpsOf(D), o.op_id)
  PROVE  StateOK(s, E, L)
<1>1. CASE s.compacted_state = None
  BY <1>1 DEF StateOK
<1>2. CASE s.compacted_state # None
  <2>1. s.compacted_state.op_id \in Nat /\ IsPrefix(s.compacted_state, s.compacted_state.op_id, D, L)
    BY <1>2 DEF CompactedOK, StateOK, PrefixOK
  <2>2. IsPrefix(s.compacted_state, s.compacted_state.op_id, E, L)
    BY <2>1, PrefixKept
  <2> QED BY <1>2, <2>2 DEF StateOK, PrefixOK
<1> QED BY <1>1, <1>2

LEMMA CountsMoved ==
  ASSUME NEW w, HasFields(w), IsState(w.state), NEW s, NEW D, NEW n, CountsOK(w, s, D, n), NEW E, IsRewritten(D, E, w.compactedOp),
         NEW v, v.state = w.state, v.compactedOp = w.compactedOp
  PROVE  CountsOK(v, s, E, n)
<1>1. w.state.last_op \in Nat /\ w.compactedOp <= w.state.last_op
  BY DEF CountsOK, IsState
<1>2. DocsAfter(E, w.state.last_op) = DocsAfter(D, w.state.last_op)
  BY <1>1 DEF IsRewritten
<1>3. w.compactedOp # 0 => IsWhole(E, w.compactedOp)
  BY DEF CountsOK, IsRewritten
<1> QED BY <1>2, <1>3 DEF CountsOK

\* A flush of the group: the documents are replaced, or the attempt fails.
LEMMA FlushGroupCounts ==
  ASSUME SchedInv, ReadInv, StatsInv, OneWorker, NEW c \in Compactors, IsBusy(compactors[c]), NEW w, w = compactors[c],
         w.pending \subseteq bucket_data, NEW v, FlushGroup(c, v), UNCHANGED log,
         NEW E, E = AfterGroup(w, bucket_data), StateOK(bucket_state, E, log), StatsOK(v, bucket_state, E, log, last_op)
  PROVE  StatsInv'
<1>0. w.step # "idle"
  BY DEF IsBusy
<1>1. Stored(w.pending) = w.pending
  BY StoredIs DEF ReadInv, IsStore
<1>2. CASE IsKept(w)
  <2>1. Become(c, v) /\ UNCHANGED <<bucket_data, bucket_state>> /\ E = bucket_data
    BY <1>2 DEF FlushGroup, AfterGroup
  <2>2. SameCounts(bucket_state, bucket_state')
    BY <2>1 DEF SameCounts
  <2> QED BY <2>1, <2>2, CountsStep
<1>3. CASE ~IsKept(w) /\ IsUnchanged(w.pending)
  <2>1. bucket_data' = E /\ Become(c, v) /\ bucket_state' = bucket_state
    BY <1>1, <1>3 DEF FlushGroup, AfterGroup
  <2> QED BY <2>1, OwnerStep
<1>4. CASE ~IsKept(w) /\ ~IsUnchanged(w.pending)
  <2>1. Throw(c) /\ UNCHANGED bucket_data
    BY <1>4 DEF FlushGroup
  <2> QED BY <1>0, <2>1, ThrowCounts
<1> QED BY <1>2, <1>3, <1>4

-----------------------------------------------------------------------------
(***************************************************************************)
(* A document of a full compaction joins the group, and the group is done. *)
(***************************************************************************)
LEMMA FullTakes ==
  ASSUME NEW D, NEW L, NEW n, IsLog(L, n), IsStore(D, L, n), NEW w, HasFields(w), NEW m, ReadOK(w, m, D, L, n),
         w.kind = "full", FullStats(w, D), NEW d \in w.batch, \A e \in w.batch : DocId(e) <= DocId(d),
         NEW v, v.kind = w.kind, v.bound = w.bound, v.batch = w.batch \ {d}, v.pending = w.pending \cup {d},
         v.clearAt = w.clearAt, v.compactedOp = w.compactedOp, v.state = w.state, v.stats = w.stats
  PROVE  FullStats(v, D)
<1>1. d \in Unread(w, D)
  BY TakesNewest
<1>2. Unread(v, D) = Unread(w, D) \ {d}
  BY TakesNewest
<1>3. Done(v, D) = Done(w, D)
  BY TakesNewest
<1>4. w.compactedOp # 0
  BY DEF FullStats
<1>5. \A e \in Unread(v, D) \cup v.pending : DocId(e) <= v.compactedOp
  BY <1>1, <1>2, <1>4 DEF FullStats
<1> QED BY <1>3, <1>4, <1>5 DEF FullStats

LEMMA FullGroup ==
  ASSUME NEW D, NEW L, NEW n, NEW w, HasFields(w), NEW m, ReadOK(w, m, D, L, n), w.kind = "full", w.pending # {}, FullStats(w, D)
  PROVE  IsGroup(w, D, L, w.compactedOp) /\ w.compactedOp # 0 /\ w.compactedOp \in Nat /\ w.target_op \in Nat
<1>1. w.pending \subseteq D /\ FullOK(w, m, D, L, n)
  BY DEF ReadOK, IsPass
<1>2. IsRewrite(w.ops, OpsOf(w.pending), w.target_op, L) /\ (IsKept(w) => w.ops = OpsOf(w.pending))
  BY <1>1 DEF FullOK, IsKept
<1>3. w.compactedOp # 0 /\ \A d \in w.pending : DocId(d) <= w.compactedOp
  BY DEF FullStats
<1> QED BY <1>1, <1>2, <1>3 DEF IsGroup, HasFields

LEMMA FullDone ==
  ASSUME NEW D, NEW L, NEW n, IsLog(L, n), IsStore(D, L, n), NEW w, HasFields(w), NEW m, ReadOK(w, m, D, L, n),
         w.kind = "full", w.pending # {}, FullStats(w, D),
         NEW v, v.kind = w.kind, v.bound = w.bound, v.batch = w.batch, v.pending = {}, v.compactedOp = w.compactedOp,
         v.state = w.state, v.stats = Plus(w.stats, GroupStats(w)), v.clearAt = w.clearAt \/ v.clearAt = LastOp(w.ops).op_id,
         NEW E, E = AfterGroup(w, D)
  PROVE  IsStore(E, L, n) /\ FullStats(v, E) /\ IsRewritten(D, E, w.compactedOp)
<1> DEFINE k == w.compactedOp
<1>1. IsGroup(w, D, L, k) /\ k # 0 /\ k \in Nat /\ w.target_op \in Nat
  BY FullGroup
<1>2. IsRewrite(w.ops, OpsOf(w.pending), w.target_op, L) /\ (IsKept(w) => w.ops = OpsOf(w.pending)) /\ w.pending \subseteq D
  BY <1>1 DEF IsGroup
<1>3. IsStore(E, L, n) /\ Unread(v, E) = Unread(w, D)
  BY <1>2, GroupDone
<1>4. \E e \in E : e.ops = w.ops /\ Done(v, E) = Done(w, D) \cup {e}
  BY <1>2, GroupDone
<1>5. PICK e \in E : e.ops = w.ops /\ Done(v, E) = Done(w, D) \cup {e}
  BY <1>4
<1>6. e \in Doc
  BY <1>3, StoreDoc
<1>7. DocId(e) \in Nat /\ DocId(e) <= k /\ (e \in D => e \in w.pending)
  BY <1>1, <1>5, <1>6, GroupEnd
<1>8. IsRewritten(D, E, k)
  BY <1>1, <1>3, GroupFrame
<1> DEFINE A == DocsUpTo(Done(w, D), k)
<1>9. DocsUpTo(Done(v, E), k) = A \cup {e} /\ A \cap {e} = {}
  BY <1>5, <1>7 DEF DocsUpTo, Done
<1>10. DocsOK(A) /\ DocsOK({e})
  <2>1. A \subseteq D
    BY DEF DocsUpTo, Done
  <2> HIDE DEF A
  <2> QED BY <1>6, <2>1, PartStats, OneDoc
<1>11. w.stats = Stats(A)
  BY DEF FullStats
<1> HIDE DEF A
<1>12. Stats(A \cup {e}) = Plus(Stats(A), Stats({e}))
  BY <1>9, <1>10, StatsAdd
<1>13. GroupStats(w) = Stats({e})
  BY <1>1, <1>5, <1>6, GroupStatsAre
<1>14. v.stats = Stats(DocsUpTo(Done(v, E), k))
  BY <1>9, <1>11, <1>12, <1>13
<1>15. v.clearAt \in Nat /\ v.clearAt <= k
  <2>1. w.clearAt \in Nat /\ w.clearAt <= k
    BY DEF FullStats
  <2>2. DocId(e) = LastOp(w.ops).op_id
    BY <1>5 DEF DocId
  <2> QED BY <1>7, <2>1, <2>2
<1>16. \A d \in Unread(v, E) \cup v.pending : DocId(d) <= k
  BY <1>1, <1>3 DEF FullStats
<1>17. v.bound <= v.state.last_op + 1
  BY DEF FullStats
<1>18. FullStats(v, E)
  BY <1>1, <1>14, <1>15, <1>16, <1>17 DEF FullStats
<1> QED BY <1>3, <1>8, <1>18

LEMMA WithMore ==
  ASSUME NEW w, HasFields(w), NEW d, NEW s, NEW v, v = WithScanned(w, d, s)
  PROVE  v.state = w.state /\ v.stats = w.stats
<1> DEFINE changed == w.changed \/ s.changed
           target == Max({w.target_op, s.target_op})
           u == [w EXCEPT !.batch = @ \ {d}, !.seen = s.seen, !.lastNotPut = s.lastNotPut, !.opsSincePut = s.opsSincePut,
                          !.pending = @ \cup {d}, !.ops = @ \cup s.ops, !.changed = changed, !.target_op = target]
<1>1. v = u
  BY DEF WithScanned
<1> HIDE DEF changed, target
<1>2. u.state = w.state /\ u.stats = w.stats
  BY DEF HasFields
<1> QED BY <1>1, <1>2

LEMMA FlushedMore ==
  ASSUME NEW w, HasFields(w), NEW m, NEW v, v = Flushed(w, m)
  PROVE  v.state = w.state /\ v.stats = Plus(w.stats, GroupStats(w))
<1> DEFINE u == NoGroup(w)
           stats == Plus(u.stats, GroupStats(w))
           at == IF m \in FirstOp(w.ops).op_id .. LastOp(w.ops).op_id THEN LastOp(w.ops).op_id ELSE u.clearAt
<1>1. u.state = w.state /\ u.stats = w.stats /\ HasFields(u)
  BY DEF NoGroup, HasFields, Null
<1>2. v = Counting(u, stats, at)
  BY DEF Flushed, Counting
<1>3. stats = Plus(w.stats, GroupStats(w))
  BY <1>1
<1> HIDE DEF u, stats, at
<1>4. \A t : HasFields(t) => Counting(t, stats, at).state = t.state /\ Counting(t, stats, at).stats = stats
  BY DEF HasFields, Counting
<1> QED BY <1>1, <1>2, <1>3, <1>4

LEMMA WithBasics ==
  ASSUME NEW w, HasFields(w), NEW d, NEW s, NEW v, v = WithScanned(w, d, s)
  PROVE  /\ v.step = w.step /\ v.kind = w.kind /\ v.bound = w.bound /\ v.clearAt = w.clearAt
         /\ v.compactedOp = w.compactedOp /\ v.batch = w.batch \ {d} /\ v.pending = w.pending \cup {d}
<1>1. /\ v.step = w.step /\ v.kind = w.kind /\ v.bound = w.bound /\ v.more = w.more /\ v.clearAt = w.clearAt
      /\ v.compactedOp = w.compactedOp
      /\ v.batch = w.batch \ {d} /\ v.pending = w.pending \cup {d} /\ v.ops = w.ops \cup s.ops /\ v.seen = s.seen
      /\ v.lastNotPut = s.lastNotPut /\ v.target_op = Max({w.target_op, s.target_op})
  BY WithFields
<1> QED BY <1>1

LEMMA DocumentIsCounted ==
  ASSUME NEW D, NEW L, NEW n, IsLog(L, n), IsStore(D, L, n), NEW w, HasFields(w), WorkOK(w, D, L, n),
         w.step = "read", w.kind = "full", NEW t, StatsOK(w, t, D, L, n), NEW d \in w.batch, \A e \in w.batch : DocId(e) <= DocId(d),
         NEW s, NEW v, v = WithScanned(w, d, s)
  PROVE  StatsOK(v, t, D, L, n)
<1>1. ReadOK(w, w.lastNotPut, D, L, n)
  BY DEF WorkOK
<1>2. FullStats(w, D) /\ CountsOK(w, t, D, n)
  BY DEF StatsOK, IsBusy, WorkStats
<1>3. /\ v.step = w.step /\ v.kind = w.kind /\ v.bound = w.bound /\ v.clearAt = w.clearAt
      /\ v.compactedOp = w.compactedOp /\ v.batch = w.batch \ {d} /\ v.pending = w.pending \cup {d}
  BY WithBasics
<1>4. v.state = w.state /\ v.stats = w.stats
  BY WithMore
<1>5. FullStats(v, D)
  BY <1>1, <1>2, <1>3, <1>4, FullTakes
<1>6. CountsOK(v, t, D, n)
  BY <1>2, <1>3, <1>4, CountsKept DEF CountsOK
<1> QED BY <1>3, <1>5, <1>6 DEF StatsOK, WorkStats

LEMMA NotPutUnknown ==
  ASSUME NEW D, NEW L, NEW n, NEW w, NEW m, ReadOK(w, m, D, L, n)
  PROVE  ReadOK(w, Null, D, L, n)
BY DEF ReadOK, FullOK, NotPutOK

LEMMA FlushIsCounted ==
  ASSUME NEW D, NEW L, NEW n, IsLog(L, n), IsStore(D, L, n), NEW w, HasFields(w), WorkOK(w, D, L, n), IsState(w.state),
         w.step = "read", w.kind = "full", w.pending # {}, NEW t, StatsOK(w, t, D, L, n), NEW m,
         NEW u, u = Flushed(w, m), NEW E, E = AfterGroup(w, D)
  PROVE  /\ IsStore(E, L, n) /\ ReadOK(u, Null, E, L, n) /\ FullStats(u, E) /\ CountsOK(u, t, E, n)
         /\ IsRewritten(D, E, w.compactedOp) /\ u.kind = "full" /\ u.step = "read" /\ u.batch = w.batch /\ HasFields(u)
<1>1. ReadOK(w, Null, D, L, n)
  BY NotPutUnknown DEF WorkOK
<1>2. FullStats(w, D) /\ CountsOK(w, t, D, n)
  BY DEF StatsOK, IsBusy, WorkStats
<1>3. /\ u.step = w.step /\ u.kind = w.kind /\ u.bound = w.bound /\ u.more = w.more /\ u.batch = w.batch /\ u.seen = w.seen
      /\ u.pending = {} /\ u.ops = {} /\ u.target_op = Null /\ u.compactedOp = w.compactedOp
      /\ HasFields(u)
  BY FlushedFields
<1>4. u.clearAt = (IF m \in FirstOp(w.ops).op_id .. LastOp(w.ops).op_id THEN LastOp(w.ops).op_id ELSE w.clearAt)
  BY FlushedFields
<1>5. u.state = w.state /\ u.stats = Plus(w.stats, GroupStats(w))
  BY FlushedMore
<1>6. ReadOK(u, Null, E, L, n)
  BY <1>1, <1>3, <1>4, FlushFull
<1>7. u.clearAt = w.clearAt \/ u.clearAt = LastOp(w.ops).op_id
  BY <1>4
<1>8. IsStore(E, L, n)
  BY <1>1, <1>2, <1>3, <1>5, <1>7, FullDone
<1>9. FullStats(u, E)
  BY <1>1, <1>2, <1>3, <1>5, <1>7, FullDone
<1>10. IsRewritten(D, E, w.compactedOp)
  BY <1>1, <1>2, <1>3, <1>5, <1>7, FullDone
<1>11. CountsOK(u, t, E, n)
  BY <1>2, <1>3, <1>5, <1>10, CountsMoved
<1> QED BY <1>3, <1>6, <1>8, <1>9, <1>10, <1>11

LEMMA DocumentStartsCounts ==
  ASSUME NEW D, NEW L, NEW n, IsLog(L, n), IsStore(D, L, n), NEW w, HasFields(w), WorkOK(w, D, L, n), IsState(w.state),
         w.step = "read", w.kind = "full", w.pending # {}, NEW t, StatsOK(w, t, D, L, n), NEW d \in w.batch, \A e \in w.batch : DocId(e) <= DocId(d),
         NEW s, NEW u, u = Flushed(w, s.lastNotPut), NEW v, v = WithScanned(u, d, s), NEW E, E = AfterGroup(w, D)
  PROVE  StatsOK(v, t, E, L, n) /\ IsRewritten(D, E, w.compactedOp)
<1>1. /\ IsStore(E, L, n) /\ ReadOK(u, Null, E, L, n) /\ FullStats(u, E) /\ CountsOK(u, t, E, n)
      /\ IsRewritten(D, E, w.compactedOp) /\ u.kind = "full" /\ u.step = "read" /\ u.batch = w.batch /\ HasFields(u)
  BY FlushIsCounted
<1>2. /\ v.step = u.step /\ v.kind = u.kind /\ v.bound = u.bound /\ v.clearAt = u.clearAt
      /\ v.compactedOp = u.compactedOp /\ v.batch = u.batch \ {d} /\ v.pending = u.pending \cup {d}
  BY <1>1, WithBasics
<1>3. v.state = u.state /\ v.stats = u.stats
  BY <1>1, WithMore
<1>4. FullStats(v, E)
  BY <1>1, <1>2, <1>3, FullTakes
<1>5. CountsOK(v, t, E, n)
  BY <1>1, <1>2, <1>3, CountsKept DEF CountsOK
<1>6. StatsOK(v, t, E, L, n)
  BY <1>1, <1>2, <1>4, <1>5 DEF StatsOK, WorkStats
<1> QED BY <1>1, <1>6

LEMMA CompactDocumentCounts ==
  ASSUME SchedInv, ReadInv, StatsInv, OneWorker, NEW c \in Compactors, CompactDocument(c)
  PROVE  StatsInv'
<1> DEFINE w == compactors[c]
           d == CHOOSE e \in w.batch : \A f \in w.batch : DocId(f) <= DocId(e)
           s == ScanDocument(w, d)
           t == WithScanned(w, d, s)
           u == Flushed(w, s.lastNotPut)
           v == WithScanned(u, d, s)
<1>1. /\ w.step = "read" /\ w.kind = "full" /\ w.batch # {} /\ UNCHANGED log
      /\ \/ Become(c, t) /\ UNCHANGED <<bucket_data, bucket_state>>
         \/ w.pending # {} /\ FlushGroup(c, v)
  BY DEF CompactDocument, Step, storageUnchanged, WithScanned
<1>2. HasFields(w) /\ IsFiniteSet(w.batch) /\ IsBusy(w)
  BY <1>1, SchedFields DEF IsWorker, IsBusy
<1>3. d \in w.batch /\ \A e \in w.batch : DocId(e) <= DocId(d)
  <2>1. DocsOK(w.batch)
    BY <1>2 DEF HasFields, DocsOK
  <2> QED BY <1>1, <2>1, EndDocs
<1>4. IsLog(log, last_op) /\ IsStore(bucket_data, log, last_op) /\ WorkOK(w, bucket_data, log, last_op)
  BY ReadFields
<1>5. /\ CompactedOK(bucket_state, last_op) /\ StateOK(bucket_state, bucket_data, log) /\ last_op \in Nat
      /\ StatsOK(w, bucket_state, bucket_data, log, last_op) /\ IsState(w.state)
  BY <1>1, StatsFields
<1> HIDE DEF d
<1>6. CASE Become(c, t) /\ UNCHANGED <<bucket_data, bucket_state>>
  <2>1. StatsOK(t, bucket_state, bucket_data, log, last_op)
    <3> HIDE DEF w, s, t
    <3> QED BY <1>1, <1>2, <1>3, <1>4, <1>5, DocumentIsCounted DEF t
  <2>2. SameCounts(bucket_state, bucket_state')
    BY <1>6 DEF SameCounts
  <2> HIDE DEF t
  <2> QED BY <1>1, <1>5, <1>6, <2>1, <2>2, CountsStep
<1>7. CASE w.pending # {} /\ FlushGroup(c, v)
  <2> DEFINE E == AfterGroup(w, bucket_data)
  <2>1. StatsOK(v, bucket_state, E, log, last_op) /\ IsRewritten(bucket_data, E, w.compactedOp)
    <3> HIDE DEF w, s, u, v
    <3> QED BY <1>1, <1>2, <1>3, <1>4, <1>5, <1>7, DocumentStartsCounts DEF u, v
  <2>2. w.pending \subseteq bucket_data
    BY <1>1, <1>4 DEF WorkOK, ReadOK, IsPass
  <2> HIDE DEF v
  <2>3. StateOK(bucket_state, E, log)
    <3> HIDE DEF E
    <3> QED BY <1>5, <2>1, StateKept DEF IsRewritten
  <2> QED BY <1>1, <1>2, <1>7, <2>1, <2>2, <2>3, FlushGroupCounts
<1> QED BY <1>1, <1>6, <1>7

-----------------------------------------------------------------------------
LEMMA AfterScanMore ==
  ASSUME NEW u, HasFields(u), NEW v, v = AfterScan(u)
  PROVE  v.kind = u.kind /\ v.state = u.state /\ v.stats = u.stats
BY DEF AfterScan, HasFields

\* The scan is through: all documents up to the first one are counted.
LEMMA ScanEndCounts ==
  ASSUME NEW D, NEW L, NEW n, IsLog(L, n), IsStore(D, L, n), NEW w, HasFields(w), w.kind = "full", FullStats(w, D),
         NEW t, CountsOK(w, t, D, n), w.batch = {}, IsLast(w, D), w.pending = {},
         NEW v, v.step \in {"reschedule", "clear", "finalize"}, v.step # "reschedule" => w.compactedOp # 0,
         v.clearAt = w.clearAt, v.compactedOp = w.compactedOp, v.kind = w.kind, v.state = w.state, v.stats = w.stats
  PROVE  StatsOK(v, t, D, L, n)
<1>1. Done(w, D) = D
  BY DEF IsLast, Done, Unread
<1>2. v.stats = Stats(DocsUpTo(D, v.compactedOp)) /\ v.clearAt \in Nat /\ v.clearAt <= v.compactedOp
  BY <1>1 DEF FullStats
<1>3. v.step = "clear" => ClearStats(v, D)
  BY <1>2 DEF ClearStats
<1>4. ASSUME v.step = "finalize" PROVE FinalStats(v, D, L)
  <2>1. v.compactedOp \in Nat /\ IsWhole(D, v.compactedOp)
    BY <1>4 DEF CountsOK, HasFields
  <2>2. IsPrefix(Stats(DocsUpTo(D, v.compactedOp)), v.compactedOp, D, L)
    BY <2>1, PrefixStats
  <2> QED BY <1>2, <2>2 DEF FinalStats
<1>5. CountsOK(v, t, D, n)
  BY CountsKept DEF CountsOK
<1>6. WorkStats(v, D, L)
  BY <1>3, <1>4 DEF WorkStats
<1> QED BY <1>5, <1>6 DEF StatsOK

LEMMA EndScanCounts ==
  ASSUME SchedInv, ReadInv, StatsInv, OneWorker, NEW c \in Compactors, EndScan(c)
  PROVE  StatsInv'
<1> DEFINE w == compactors[c]
           u == Flushed(w, w.lastNotPut)
           E == AfterGroup(w, bucket_data)
<1>1. /\ w.step = "read" /\ w.kind = "full" /\ w.batch = {} /\ w.more # TRUE /\ UNCHANGED log
      /\ \/ w.pending = {} /\ Become(c, AfterScan(w)) /\ UNCHANGED <<bucket_data, bucket_state>>
         \/ w.pending # {} /\ FlushGroup(c, AfterScan(u))
  BY DEF EndScan, Step, storageUnchanged, AfterScan
<1>2. HasFields(w) /\ IsBusy(w)
  BY <1>1, SchedFields DEF IsBusy
<1>3. IsLog(log, last_op) /\ IsStore(bucket_data, log, last_op) /\ WorkOK(w, bucket_data, log, last_op)
  BY ReadFields
<1>4. /\ CompactedOK(bucket_state, last_op) /\ StateOK(bucket_state, bucket_data, log) /\ last_op \in Nat
      /\ StatsOK(w, bucket_state, bucket_data, log, last_op) /\ IsState(w.state)
  BY <1>1, StatsFields
<1>5. ReadOK(w, w.lastNotPut, bucket_data, log, last_op) /\ FullStats(w, bucket_data) /\ CountsOK(w, bucket_state, bucket_data, last_op)
  BY <1>1, <1>2, <1>3, <1>4 DEF WorkOK, StatsOK, WorkStats
<1>6. CASE w.pending = {} /\ Become(c, AfterScan(w)) /\ UNCHANGED <<bucket_data, bucket_state>>
  <2> DEFINE v == AfterScan(w)
  <2>1. /\ v.step \in {"reschedule", "clear", "finalize"} /\ (v.step # "reschedule" => w.compactedOp # 0)
        /\ v.clearAt = w.clearAt /\ v.compactedOp = w.compactedOp
    BY <1>2, AfterScanFields
  <2>2. v.kind = w.kind /\ v.state = w.state /\ v.stats = w.stats
    BY <1>2, AfterScanMore
  <2>3. Become(c, v) /\ IsLast(w, bucket_data)
    BY <1>1, <1>5, <1>6 DEF ReadOK, FullOK, IsLast
  <2>4. SameCounts(bucket_state, bucket_state')
    BY <1>6 DEF SameCounts
  <2> HIDE DEF v, w
  <2>5. StatsOK(v, bucket_state, bucket_data, log, last_op)
    BY <1>1, <1>2, <1>3, <1>5, <1>6, <2>1, <2>2, <2>3, ScanEndCounts
  <2> QED BY <1>1, <1>4, <1>6, <2>3, <2>4, <2>5, CountsStep
<1>7. CASE w.pending # {} /\ FlushGroup(c, AfterScan(u))
  <2> DEFINE v == AfterScan(u)
  <2>1. /\ IsStore(E, log, last_op) /\ ReadOK(u, Null, E, log, last_op) /\ FullStats(u, E) /\ CountsOK(u, bucket_state, E, last_op)
        /\ IsRewritten(bucket_data, E, w.compactedOp) /\ u.kind = "full" /\ u.step = "read" /\ u.batch = w.batch /\ HasFields(u)
    <3> HIDE DEF w, u, E
    <3> QED BY <1>1, <1>2, <1>3, <1>4, <1>7, FlushIsCounted DEF u, E
  <2>2. u.pending = {} /\ u.more = w.more
    BY <1>2, FlushedFields
  <2> HIDE DEF u
  <2>3. /\ v.step \in {"reschedule", "clear", "finalize"} /\ (v.step # "reschedule" => u.compactedOp # 0)
        /\ v.clearAt = u.clearAt /\ v.compactedOp = u.compactedOp
    BY <2>1, AfterScanFields
  <2>4. v.kind = u.kind /\ v.state = u.state /\ v.stats = u.stats
    BY <2>1, AfterScanMore
  <2>5. FlushGroup(c, v) /\ w.pending \subseteq bucket_data
    BY <1>5, <1>7 DEF ReadOK, IsPass
  <2>6. IsLast(u, E)
    BY <1>1, <2>1, <2>2 DEF ReadOK, FullOK, IsLast
  <2> HIDE DEF v
  <2>7. StatsOK(v, bucket_state, E, log, last_op)
    <3> HIDE DEF w, E
    <3> QED BY <1>1, <1>3, <2>1, <2>2, <2>3, <2>4, <2>6, ScanEndCounts
  <2>8. StateOK(bucket_state, E, log)
    <3> HIDE DEF E, w
    <3> QED BY <1>4, <2>1, StateKept DEF IsRewritten
  <2> QED BY <1>1, <1>2, <2>5, <2>7, <2>8, FlushGroupCounts
<1> QED BY <1>1, <1>6, <1>7

\* Documents up to k are replaced by documents with some of their op ids, and the last of them.
IsReplaced(docs, new, k) ==
  /\ \A d \in docs : DocId(d) <= k
  /\ \A e \in new : \A o \in e.ops : HasId(OpsOf(docs), o.op_id)
  /\ \A d \in docs : \E e \in new : HasId(e.ops, DocId(d)) \/ DocId(d) < DocId(e)

LEMMA ReplacedDocs ==
  ASSUME NEW D, NEW L, NEW n, IsStore(D, L, n), NEW docs, docs \subseteq D, NEW new, NEW k \in Nat, IsReplaced(docs, new, k),
         NEW E, E = (D \ docs) \cup new, IsStore(E, L, n)
  PROVE  /\ DocsOK(docs) /\ DocsOK(new) /\ new \cap (D \ docs) = {}
         /\ \A e \in new : DocId(e) \in Nat /\ DocId(e) <= k
         /\ \A d \in D : DocId(d) \in Nat
<1>1. \A d \in D : DocId(d) \in Nat
  BY StoreOrder
<1>2. DocsOK(docs)
  BY DocsPart DEF IsStore
<1>3. DocsOK(E)
  BY DEF IsStore
<1>4. DocsOK(new)
  BY <1>3, DocsPart
<1>5. ASSUME NEW e \in new PROVE DocId(e) \in Nat /\ DocId(e) <= k
  <2>1. e \in Doc
    BY <1>4 DEF DocsOK
  <2>2. PICK o \in e.ops : o.op_id = DocId(e)
    BY <2>1, DocEnds DEF HasId
  <2>3. PICK p \in OpsOf(docs) : p.op_id = o.op_id
    BY DEF IsReplaced, HasId
  <2>4. PICK d \in docs : p \in d.ops
    BY OpsOfHas
  <2>5. p.op_id <= DocId(d) /\ p.op_id \in Nat /\ DocId(d) \in Nat
    BY <2>4, OpInDoc
  <2>6. DocId(d) <= k
    BY DEF IsReplaced
  <2>7. DocId(e) = p.op_id
    BY <2>2, <2>3
  <2> QED BY <2>5, <2>6, <2>7
<1>6. ASSUME NEW e \in new, e \in D \ docs PROVE FALSE
  <2>1. e.ops # {}
    BY <1>6, StoreDoc
  <2>2. PICK o \in e.ops : TRUE
    BY <2>1
  <2>3. PICK p \in OpsOf(docs) : p.op_id = o.op_id
    BY DEF IsReplaced, HasId
  <2>4. PICK d \in docs : p \in d.ops
    BY OpsOfHas
  <2>5. d = e
    BY <1>6, <2>3, <2>4, SameDoc
  <2> QED BY <1>6, <2>5
<1> QED BY <1>1, <1>2, <1>4, <1>5, <1>6

LEMMA ReplacedIds ==
  ASSUME NEW D, NEW L, NEW n, IsStore(D, L, n), NEW docs, docs \subseteq D, NEW new, NEW k \in Nat, IsReplaced(docs, new, k),
         NEW E, E = (D \ docs) \cup new, IsStore(E, L, n)
  PROVE  IsRewritten(D, E, k)
<1>1. /\ DocsOK(docs) /\ DocsOK(new)
      /\ \A e \in new : DocId(e) \in Nat /\ DocId(e) <= k
      /\ \A d \in D : DocId(d) \in Nat
  BY ReplacedDocs
<1>2. ASSUME NEW o \in OpsOf(E) PROVE HasId(OpsOf(D), o.op_id)
  <2>1. PICK e \in E : o \in e.ops
    BY OpsOfHas
  <2>2. CASE e \in D
    BY <2>1, <2>2, OpsOfHas DEF HasId
  <2>3. CASE e \in new
    <3>1. PICK p \in OpsOf(docs) : p.op_id = o.op_id
      BY <2>1, <2>3 DEF IsReplaced, HasId
    <3>2. p \in OpsOf(D)
      BY OpsOfHas
    <3> QED BY <3>1, <3>2 DEF HasId
  <2> QED BY <2>2, <2>3
<1>3. ASSUME IsWhole(D, k) PROVE IsWhole(E, k)
  <2>1. PICK d \in D : DocId(d) = k
    BY <1>3 DEF IsWhole
  <2>2. CASE d \notin docs
    BY <2>1, <2>2 DEF IsWhole
  <2>3. CASE d \in docs
    <3>1. PICK e \in new : HasId(e.ops, k) \/ k < DocId(e)
      BY <2>1, <2>3 DEF IsReplaced
    <3>2. e \in E /\ DocId(e) \in Nat /\ DocId(e) <= k
      BY <1>1
    <3>3. HasId(e.ops, k)
      BY <3>1, <3>2
    <3>4. k <= DocId(e)
      BY <3>2, <3>3, OpInDoc DEF HasId
    <3> QED BY <3>2, <3>4 DEF IsWhole
  <2> QED BY <2>2, <2>3
<1>4. ASSUME NEW h \in Nat, k <= h PROVE DocsAfter(E, h) = DocsAfter(D, h)
  <2>1. \A d \in docs : ~(DocId(d) > h)
    <3>1. \A d \in docs : DocId(d) <= k /\ DocId(d) \in Nat
      BY <1>1 DEF IsReplaced
    <3> QED BY <1>4, <3>1
  <2>2. \A e \in new : ~(DocId(e) > h)
    BY <1>1, <1>4
  <2> QED BY <2>1, <2>2 DEF DocsAfter
<1> QED BY <1>2, <1>3, <1>4 DEF IsRewritten

LEMMA ReplacedStats ==
  ASSUME NEW D, NEW L, NEW n, IsStore(D, L, n), NEW docs, docs \subseteq D, NEW new, NEW k \in Nat, IsReplaced(docs, new, k),
         NEW E, E = (D \ docs) \cup new, IsStore(E, L, n)
  PROVE  Stats(DocsUpTo(E, k)) = Plus(Minus(Stats(DocsUpTo(D, k)), Stats(docs)), Stats(new))
<1>1. /\ DocsOK(docs) /\ DocsOK(new) /\ new \cap (D \ docs) = {}
      /\ \A e \in new : DocId(e) \in Nat /\ DocId(e) <= k
      /\ \A d \in D : DocId(d) \in Nat
  BY ReplacedDocs
<1> DEFINE A == DocsUpTo(D, k)
<1>2. A \subseteq D /\ docs \subseteq A
  BY DEF IsReplaced, DocsUpTo
<1>3. DocsOK(A)
  BY <1>2, DocsPart DEF IsStore
<1>4. DocsUpTo(E, k) = (A \ docs) \cup new
  BY <1>1 DEF DocsUpTo
<1>5. new \cap (A \ docs) = {}
  BY <1>1, <1>2
<1> HIDE DEF A
<1>6. Stats((A \ docs) \cup new) = Plus(Minus(Stats(A), Stats(docs)), Stats(new))
  BY <1>1, <1>2, <1>3, <1>5, StatsReplaced
<1> QED BY <1>4, <1>6 DEF A

LEMMA ClearOfOps ==
  ASSUME NEW id, NEW ops, NEW docs, NEW e, e = ClearOf(id, ops, docs)
  PROVE  HasId(e.ops, id) /\ \A o \in e.ops : o.op_id = id
<1> DEFINE x == [op |-> "CLEAR", op_id |-> id, row |-> None, data |-> None, checksum |-> SumChecksums(ops), target_op |-> Null]
<1>1. e = Document({x}, Targets(docs)) /\ x.op_id = id
  BY DEF ClearOf
<1> HIDE DEF x
<1>2. e.ops = {x}
  BY <1>1 DEF Document
<1> QED BY <1>1, <1>2 DEF HasId

LEMMA LeadingReplaces ==
  ASSUME NEW D, NEW L, NEW n, IsLog(L, n), IsStore(D, L, n), NEW w,
         NEW docs, docs = Lowest({d \in D : DocId(d) < w.clearAt}, ClearBatchLimit), docs # {},
         NEW k \in Nat, w.clearAt \in Nat, w.clearAt <= k,
         NEW new, new = {ClearOf(Max(Ids(docs)), OpsOf(docs), docs)}
  PROVE  docs \subseteq D /\ IsReplaced(docs, new, k)
<1> DEFINE A == {d \in D : DocId(d) < w.clearAt}
<1>1. DocsOK(A) /\ InOrder(A) /\ A \subseteq D /\ \A d \in A : DocId(d) < w.clearAt
  <2>1. DocsOK(D) /\ InOrder(D)
    BY DEF IsStore
  <2> QED BY <2>1, DocsPart DEF InOrder
<1> HIDE DEF A
<1>2. docs \subseteq A
  BY <1>1, LimitedIs, MongoLimits DEF A
<1>3. DocsOK(docs)
  BY <1>1, <1>2, DocsPart
<1>4. Max(Ids(docs)) \in Ids(docs) /\ \A id \in Ids(docs) : id <= Max(Ids(docs))
  <2>1. IsFiniteSet(Ids(docs)) /\ Ids(docs) \subseteq Nat /\ Ids(docs) # {}
    BY <1>3, IdsOK DEF Ids
  <2>2. Max(Ids(docs)) \in Ids(docs) /\ \A id \in Ids(docs) : Max(Ids(docs)) >= id
    BY <2>1, MaxIs
  <2> QED BY <2>1, <2>2
<1>5. PICK h \in docs : DocId(h) = Max(Ids(docs))
  BY <1>4, IdOfDoc
<1> DEFINE e == ClearOf(Max(Ids(docs)), OpsOf(docs), docs)
<1>6. HasId(e.ops, Max(Ids(docs))) /\ \A o \in e.ops : o.op_id = Max(Ids(docs))
  BY ClearOfOps
<1> HIDE DEF e
<1>7. new = {e}
  BY DEF e
<1>8. HasId(OpsOf(docs), DocId(h))
  <2>1. h \in D /\ h \in Doc
    BY <1>1, <1>2, StoreDoc
  <2>2. HasId(h.ops, DocId(h))
    BY <2>1, DocEnds
  <2> QED BY <2>2, OpsOfHas DEF HasId
<1>9. \A f \in new : \A o \in f.ops : HasId(OpsOf(docs), o.op_id)
  BY <1>5, <1>6, <1>7, <1>8
<1>10. ASSUME NEW d \in docs PROVE DocId(d) <= k /\ (HasId(e.ops, DocId(d)) \/ DocId(d) < DocId(h)) /\ DocId(h) \in Nat /\ DocId(d) \in Nat
  <2>1. d \in D /\ DocId(d) \in Nat /\ DocId(h) \in Nat /\ DocId(d) < w.clearAt
    BY <1>1, <1>2, StoreOrder
  <2>2. DocId(d) <= DocId(h)
    BY <1>4, <1>5, IdOfDoc
  <2>3. DocId(d) <= k
    BY <2>1
  <2>4. DocId(d) = DocId(h) \/ DocId(d) < DocId(h)
    BY <2>1, <2>2
  <2> QED BY <1>5, <1>6, <2>1, <2>3, <2>4
<1>11. DocId(e) = DocId(h)
  <2>1. Max(Ids(docs)) \in Nat /\ Max(Ids(docs)) > 0
    BY <1>3, <1>4, IdsOK
  <2>2. OpsOf(docs) \subseteq Op /\ IsFiniteSet(OpsOf(docs))
    BY <1>3, OpsOfOK
  <2>3. e \in Doc
    BY <1>3, <2>1, <2>2, ClearOfIs DEF e
  <2>4. HasId(e.ops, DocId(e))
    BY <2>3, DocEnds
  <2> QED BY <1>5, <1>6, <2>4 DEF HasId
<1>12. \A d \in docs : \E f \in new : HasId(f.ops, DocId(d)) \/ DocId(d) < DocId(f)
  BY <1>7, <1>10, <1>11
<1> QED BY <1>1, <1>2, <1>9, <1>10, <1>12 DEF IsReplaced

BoundaryDocs(w, docs, prefix, rest) ==
  {ClearOf(w.lastNotPut, prefix, docs)} \cup (IF rest = {} THEN {} ELSE {Document(rest, Targets(docs))})

LEMMA BoundaryReplaces ==
  ASSUME NEW D, NEW L, NEW n, IsLog(L, n), IsStore(D, L, n), NEW w, ClearOK(w, D),
         NEW docs, docs = {d \in D : DocId(d) <= w.clearAt},
         NEW prefix, NEW rest, prefix = {o \in OpsOf(docs) : o.op_id <= w.lastNotPut}, rest = OpsOf(docs) \ prefix,
         NEW k \in Nat, w.clearAt \in Nat, w.clearAt <= k,
         NEW new, new = BoundaryDocs(w, docs, prefix, rest),
         DocsOK(new)
  PROVE  docs \subseteq D /\ IsReplaced(docs, new, k)
<1> DEFINE e == ClearOf(w.lastNotPut, prefix, docs)
           r == Document(rest, Targets(docs))
<1>1. HasId(e.ops, w.lastNotPut) /\ \A o \in e.ops : o.op_id = w.lastNotPut
  BY ClearOfOps
<1>2. r.ops = rest
  BY DEF Document
<1> HIDE DEF e, r
<1>3. e \in new /\ (rest # {} => r \in new) /\ \A f \in new : f = e \/ (f = r /\ rest # {})
  BY DEF e, r, BoundaryDocs
<1>4. PICK f \in D : DocId(f) = w.clearAt /\ HasId(f.ops, w.lastNotPut)
  BY DEF ClearOK
<1>5. \A d \in D : DocId(d) \in Nat
  BY StoreOrder
<1>6. f \in docs /\ docs \subseteq D
  BY <1>4, <1>5
<1>7. HasId(OpsOf(docs), w.lastNotPut)
  BY <1>4, <1>6, OpsOfHas DEF HasId
<1>8. ASSUME NEW g \in new, NEW o \in g.ops PROVE HasId(OpsOf(docs), o.op_id)
  <2>1. CASE g = e
    BY <1>1, <1>7, <2>1
  <2>2. CASE g = r
    <3>1. o \in OpsOf(docs)
      BY <1>2, <2>2
    <3> QED BY <3>1 DEF HasId
  <2> QED BY <1>3, <2>1, <2>2
<1>9. \A d \in docs : DocId(d) <= k
  <2>1. \A d \in docs : DocId(d) <= w.clearAt /\ DocId(d) \in Nat
    BY <1>5
  <2> QED BY <2>1
<1>10. ASSUME NEW d \in docs PROVE \E g \in new : HasId(g.ops, DocId(d)) \/ DocId(d) < DocId(g)
  <2>1. d \in D /\ d \in Doc
    BY <1>6, StoreDoc
  <2>2. PICK o \in d.ops : o.op_id = DocId(d)
    BY <2>1, DocEnds DEF HasId
  <2>3. o \in OpsOf(docs) /\ o.op_id \in Nat
    BY <2>1, <2>2, OpsOfHas, StoreDoc
  <2>4. CASE o \in rest
    <3>1. r \in new /\ HasId(r.ops, DocId(d))
      BY <1>2, <1>3, <2>2, <2>4 DEF HasId
    <3> QED BY <3>1
  <2>5. CASE o \notin rest
    <3>1. o.op_id <= w.lastNotPut
      BY <2>3, <2>5
    <3>2. e \in Doc
      BY <1>3 DEF DocsOK
    <3>3. HasId(e.ops, DocId(e)) /\ DocId(e) \in Nat
      BY <3>2, DocEnds
    <3>4. DocId(e) = w.lastNotPut
      BY <1>1, <3>3 DEF HasId
    <3>5. DocId(d) = DocId(e) \/ DocId(d) < DocId(e)
      BY <2>2, <2>3, <3>1, <3>3, <3>4
    <3> QED BY <1>3, <3>3, <3>5
  <2> QED BY <2>4, <2>5
<1> QED BY <1>6, <1>8, <1>9, <1>10 DEF IsReplaced

-----------------------------------------------------------------------------
LEMMA ClearLeadingCounts ==
  ASSUME SchedInv, ReadInv, StatsInv, OneWorker, NEW c \in Compactors, ClearLeading(c)
  PROVE  StatsInv'
<1> DEFINE w == compactors[c]
           docs == Lowest({d \in bucket_data : DocId(d) < w.clearAt}, ClearBatchLimit)
           new == {ClearOf(Max(Ids(docs)), OpsOf(docs), docs)}
           stats == Plus(Minus(w.stats, Stats(docs)), Stats(new))
           u == WithStep(w, "boundary")
           v == WithStats(w, stats)
           E == (bucket_data \ docs) \cup new
<1>1. /\ w.step = "clear" /\ UNCHANGED <<checkpoint, log>>
      /\ \/ Throw(c) /\ UNCHANGED bucket_data
         \/ Become(c, u) /\ UNCHANGED <<bucket_data, bucket_state>>
         \/ docs # {} /\ bucket_data' = E /\ Become(c, v) /\ UNCHANGED bucket_state
  BY DEF ClearLeading, Step, storageUnchanged, Cleared, WithStep, WithStats
<1>2. HasFields(w) /\ IsBusy(w)
  BY <1>1, SchedFields DEF IsBusy
<1>3. IsLog(log, last_op) /\ IsStore(bucket_data, log, last_op) /\ WorkOK(w, bucket_data, log, last_op)
  BY ReadFields
<1>4. /\ CompactedOK(bucket_state, last_op) /\ StateOK(bucket_state, bucket_data, log) /\ last_op \in Nat
      /\ StatsOK(w, bucket_state, bucket_data, log, last_op) /\ IsState(w.state)
  BY <1>1, StatsFields
<1>5. ClearStats(w, bucket_data) /\ CountsOK(w, bucket_state, bucket_data, last_op) /\ w.compactedOp \in Nat
  BY <1>1, <1>2, <1>4 DEF StatsOK, WorkStats, HasFields
<1>6. CASE Throw(c) /\ UNCHANGED bucket_data
  BY <1>1, <1>6, ThrowCounts
<1>7. CASE Become(c, u) /\ UNCHANGED <<bucket_data, bucket_state>>
  <2>1. /\ u.step = "boundary" /\ u.kind = w.kind /\ u.clearAt = w.clearAt /\ u.compactedOp = w.compactedOp
        /\ u.stats = w.stats /\ u.state = w.state
    BY <1>2 DEF HasFields, WithStep
  <2>2. SameCounts(bucket_state, bucket_state')
    BY <1>7 DEF SameCounts
  <2> HIDE DEF u, w
  <2>3. CountsOK(u, bucket_state, bucket_data, last_op)
    BY <1>5, <2>1 DEF CountsOK
  <2>4. ClearStats(u, bucket_data)
    BY <1>5, <2>1 DEF ClearStats
  <2>5. StatsOK(u, bucket_state, bucket_data, log, last_op)
    BY <2>1, <2>3, <2>4 DEF StatsOK, WorkStats
  <2> QED BY <1>1, <1>4, <1>7, <2>2, <2>5, CountsStep
<1>8. CASE docs # {} /\ bucket_data' = E /\ Become(c, v) /\ UNCHANGED bucket_state
  <2>1. IsStore(E, log, last_op) /\ ClearOK(w, E)
    <3> HIDE DEF w, docs
    <3> QED BY <1>1, <1>2, <1>3, <1>8, LeadingIsCleared DEF docs
  <2>2. docs \subseteq bucket_data /\ IsReplaced(docs, new, w.compactedOp)
    <3>1. w.clearAt \in Nat /\ w.clearAt <= w.compactedOp
      BY <1>5 DEF ClearStats
    <3> HIDE DEF w, docs, new
    <3> QED BY <1>3, <1>5, <1>8, <3>1, LeadingReplaces DEF docs, new
  <2>3. IsRewritten(bucket_data, E, w.compactedOp)
    <3> HIDE DEF w, docs, new
    <3> QED BY <1>3, <1>5, <2>1, <2>2, ReplacedIds
  <2>4. Stats(DocsUpTo(E, w.compactedOp)) = Plus(Minus(Stats(DocsUpTo(bucket_data, w.compactedOp)), Stats(docs)), Stats(new))
    <3> HIDE DEF w, docs, new
    <3> QED BY <1>3, <1>5, <2>1, <2>2, ReplacedStats
  <2>5. stats = Stats(DocsUpTo(E, w.compactedOp))
    BY <1>5, <2>4 DEF ClearStats
  <2> HIDE DEF stats, docs, new, E
  <2>6. /\ v.step = "clear" /\ v.kind = w.kind /\ v.clearAt = w.clearAt /\ v.compactedOp = w.compactedOp
        /\ v.stats = stats /\ v.state = w.state
    BY <1>1, <1>2 DEF HasFields, WithStats
  <2> HIDE DEF v, w
  <2>7. ClearStats(v, E)
    BY <1>5, <2>5, <2>6 DEF ClearStats
  <2>8. CountsOK(v, bucket_state, E, last_op)
    BY <1>2, <1>4, <1>5, <2>3, <2>6, CountsMoved
  <2>9. StatsOK(v, bucket_state, E, log, last_op)
    BY <2>6, <2>7, <2>8 DEF StatsOK, WorkStats
  <2>10. StateOK(bucket_state, E, log)
    BY <1>4, <2>3, StateKept DEF IsRewritten
  <2> QED BY <1>1, <1>2, <1>8, <2>9, <2>10, OwnerStep DEF w
<1> QED BY <1>1, <1>6, <1>7, <1>8

LEMMA ClearBoundaryCounts ==
  ASSUME SchedInv, ReadInv, StatsInv, OneWorker, NEW c \in Compactors, ClearBoundary(c)
  PROVE  StatsInv'
<1> DEFINE w == compactors[c]
           docs == {d \in bucket_data : DocId(d) <= w.clearAt}
           prefix == {o \in OpsOf(docs) : o.op_id <= w.lastNotPut}
           rest == OpsOf(docs) \ prefix
           new == {ClearOf(w.lastNotPut, prefix, docs)} \cup
                  (IF rest = {} THEN {} ELSE {Document(rest, Targets(docs))})
           stats == Plus(Minus(w.stats, Stats(docs)), Stats(new))
           v == WithBoth(w, "finalize", stats)
           E == (bucket_data \ docs) \cup new
<1>1. /\ w.step = "boundary" /\ UNCHANGED <<checkpoint, log>>
      /\ \/ Throw(c) /\ UNCHANGED bucket_data
         \/ bucket_data' = E /\ Become(c, [Cleared(w, docs, new) EXCEPT !.step = "finalize"]) /\ UNCHANGED bucket_state
  BY DEF ClearBoundary, Step, storageUnchanged
<1>2. HasFields(w) /\ IsBusy(w)
  BY <1>1, SchedFields DEF IsBusy
<1>3. IsLog(log, last_op) /\ IsStore(bucket_data, log, last_op) /\ WorkOK(w, bucket_data, log, last_op)
  BY ReadFields
<1>4. /\ CompactedOK(bucket_state, last_op) /\ StateOK(bucket_state, bucket_data, log) /\ last_op \in Nat
      /\ StatsOK(w, bucket_state, bucket_data, log, last_op) /\ IsState(w.state)
  BY <1>1, StatsFields
<1>5. /\ ClearStats(w, bucket_data) /\ CountsOK(w, bucket_state, bucket_data, last_op) /\ w.compactedOp \in Nat
      /\ ClearOK(w, bucket_data) /\ w.compactedOp # 0
  BY <1>1, <1>2, <1>3, <1>4 DEF StatsOK, WorkStats, HasFields, WorkOK
<1>6. CASE Throw(c) /\ UNCHANGED bucket_data
  BY <1>1, <1>6, ThrowCounts
<1>7. CASE bucket_data' = E /\ Become(c, [Cleared(w, docs, new) EXCEPT !.step = "finalize"]) /\ UNCHANGED bucket_state
  <2>1. IsStore(E, log, last_op)
    <3> HIDE DEF w, docs
    <3> QED BY <1>3, <1>5, BoundaryIsCleared DEF docs
  <2>2. Become(c, v)
    <3> HIDE DEF docs, new, w
    <3>1. v = [Cleared(w, docs, new) EXCEPT !.step = "finalize"]
      BY <1>2 DEF WithBoth, Cleared, HasFields
    <3> HIDE DEF v
    <3> QED BY <1>7, <3>1
  <2>3. docs \subseteq bucket_data /\ IsReplaced(docs, new, w.compactedOp)
    <3>1. w.clearAt \in Nat /\ w.clearAt <= w.compactedOp
      BY <1>5 DEF ClearStats
    <3>2. DocsOK(new)
      <4>1. DocsOK(E)
        BY <2>1 DEF IsStore
      <4> HIDE DEF new
      <4> QED BY <4>1, DocsPart
    <3>3. docs = {d \in bucket_data : DocId(d) <= w.clearAt}
      OBVIOUS
    <3>4. prefix = {o \in OpsOf(docs) : o.op_id <= w.lastNotPut} /\ rest = OpsOf(docs) \ prefix
      OBVIOUS
    <3>5. new = BoundaryDocs(w, docs, prefix, rest)
      BY DEF BoundaryDocs
    <3> HIDE DEF w, docs, prefix, rest, new
    <3> QED BY <1>3, <1>5, <3>1, <3>2, <3>3, <3>4, <3>5, BoundaryReplaces
  <2>4. IsRewritten(bucket_data, E, w.compactedOp)
    <3> HIDE DEF w, docs, new
    <3> QED BY <1>3, <1>5, <2>1, <2>3, ReplacedIds
  <2>5. Stats(DocsUpTo(E, w.compactedOp)) = Plus(Minus(Stats(DocsUpTo(bucket_data, w.compactedOp)), Stats(docs)), Stats(new))
    <3> HIDE DEF w, docs, new
    <3> QED BY <1>3, <1>5, <2>1, <2>3, ReplacedStats
  <2>6. stats = Stats(DocsUpTo(E, w.compactedOp))
    <3>1. w.stats = Stats(DocsUpTo(bucket_data, w.compactedOp))
      BY <1>5 DEF ClearStats
    <3>2. stats = Plus(Minus(w.stats, Stats(docs)), Stats(new))
      OBVIOUS
    <3> HIDE DEF w, docs, new, stats
    <3> QED BY <2>5, <3>1, <3>2
  <2> HIDE DEF stats, docs, new, E
  <2>7. /\ v.step = "finalize" /\ v.kind = w.kind /\ v.compactedOp = w.compactedOp
        /\ v.stats = stats /\ v.state = w.state
    BY <1>1, <1>2 DEF HasFields, WithBoth
  <2> HIDE DEF v, w
  <2>8. CountsOK(v, bucket_state, E, last_op)
    BY <1>2, <1>4, <1>5, <2>4, <2>7, CountsMoved
  <2>9. IsWhole(E, w.compactedOp)
    BY <1>5, <2>7, <2>8 DEF CountsOK
  <2>10. IsPrefix(Stats(DocsUpTo(E, w.compactedOp)), w.compactedOp, E, log)
    BY <1>3, <1>5, <2>1, <2>9, PrefixStats
  <2>11. FinalStats(v, E, log)
    BY <2>6, <2>7, <2>10 DEF FinalStats
  <2>12. StatsOK(v, bucket_state, E, log, last_op)
    BY <2>7, <2>8, <2>11 DEF StatsOK, WorkStats
  <2>13. StateOK(bucket_state, E, log)
    BY <1>4, <2>4, StateKept DEF IsRewritten
  <2> QED BY <1>1, <1>2, <1>7, <2>2, <2>12, <2>13, OwnerStep DEF w
<1> QED BY <1>1, <1>6, <1>7

-----------------------------------------------------------------------------
(***************************************************************************)
(* Chunks. What the cached prefix shares with the documents that are read  *)
(* is the document the prefix ends in.                                     *)
(***************************************************************************)
LEMMA LowBeyond ==
  ASSUME NEW A, NEW d, NEW p \in Nat, \A o \in d.ops : o.op_id \in Nat /\ o.op_id > p
  PROVE  LowOps(A \cup {d}, p) = LowOps(A, p)
<1>1. \A o \in d.ops : ~(o.op_id <= p)
  OBVIOUS
<1> QED BY <1>1 DEF LowOps, OpsOf

LEMMA LowOfOne ==
  ASSUME NEW d, NEW p, \A o \in d.ops : o.op_id <= p
  PROVE  LowOps({d}, p) = d.ops
BY DEF LowOps, OpsOf

LEMMA ChunkOverlaps ==
  ASSUME NEW D, NEW L, NEW n, IsLog(L, n), IsStore(D, L, n), NEW w, HasFields(w), NEW m, ReadOK(w, m, D, L, n), w.kind = "chunks",
         ChunkStats(w, D, L), w.previous # None, NEW d \in w.batch, d \in D, d \in Unread(w, D),
         \A e \in Unread(w, D) : e = d \/ Ahead(w.kind, e, d),
         NEW v, v.kind = w.kind, v.batch = w.batch \ {d}, v.pending = w.pending \cup {d}, v.previous = w.previous, v.state = w.state,
         v.verify = w.verify, v.compactedOp = w.compactedOp,
         Unread(v, D) = Unread(w, D) \ {d}, Done(v, D) = Done(w, D),
         v.overlap = IF w.previous.op_id = DocId(d) THEN Stats({d}) ELSE w.overlap
  PROVE  OverlapOK(v, D, L)
<1> DEFINE p == w.previous.op_id
           A == DocsAfter(Done(w, D) \cup w.pending, Base(w))
<1>1. /\ OverlapOK(w, D, L) /\ w.compactedOp # 0 /\ DocId(d) > Base(w) /\ p \in Nat \ {0} /\ Base(w) = p - 1 /\ Base(v) = p - 1
      /\ PrefixOK(w.previous, D, L)
  BY DEF ChunkStats, OverlapOK, Base
<1>2. Low(w, D) = LowOps(A, p) /\ Low(v, D) = LowOps(A \cup {d}, p)
  <2>1. DocsAfter(Done(v, D) \cup v.pending, Base(v)) = A \cup {d}
    BY <1>1 DEF DocsAfter
  <2> QED BY <2>1 DEF Low
<1>3. IsOverlap(w.overlap, Low(w, D))
  BY <1>1 DEF OverlapOK
<1>4. \A e \in A : e \in D /\ DocId(e) > Base(w) /\ IsBefore(e, d)
  <2> SUFFICES ASSUME NEW e \in A PROVE e \in D /\ DocId(e) > Base(w) /\ IsBefore(e, d)
    OBVIOUS
  <2>1. (e \in Done(w, D) \/ e \in w.pending) /\ DocId(e) > Base(w)
    BY DEF DocsAfter
  <2>2. e \in D \ Unread(w, D)
    BY <2>1 DEF Done, ReadOK, IsPass
  <2>3. Ahead(w.kind, d, e)
    BY <2>2 DEF ReadOK, IsPass
  <2> QED BY <2>1, <2>2, <2>3 DEF Ahead
<1>5. DocId(d) \in Nat /\ d \in Doc /\ d.ops # {}
  BY StoreDoc, StoreOrder
<1>6. CASE DocId(d) = p
  <2>1. A = {}
    <3> SUFFICES ASSUME NEW e \in A PROVE FALSE
      OBVIOUS
    <3>1. DocId(e) < DocId(d) /\ DocId(e) \in Nat
      BY <1>4, StoreOrder
    <3>2. DocId(e) > p - 1
      BY <1>1, <1>4
    <3> QED BY <1>1, <1>6, <3>1, <3>2
  <2>2. \A o \in d.ops : o.op_id <= p
    BY <1>6, OpInDoc
  <2>3. Low(v, D) = d.ops
    <3>1. A \cup {d} = {d}
      BY <2>1
    <3>2. LowOps({d}, p) = d.ops
      BY <2>2, LowOfOne
    <3> HIDE DEF A, p
    <3> QED BY <1>2, <3>1, <3>2
  <2>4. v.overlap = Stats({d})
    BY <1>6
  <2>5. IsOverlap(v.overlap, Low(v, D)) /\ Low(v, D) # {}
    BY <1>5, <2>3, <2>4, StatsOne DEF IsOverlap
  <2> QED BY <1>1, <2>5 DEF OverlapOK
<1>7. CASE DocId(d) # p
  <2>1. \A o \in d.ops : o.op_id > p
    BY <1>1, <1>7 DEF OverlapOK
  <2>2. Low(v, D) = Low(w, D)
    <3>1. \A o \in d.ops : o.op_id \in Nat /\ o.op_id > p
      BY <2>1, StoreDoc
    <3>2. p \in Nat
      BY <1>1
    <3> HIDE DEF A, p
    <3>3. LowOps(A \cup {d}, p) = LowOps(A, p)
      BY <3>1, <3>2, LowBeyond
    <3> QED BY <1>2, <3>3
  <2>3. v.overlap = w.overlap
    BY <1>7
  <2>4. Low(v, D) # {} \/ \E e \in v.batch : DocId(e) = p
    BY <1>1, <1>7, <2>2 DEF OverlapOK
  <2>5. \A e \in Unread(v, D) : DocId(e) = p \/ \A o \in e.ops : o.op_id > p
    BY <1>1 DEF OverlapOK
  <2> QED BY <1>1, <1>3, <2>2, <2>3, <2>4, <2>5 DEF OverlapOK
<1> QED BY <1>6, <1>7

LEMMA ChunkIsCounted ==
  ASSUME NEW D, NEW L, NEW n, IsLog(L, n), IsStore(D, L, n), NEW w, HasFields(w), WorkOK(w, D, L, n),
         w.step = "read", w.kind = "chunks", NEW t, StatsOK(w, t, D, L, n),
         NEW d \in w.batch, \A e \in w.batch : DocId(d) <= DocId(e),
         NEW v, v.step = w.step, v.kind = w.kind, v.target = w.target, v.bound = w.bound, v.verify = w.verify,
         v.compactedOp = w.compactedOp, v.batch = w.batch \ {d}, v.pending = w.pending \cup {d}, v.changed = w.changed,
         v.previous = w.previous, v.state = w.state, v.stats = w.stats,
         v.overlap = IF w.previous # None /\ w.previous.op_id = DocId(d) THEN Stats({d}) ELSE w.overlap
  PROVE  StatsOK(v, t, D, L, n)
<1>1. ReadOK(w, w.lastNotPut, D, L, n)
  BY DEF WorkOK
<1>2. ChunkStats(w, D, L) /\ CountsOK(w, t, D, n)
  BY DEF StatsOK, IsBusy, WorkStats
<1>3. \A e \in w.batch : IF w.kind = "full" THEN DocId(e) <= DocId(d) ELSE DocId(d) <= DocId(e)
  OBVIOUS
<1>4. /\ Unread(v, D) = Unread(w, D) \ {d} /\ Done(v, D) = Done(w, D)
      /\ d \in D /\ d \in Unread(w, D)
      /\ \A e \in Unread(w, D) : e = d \/ Ahead(w.kind, e, d)
  BY <1>1, <1>3, TakesOne
<1>5. ASSUME v.previous # None PROVE OverlapOK(v, D, L)
  <2>1. v.overlap = IF w.previous.op_id = DocId(d) THEN Stats({d}) ELSE w.overlap
    BY <1>5
  <2> QED BY <1>1, <1>2, <1>4, <1>5, <2>1, ChunkOverlaps
<1>6. Base(v) = Base(w)
  BY DEF Base
<1>7. ChunkStats(v, D, L)
  BY <1>2, <1>4, <1>5, <1>6 DEF ChunkStats
<1>8. CountsOK(v, t, D, n)
  BY <1>2, CountsKept DEF CountsOK
<1> QED BY <1>7, <1>8 DEF StatsOK, WorkStats

LEMMA AddChunkCounts ==
  ASSUME SchedInv, ReadInv, StatsInv, NEW c \in Compactors, AddChunk(c)
  PROVE  StatsInv'
<1> DEFINE w == compactors[c]
           d == NextChunk(w)
           target == Max({w.target_op, d.target_op})
           overlap == IF w.previous # None /\ w.previous.op_id = DocId(d) THEN Stats({d}) ELSE w.overlap
           v == WithChunk(w, d, target, overlap)
<1>1. /\ w.step = "read" /\ w.kind = "chunks" /\ w.batch # {} /\ Become(c, v)
      /\ UNCHANGED <<bucket_data, bucket_state, checkpoint, log>>
  BY DEF AddChunk, Step, storageUnchanged, WithChunk
<1>2. HasFields(w) /\ IsFiniteSet(w.batch)
  BY SchedFields DEF IsWorker
<1>3. d \in w.batch /\ \A e \in w.batch : DocId(d) <= DocId(e)
  <2>1. DocsOK(w.batch)
    BY <1>2 DEF HasFields, DocsOK
  <2> QED BY <1>1, <2>1, EndDocs DEF NextChunk
<1>4. /\ v.step = w.step /\ v.kind = w.kind /\ v.target = w.target /\ v.bound = w.bound /\ v.verify = w.verify
      /\ v.compactedOp = w.compactedOp /\ v.batch = w.batch \ {d} /\ v.pending = w.pending \cup {d}
      /\ v.changed = w.changed /\ v.previous = w.previous /\ v.state = w.state /\ v.stats = w.stats /\ v.overlap = overlap
  <2> HIDE DEF d, target, overlap
  <2> QED BY <1>2 DEF HasFields, WithChunk
<1>5. IsLog(log, last_op) /\ IsStore(bucket_data, log, last_op) /\ WorkOK(w, bucket_data, log, last_op)
  BY ReadFields
<1>6. StateOK(bucket_state, bucket_data, log) /\ StatsOK(w, bucket_state, bucket_data, log, last_op)
  BY <1>1, StatsFields
<1>7. SameCounts(bucket_state, bucket_state')
  BY <1>1 DEF SameCounts
<1> HIDE DEF v, d, w
<1>8. StatsOK(v, bucket_state, bucket_data, log, last_op)
  BY <1>1, <1>2, <1>3, <1>4, <1>5, <1>6, ChunkIsCounted
<1> QED BY <1>1, <1>6, <1>7, <1>8, CountsStep

-----------------------------------------------------------------------------
(***************************************************************************)
(* A group of chunks is done: it is one document, the one it was, or the   *)
(* one it is merged into.                                                  *)
(***************************************************************************)
IsGroupOf(w, new, D, E) ==
  /\ DocsOK(new) /\ OpsOf(new) = OpsOf(w.pending) /\ GroupStats(w) = Stats(new)
  /\ new \cap Done(w, D) = {}
  /\ \A e \in new : DocId(e) > Base(w)
  /\ IsRewritten(D, E, w.compactedOp)

Finishes(v, w, new, D, E) == IsGroupOf(w, new, D, E) /\ Unread(v, E) = Unread(w, D) /\ Done(v, E) = Done(w, D) \cup new

HaveSameOps(A, B) == OpsOf(A) = OpsOf(B)

LEMMA LowKept ==
  ASSUME NEW A, NEW p, NEW B, NEW C, HaveSameOps(B, C)
  PROVE  LowOps(A \cup B, p) = LowOps(A \cup C, p)
<1>1. OpsOf(A \cup B) = OpsOf(A) \cup OpsOf(B) /\ OpsOf(A \cup C) = OpsOf(A) \cup OpsOf(C)
  BY DEF OpsOf
<1>2. OpsOf(A \cup B) = OpsOf(A \cup C)
  BY <1>1 DEF HaveSameOps
<1> QED BY <1>2 DEF LowOps

LEMMA AfterUnion ==
  ASSUME NEW A, NEW B, NEW k, \A e \in B : DocId(e) > k
  PROVE  DocsAfter(A \cup B, k) = DocsAfter(A, k) \cup B
BY DEF DocsAfter

LEMMA ChunkGroupCounts ==
  ASSUME NEW D, NEW L, NEW n, IsLog(L, n), IsStore(D, L, n), NEW w, HasFields(w), IsState(w.state), w.pending # {},
         ChunkStats(w, D, L), w.kind # "full", NEW t, CountsOK(w, t, D, n),
         NEW new, NEW E,
         NEW v, v.step = "read", v.kind = w.kind, v.target = w.target, v.bound = w.bound, v.verify = w.verify,
         v.compactedOp = w.compactedOp, v.batch = w.batch, v.pending = {}, v.previous = w.previous, v.overlap = w.overlap,
         v.state = w.state, v.changed = FALSE, v.stats = Plus(w.stats, GroupStats(w)),
         Finishes(v, w, new, D, E)
  PROVE  StatsOK(v, t, E, L, n)
<1>0. IsGroupOf(w, new, D, E) /\ Unread(v, E) = Unread(w, D) /\ Done(v, E) = Done(w, D) \cup new
  BY DEF Finishes
<1> DEFINE A == DocsAfter(Done(w, D), Base(w))
<1>1. DocsOK(new) /\ GroupStats(w) = Stats(new) /\ \A e \in new : DocId(e) > Base(w)
  BY <1>0 DEF IsGroupOf
<1>2. Base(v) = Base(w)
  BY DEF Base
<1>3. DocsAfter(Done(v, E), Base(v)) = A \cup new /\ A \cap new = {}
  BY <1>0, <1>1, <1>2 DEF IsGroupOf, DocsAfter
<1>4. DocsOK(A)
  <2>1. A \subseteq D
    BY DEF DocsAfter, Done
  <2> HIDE DEF A
  <2> QED BY <2>1, PartStats
<1>5. w.stats = Stats(A)
  BY DEF ChunkStats
<1> HIDE DEF A
<1>6. Stats(A \cup new) = Plus(Stats(A), Stats(new))
  BY <1>1, <1>3, <1>4, StatsAdd
<1>7. v.stats = Stats(DocsAfter(Done(v, E), Base(v)))
  BY <1>1, <1>3, <1>5, <1>6
<1>8. w.compactedOp # 0
  BY DEF ChunkStats
<1>9. ASSUME v.previous # None PROVE OverlapOK(v, E, L)
  <2> DEFINE p == w.previous.op_id
  <2>1. OverlapOK(w, D, L)
    BY <1>9 DEF ChunkStats
  <2>2. PrefixOK(w.previous, E, L)
    <3>1. \A o \in OpsOf(E) : HasId(OpsOf(D), o.op_id)
      BY <1>0 DEF IsGroupOf, IsRewritten
    <3> QED BY <2>1, <3>1, PrefixKept DEF OverlapOK, PrefixOK
  <2>3. Low(v, E) = Low(w, D)
    <3>1. DocsAfter(Done(v, E) \cup v.pending, Base(v)) = A \cup new
      BY <1>3
    <3>2. DocsAfter(Done(w, D) \cup w.pending, Base(w)) = A \cup w.pending
      <4>1. \A e \in w.pending : DocId(e) > Base(w)
        BY DEF ChunkStats
      <4> QED BY <4>1, AfterUnion DEF A
    <3>3. HaveSameOps(new, w.pending)
      BY <1>0 DEF IsGroupOf, HaveSameOps
    <3>5. v.previous.op_id = p
      OBVIOUS
    <3> HIDE DEF p
    <3>4. LowOps(A \cup new, p) = LowOps(A \cup w.pending, p)
      BY <3>3, LowKept
    <3>6. Low(v, E) = LowOps(A \cup new, p)
      BY <3>1, <3>5 DEF Low
    <3>7. Low(w, D) = LowOps(A \cup w.pending, p)
      BY <3>2 DEF Low, p
    <3> QED BY <3>4, <3>6, <3>7
  <2> QED BY <1>0, <2>1, <2>2, <2>3 DEF OverlapOK
<1>10. ChunkStats(v, E, L)
  BY <1>0, <1>2, <1>7, <1>8, <1>9 DEF ChunkStats
<1>11. CountsOK(v, t, E, n)
  BY <1>0, CountsMoved DEF IsGroupOf
<1> QED BY <1>10, <1>11 DEF StatsOK, WorkStats

\* A single chunk stays as it is.
LEMMA OneChunkIsKept ==
  ASSUME NEW D, NEW L, NEW n, IsStore(D, L, n), NEW w, NEW m, ReadOK(w, m, D, L, n), w.step = "read", w.kind = "chunks",
         Cardinality(w.pending) = 1, ChunkStats(w, D, L), NEW v, v.kind = w.kind, v.bound = w.bound, v.batch = w.batch, v.pending = {}
  PROVE  Finishes(v, w, w.pending, D, D)
<1>1. IsKept(w)
  BY DEF IsKept, ChunkStats
<1>2. GroupStats(w) = Stats(w.pending)
  BY <1>1 DEF GroupStats
<1>3. w.pending \subseteq D /\ Unread(w, D) \cap w.pending = {}
  BY DEF ReadOK, IsPass
<1>4. DocsOK(w.pending)
  BY <1>3, PartStats
<1>5. IsRewritten(D, D, w.compactedOp)
  BY DEF IsRewritten, HasId
<1>6. \A e \in w.pending : DocId(e) > Base(w)
  BY DEF ChunkStats
<1>7. IsGroupOf(w, w.pending, D, D)
  BY <1>2, <1>4, <1>5, <1>6 DEF IsGroupOf, Done
<1>8. Unread(v, D) = Unread(w, D)
  BY DEF Unread, IsBeyond
<1>9. Done(v, D) = Done(w, D) \cup w.pending
  BY <1>3, <1>8 DEF Done
<1> QED BY <1>7, <1>8, <1>9 DEF Finishes

\* Several are merged into one.
LEMMA ChunksAreMerged ==
  ASSUME NEW D, NEW L, NEW n, IsLog(L, n), IsStore(D, L, n), NEW w, HasFields(w), WorkOK(w, D, L, n), w.step = "merge", w.kind # "full",
         w.pending # {}, ChunkStats(w, D, L), NEW v, v.kind = w.kind, v.bound = w.bound, v.batch = w.batch, v.pending = {},
         NEW E, E = AfterGroup(w, D)
  PROVE  \E new : Finishes(v, w, new, D, E)
<1>1. ReadOK(w, w.lastNotPut, D, L, n)
  BY DEF WorkOK
<1>2. w.ops = OpsOf(w.pending) /\ w.pending \subseteq D /\ Unread(w, D) \cap w.pending = {} /\ w.target_op \in Nat /\ w.bound \in Nat
  BY <1>1 DEF ReadOK, ChunksOK, IsPass, HasFields
<1>3. IsRewrite(w.ops, OpsOf(w.pending), w.target_op, L)
  BY <1>2, GroupOps
<1>4. w.compactedOp = w.bound
  BY DEF ChunkStats
<1>5. IsGroup(w, D, L, w.bound)
  <2>1. \A d \in w.pending : DocId(d) <= w.bound
    <3> SUFFICES ASSUME NEW d \in w.pending PROVE DocId(d) <= w.bound
      OBVIOUS
    <3>1. ~IsBeyond(w, d) /\ DocId(d) \in Nat
      BY <1>2, StoreOrder DEF Unread
    <3> QED BY <1>2, <3>1 DEF IsBeyond
  <2> QED BY <1>2, <1>3, <2>1 DEF IsGroup
<1>6. IsStore(E, L, n) /\ Unread(v, E) = Unread(w, D)
  BY <1>1, <1>2, <1>3, GroupDone
<1>7. \E e \in E : e.ops = w.ops /\ Done(v, E) = Done(w, D) \cup {e}
  BY <1>1, <1>2, <1>3, GroupDone
<1>8. PICK e \in E : e.ops = w.ops /\ Done(v, E) = Done(w, D) \cup {e}
  BY <1>7
<1>9. e \in Doc
  BY <1>6, <1>8, StoreDoc
<1>10. DocId(e) \in Nat /\ (\A d \in w.pending : DocId(d) <= DocId(e) /\ DocId(d) \in Nat) /\ (e \in D => e \in w.pending)
  BY <1>2, <1>5, <1>8, <1>9, GroupEnd
<1>11. IsRewritten(D, E, w.compactedOp)
  BY <1>2, <1>4, <1>5, <1>6, GroupFrame
<1>12. GroupStats(w) = Stats({e})
  BY <1>2, <1>5, <1>8, <1>9, GroupStatsAre
<1>13. DocId(e) > Base(w)
  <2>1. PICK d \in w.pending : TRUE
    OBVIOUS
  <2>2. DocId(d) > Base(w) /\ Base(w) \in Int
    BY DEF ChunkStats, OverlapOK, Base
  <2> QED BY <1>10, <2>1, <2>2
<1>14. DocsOK({e}) /\ OpsOf({e}) = OpsOf(w.pending)
  BY <1>2, <1>8, <1>9, OneDoc DEF OpsOf
<1>15. {e} \cap Done(w, D) = {}
  BY <1>10 DEF Done
<1>16. IsGroupOf(w, {e}, D, E)
  BY <1>11, <1>12, <1>13, <1>14, <1>15 DEF IsGroupOf
<1> QED BY <1>6, <1>8, <1>16 DEF Finishes

-----------------------------------------------------------------------------
IsAsRead(v) == v.changed = FALSE

LEMMA NoGroupMore ==
  ASSUME NEW w, HasFields(w), NEW stats,
         NEW v, v = WithStats(NoGroup(w), stats) \/ v = Merged(w, stats)
  PROVE  v.previous = w.previous /\ v.overlap = w.overlap /\ v.state = w.state /\ v.stats = stats /\ IsAsRead(v)
<1> DEFINE u == NoGroup(w)
<1>1. u.previous = w.previous /\ u.overlap = w.overlap /\ u.state = w.state /\ IsAsRead(u) /\ HasFields(u)
  BY DEF NoGroup, HasFields, Null, IsAsRead
<1>2. \A t : HasFields(t) => LET r == WithStats(t, stats) IN
        r.previous = t.previous /\ r.overlap = t.overlap /\ r.state = t.state /\ r.stats = stats /\ (IsAsRead(t) => IsAsRead(r))
  BY DEF HasFields, WithStats, IsAsRead
<1>3. \A t : HasFields(t) => LET r == WithBoth(t, "read", stats) IN
        r.previous = t.previous /\ r.overlap = t.overlap /\ r.state = t.state /\ r.stats = stats /\ (IsAsRead(t) => IsAsRead(r))
  BY DEF HasFields, WithBoth, IsAsRead
<1>4. Merged(w, stats) = WithBoth(u, "read", stats)
  BY DEF Merged, WithBoth
<1> HIDE DEF u
<1>5. CASE v = WithStats(NoGroup(w), stats)
  BY <1>1, <1>2, <1>5 DEF u
<1>6. CASE v = Merged(w, stats)
  BY <1>1, <1>3, <1>4, <1>6
<1> QED BY <1>5, <1>6

LEMMA ReadOpsCounts ==
  ASSUME SchedInv, ReadInv, StatsInv, NEW c \in Compactors, ReadOps(c)
  PROVE  StatsInv'
<1> DEFINE w == compactors[c]
           stats == Plus(w.stats, GroupStats(w))
           ops == OpsOf(Stored(w.pending))
           u == WithStats(NoGroup(w), stats)
           v == WithOps(w, ops)
<1>1. w.step = "read" /\ w.kind = "chunks" /\ w.pending # {} /\ UNCHANGED log
  BY DEF ReadOps, Step, storageUnchanged
<1>2. HasFields(w) /\ w.step # "idle" /\ IsBusy(w)
  BY <1>1, SchedFields DEF IsBusy
<1>3. \/ Cardinality(w.pending) = 1 /\ Become(c, u) /\ UNCHANGED <<bucket_data, bucket_state>>
      \/ Become(c, v) /\ UNCHANGED <<bucket_data, bucket_state>>
      \/ Throw(c) /\ UNCHANGED bucket_data
  <2>1. u = [NoGroup(w) EXCEPT !.stats = Plus(@, GroupStats(w))]
    BY <1>2 DEF WithStats, NoGroup, HasFields
  <2> HIDE DEF u
  <2> QED BY <2>1 DEF ReadOps, WithOps
<1>4. IsLog(log, last_op) /\ IsStore(bucket_data, log, last_op) /\ WorkOK(w, bucket_data, log, last_op)
  BY ReadFields
<1>5. /\ StateOK(bucket_state, bucket_data, log) /\ last_op \in Nat
      /\ StatsOK(w, bucket_state, bucket_data, log, last_op) /\ IsState(w.state)
  BY <1>1, StatsFields
<1>6. /\ ReadOK(w, w.lastNotPut, bucket_data, log, last_op) /\ ChunkStats(w, bucket_data, log)
      /\ CountsOK(w, bucket_state, bucket_data, last_op)
  BY <1>1, <1>2, <1>4, <1>5 DEF WorkOK, StatsOK, WorkStats
<1>7. CASE Cardinality(w.pending) = 1 /\ Become(c, u) /\ UNCHANGED <<bucket_data, bucket_state>>
  <2>0. stats = Plus(w.stats, GroupStats(w))
    OBVIOUS
  <2> HIDE DEF stats
  <2>1. /\ u.kind = w.kind /\ u.target = w.target /\ u.bound = w.bound /\ u.verify = w.verify
        /\ u.compactedOp = w.compactedOp /\ u.batch = w.batch /\ u.pending = {} /\ u.step = w.step
    BY <1>2, NoGroupFields
  <2>2. u.previous = w.previous /\ u.overlap = w.overlap /\ u.state = w.state /\ u.stats = stats /\ IsAsRead(u)
    BY <1>2, NoGroupMore
  <2> HIDE DEF u, w
  <2>3. Finishes(u, w, w.pending, bucket_data, bucket_data)
    BY <1>1, <1>4, <1>6, <1>7, <2>1, OneChunkIsKept
  <2>4. StatsOK(u, bucket_state, bucket_data, log, last_op)
    BY <1>1, <1>2, <1>4, <1>5, <1>6, <2>0, <2>1, <2>2, <2>3, ChunkGroupCounts DEF IsAsRead
  <2>5. SameCounts(bucket_state, bucket_state')
    BY <1>7 DEF SameCounts
  <2> QED BY <1>1, <1>5, <1>7, <2>4, <2>5, CountsStep
<1>8. CASE Become(c, v) /\ UNCHANGED <<bucket_data, bucket_state>>
  <2> HIDE DEF ops
  <2>1. /\ v.kind = w.kind /\ v.target = w.target /\ v.bound = w.bound /\ v.verify = w.verify
        /\ v.compactedOp = w.compactedOp /\ v.batch = w.batch /\ v.pending = w.pending /\ v.step = "merge"
        /\ v.previous = w.previous /\ v.overlap = w.overlap /\ v.state = w.state /\ v.stats = w.stats
    BY <1>2 DEF HasFields, WithOps
  <2> HIDE DEF v, w
  <2>2. Unread(v, bucket_data) = Unread(w, bucket_data)
    BY <2>1 DEF Unread, IsBeyond
  <2>3. Done(v, bucket_data) = Done(w, bucket_data) /\ Base(v) = Base(w)
    BY <2>1, <2>2 DEF Done, Base
  <2>4. Low(v, bucket_data) = Low(w, bucket_data)
    BY <2>1, <2>3 DEF Low
  <2>5. OverlapOK(w, bucket_data, log) => OverlapOK(v, bucket_data, log)
    BY <2>1, <2>2, <2>4 DEF OverlapOK
  <2>6. ChunkStats(v, bucket_data, log)
    BY <1>6, <2>1, <2>3, <2>5 DEF ChunkStats
  <2>7. CountsOK(v, bucket_state, bucket_data, last_op)
    BY <1>6, <2>1, CountsKept DEF CountsOK
  <2>8. StatsOK(v, bucket_state, bucket_data, log, last_op)
    BY <1>1, <2>1, <2>6, <2>7 DEF StatsOK, WorkStats
  <2>9. SameCounts(bucket_state, bucket_state')
    BY <1>8 DEF SameCounts
  <2> QED BY <1>1, <1>5, <1>8, <2>8, <2>9, CountsStep
<1>9. CASE Throw(c) /\ UNCHANGED bucket_data
  BY <1>1, <1>2, <1>9, ThrowCounts
<1> QED BY <1>3, <1>7, <1>8, <1>9

LEMMA MergeChunksCounts ==
  ASSUME SchedInv, ReadInv, StatsInv, OneWorker, NEW c \in Compactors, MergeChunks(c)
  PROVE  StatsInv'
<1> DEFINE w == compactors[c]
           stats == Plus(w.stats, GroupStats(w))
           v == Merged(w, stats)
           E == AfterGroup(w, bucket_data)
<1>1. w.step = "merge" /\ UNCHANGED log
  BY DEF MergeChunks, Step, storageUnchanged
<1>2. HasFields(w) /\ IsBusy(w)
  BY <1>1, SchedFields DEF IsBusy
<1>3. FlushGroup(c, v)
  <2>1. v = [NoGroup(w) EXCEPT !.step = "read", !.stats = Plus(@, GroupStats(w))]
    BY <1>2 DEF Merged, NoGroup, HasFields
  <2> HIDE DEF v
  <2> QED BY <2>1 DEF MergeChunks
<1>4. IsLog(log, last_op) /\ IsStore(bucket_data, log, last_op) /\ WorkOK(w, bucket_data, log, last_op)
  BY ReadFields
<1>5. /\ CompactedOK(bucket_state, last_op) /\ StateOK(bucket_state, bucket_data, log) /\ last_op \in Nat
      /\ StatsOK(w, bucket_state, bucket_data, log, last_op) /\ IsState(w.state)
  BY <1>1, StatsFields
<1>6. w.kind # "full" /\ w.pending # {} /\ w.pending \subseteq bucket_data
  <2>1. ReadOK(w, w.lastNotPut, bucket_data, log, last_op)
    BY <1>1, <1>4 DEF WorkOK
  <2> QED BY <1>1, <2>1 DEF ReadOK, FullOK, ChunksOK, IsPass
<1>7. ChunkStats(w, bucket_data, log) /\ CountsOK(w, bucket_state, bucket_data, last_op)
  BY <1>1, <1>2, <1>5, <1>6 DEF StatsOK, WorkStats
<1>8. stats = Plus(w.stats, GroupStats(w))
  OBVIOUS
<1> HIDE DEF stats
<1>9. /\ v.kind = w.kind /\ v.target = w.target /\ v.bound = w.bound /\ v.verify = w.verify
      /\ v.compactedOp = w.compactedOp /\ v.batch = w.batch /\ v.pending = {} /\ v.step = "read"
  BY <1>2, NoGroupFields
<1>10. v.previous = w.previous /\ v.overlap = w.overlap /\ v.state = w.state /\ v.stats = stats /\ IsAsRead(v)
  BY <1>2, NoGroupMore
<1> HIDE DEF v
<1>11. \E new : Finishes(v, w, new, bucket_data, E)
  <2> HIDE DEF w
  <2> QED BY <1>1, <1>2, <1>4, <1>6, <1>7, <1>9, ChunksAreMerged
<1>12. PICK new : Finishes(v, w, new, bucket_data, E)
  BY <1>11
<1>13. StatsOK(v, bucket_state, E, log, last_op)
  <2> HIDE DEF w, E
  <2> QED BY <1>2, <1>4, <1>5, <1>6, <1>7, <1>8, <1>9, <1>10, <1>12, ChunkGroupCounts DEF IsAsRead
<1>14. StateOK(bucket_state, E, log)
  <2> HIDE DEF w, E
  <2>1. IsRewritten(bucket_data, E, w.compactedOp)
    BY <1>12 DEF Finishes, IsGroupOf
  <2> QED BY <1>5, <2>1, StateKept DEF IsRewritten
<1> QED BY <1>1, <1>2, <1>3, <1>6, <1>13, <1>14, FlushGroupCounts

-----------------------------------------------------------------------------
(***************************************************************************)
(* The end of a chunk compaction: the statistics, combined with those of   *)
(* the cached prefix, are those of all documents up to the last one.       *)
(***************************************************************************)
IsAtEnd(w) == w.kind # "full" /\ w.batch = {} /\ w.pending = {} /\ w.compactedOp # 0 /\ w.compactedOp = w.bound

LEMMA ChunksDone ==
  ASSUME NEW D, NEW L, NEW n, IsStore(D, L, n), NEW w, w.bound \in Nat, IsAtEnd(w)
  PROVE  Done(w, D) = DocsUpTo(D, w.compactedOp)
<1>1. \A d \in D : DocId(d) \in Nat
  BY StoreOrder
<1>2. \A d \in D : d \in Unread(w, D) <=> w.bound < DocId(d)
  BY DEF Unread, IsBeyond, IsAtEnd
<1>3. \A d \in D : d \in Unread(w, D) <=> ~(DocId(d) <= w.compactedOp)
  BY <1>1, <1>2 DEF IsAtEnd
<1> QED BY <1>3 DEF Done, DocsUpTo, IsAtEnd

LEMMA EndStats ==
  ASSUME NEW D, NEW L, NEW n, IsLog(L, n), IsStore(D, L, n), NEW w, w.compactedOp \in Nat, IsAtEnd(w),
         ChunkStats(w, D, L), IsWhole(D, w.compactedOp),
         NEW s, s = IF w.previous = None THEN w.stats ELSE CombineChunkStats(w.previous, w.stats, w.overlap)
  PROVE  IsPrefix(s, w.compactedOp, D, L)
<1> DEFINE k == w.compactedOp
           T == DocsAfter(DocsUpTo(D, k), Base(w))
<1>0. k \in Nat /\ n \in Nat /\ \A d \in D : DocId(d) \in Nat /\ DocId(d) > 0
  BY StoreIds DEF IsLog
<1>1. Done(w, D) = DocsUpTo(D, k)
  BY ChunksDone DEF IsAtEnd
<1>2. w.stats = Stats(T)
  BY <1>1 DEF ChunkStats
<1>3. CASE w.previous = None
  <2>1. T = DocsUpTo(D, k)
    BY <1>0, <1>3 DEF DocsUpTo, DocsAfter, Base
  <2>2. Stats(T) = Stats(DocsUpTo(D, k))
    BY <2>1
  <2>3. s = Stats(DocsUpTo(D, k))
    BY <1>2, <1>3, <2>2
  <2>4. IsPrefix(Stats(DocsUpTo(D, k)), k, D, L)
    BY <1>0, PrefixStats
  <2> QED BY <2>3, <2>4
<1>4. CASE w.previous # None
  <2> DEFINE p == w.previous.op_id
             low == Low(w, D)
  <2>1. OverlapOK(w, D, L) /\ p \in Nat /\ p # 0 /\ Base(w) = p - 1
    BY <1>4 DEF ChunkStats, OverlapOK, Base
  <2>2. IsOverlap(w.overlap, low) /\ low # {} /\ IsPrefix(w.previous, p, D, L)
    BY <2>1 DEF OverlapOK, PrefixOK, IsAtEnd
  <2>3. low = LowOps(T, p)
    <3>1. Done(w, D) \cup w.pending = DocsUpTo(D, k)
      BY <1>1 DEF IsAtEnd
    <3> QED BY <3>1 DEF Low
  <2>4. T = {d \in D : p <= DocId(d) /\ DocId(d) <= k}
    <3>1. \A d \in D : DocId(d) > Base(w) <=> p <= DocId(d)
      BY <1>0, <2>1
    <3> QED BY <3>1 DEF DocsAfter, DocsUpTo
  <2>5. s = CombineChunkStats(w.previous, Stats(T), w.overlap)
    BY <1>2, <1>4
  <2> HIDE DEF T, low, p
  <2> QED BY <1>0, <2>1, <2>2, <2>3, <2>4, <2>5, CombinedStats
<1> QED BY <1>3, <1>4

LEMMA EndChunksCounts ==
  ASSUME SchedInv, ReadInv, StatsInv, NEW c \in Compactors, EndChunks(c)
  PROVE  StatsInv'
<1> DEFINE w == compactors[c]
           stats == IF w.previous = None THEN w.stats ELSE CombineChunkStats(w.previous, w.stats, w.overlap)
           u == WithStep(w, "reschedule")
           v == WithBoth(w, "finalize", stats)
<1>1. /\ w.step = "read" /\ w.kind = "chunks" /\ w.batch = {} /\ w.pending = {} /\ UNCHANGED <<bucket_data, bucket_state, log>>
      /\ (Become(c, u) \/ (w.compactedOp # 0 /\ Become(c, v)))
  BY DEF EndChunks, Step, storageUnchanged, WithStep, WithBoth
<1>2. HasFields(w) /\ w.step # "idle" /\ IsBusy(w) /\ w.compactedOp \in Nat
  BY <1>1, SchedFields DEF IsBusy, HasFields
<1>3. IsLog(log, last_op) /\ IsStore(bucket_data, log, last_op) /\ WorkOK(w, bucket_data, log, last_op)
  BY ReadFields
<1>4. /\ StateOK(bucket_state, bucket_data, log) /\ last_op \in Nat
      /\ StatsOK(w, bucket_state, bucket_data, log, last_op) /\ IsState(w.state)
  BY <1>1, StatsFields
<1>5. ChunkStats(w, bucket_data, log) /\ CountsOK(w, bucket_state, bucket_data, last_op)
  BY <1>1, <1>2, <1>4 DEF StatsOK, WorkStats
<1>6. SameCounts(bucket_state, bucket_state')
  BY <1>1 DEF SameCounts
<1>7. CASE Become(c, u)
  <2>1. u.step = "reschedule" /\ u.compactedOp = w.compactedOp /\ u.state = w.state
    BY <1>2 DEF WithStep, HasFields
  <2> HIDE DEF u, w
  <2>2. CountsOK(u, bucket_state, bucket_data, last_op)
    BY <1>5, <2>1, CountsKept DEF CountsOK
  <2>3. StatsOK(u, bucket_state, bucket_data, log, last_op)
    BY <2>1, <2>2 DEF StatsOK, WorkStats
  <2> QED BY <1>1, <1>4, <1>6, <1>7, <2>3, CountsStep
<1>8. CASE w.compactedOp # 0 /\ Become(c, v)
  <2>0. stats = IF w.previous = None THEN w.stats ELSE CombineChunkStats(w.previous, w.stats, w.overlap)
    OBVIOUS
  <2> HIDE DEF stats
  <2>1. v.step = "finalize" /\ v.compactedOp = w.compactedOp /\ v.state = w.state /\ v.kind = w.kind /\ v.stats = stats
    BY <1>2 DEF WithBoth, HasFields
  <2> HIDE DEF v, w
  <2>2. CountsOK(v, bucket_state, bucket_data, last_op)
    BY <1>5, <2>1, CountsKept DEF CountsOK
  <2>3. IsAtEnd(w) /\ IsWhole(bucket_data, w.compactedOp)
    BY <1>1, <1>5, <1>8 DEF IsAtEnd, ChunkStats, CountsOK
  <2>4. IsPrefix(stats, w.compactedOp, bucket_data, log)
    BY <1>2, <1>3, <1>5, <2>0, <2>3, EndStats
  <2>5. FinalStats(v, bucket_data, log)
    BY <1>1, <2>1, <2>4 DEF FinalStats
  <2>6. StatsOK(v, bucket_state, bucket_data, log, last_op)
    BY <2>1, <2>2, <2>5 DEF StatsOK, WorkStats
  <2> QED BY <1>1, <1>4, <1>6, <1>8, <2>6, CountsStep
<1> QED BY <1>1, <1>7, <1>8

-----------------------------------------------------------------------------
\* Nothing of the documents that are not done comes after the start.
LEMMA NoneDone ==
  ASSUME NEW D, NEW L, NEW n, IsStore(D, L, n), NEW w, w.kind # "full", w.bound \in Nat, w.bound = Base(w)
  PROVE  DocsAfter(Done(w, D), Base(w)) = {}
<1> DEFINE b == w.bound
<1>1. \A d \in Done(w, D) : DocId(d) \in Nat /\ ~(b < DocId(d))
  BY StoreOrder DEF Done, Unread, IsBeyond
<1>2. b \in Nat /\ b = Base(w)
  OBVIOUS
<1> HIDE DEF b
<1>3. \A d \in Done(w, D) : ~(DocId(d) > Base(w))
  BY <1>1, <1>2
<1> QED BY <1>3 DEF DocsAfter

\* The cached prefix does not end in a document any more: the compaction starts over without it.
LEMMA NotVerifiedCounts ==
  ASSUME NEW D, NEW L, NEW n, IsLog(L, n), IsStore(D, L, n), NEW w, w.bound \in Nat, w.step = "read", w.kind = "chunks",
         ChunkStats(w, D, L), NEW s, CountsOK(w, s, D, n), w.verify # FALSE,
         NEW v, v.step = w.step, v.kind = w.kind, v.target = w.target, v.bound = 0, v.verify = FALSE, v.previous = None,
         v.batch = w.batch, v.pending = w.pending, v.compactedOp = w.compactedOp, v.stats = w.stats, v.state = w.state,
         IsAsRead(v)
  PROVE  StatsOK(v, s, D, L, n)
<1>1. w.previous # None /\ w.compactedOp = 0
  BY DEF ChunkStats, OverlapOK
<1>2. w.batch = {} /\ w.pending = {} /\ w.bound = Base(w) /\ w.target <= w.state.last_op /\ w.stats = Stats(DocsAfter(Done(w, D), Base(w)))
  BY <1>1 DEF ChunkStats
<1>3. DocsAfter(Done(w, D), Base(w)) = {}
  BY <1>2, NoneDone
<1>4. Base(v) = 0
  BY DEF Base
<1>5. DocsAfter(Done(v, D), Base(v)) = {}
  BY <1>4, NoneDone
<1>6. Stats(DocsAfter(Done(v, D), Base(v))) = Stats(DocsAfter(Done(w, D), Base(w)))
  BY <1>3, <1>5
<1>7. ChunkStats(v, D, L)
  BY <1>1, <1>2, <1>4, <1>6 DEF ChunkStats, IsAsRead
<1>8. CountsOK(v, s, D, n)
  BY CountsKept DEF CountsOK
<1> QED BY <1>7, <1>8 DEF StatsOK, WorkStats

-----------------------------------------------------------------------------
(***************************************************************************)
(* The next documents. What is shared with the cached prefix is in the     *)
(* document it ends in, which the first documents that are read begin with.*)
(***************************************************************************)
IsAfter(v, w, docs) ==
  /\ v.bound \in Nat /\ v.compactedOp \in Nat /\ w.bound <= v.bound
  /\ docs = {} => v.bound = w.bound /\ v.compactedOp = w.compactedOp
  /\ docs # {} => v.compactedOp = v.bound /\ w.bound < v.bound /\ \E d \in docs : DocId(d) = v.bound

LEMMA ChunkBounds ==
  ASSUME NEW D, NEW L, NEW n, IsStore(D, L, n), NEW w, w.bound \in Nat, w.compactedOp \in Nat, w.compactedOp <= w.bound,
         NEW docs, docs \subseteq D, \A d \in docs : w.bound < DocId(d),
         NEW v, v.bound = Max(Ids(docs) \cup {w.bound}), v.compactedOp = Max(Ids(docs) \cup {w.compactedOp})
  PROVE  IsAfter(v, w, docs)
<1>1. DocsOK(docs)
  BY PartStats
<1>2. /\ v.bound \in Nat /\ w.bound <= v.bound /\ v.bound \in Ids(docs) \cup {w.bound}
      /\ \A id \in Ids(docs) : id <= v.bound
  BY <1>1, MaxId
<1>3. /\ v.compactedOp \in Nat /\ w.compactedOp <= v.compactedOp /\ v.compactedOp \in Ids(docs) \cup {w.compactedOp}
      /\ \A id \in Ids(docs) : id <= v.compactedOp
  BY <1>1, MaxId
<1>4. CASE docs = {}
  <2>1. Ids(docs) = {}
    BY <1>4 DEF Ids
  <2> QED BY <1>2, <1>3, <1>4, <2>1 DEF IsAfter
<1>5. CASE docs # {}
  <2>1. PICK d \in docs : TRUE
    BY <1>5
  <2>2. DocId(d) \in Ids(docs) /\ DocId(d) \in Nat /\ w.bound < DocId(d)
    BY <2>1, IdOfDoc, StoreOrder
  <2>3. DocId(d) <= v.bound /\ DocId(d) <= v.compactedOp
    BY <1>2, <1>3, <2>2
  <2>4. v.bound \in Ids(docs) /\ v.compactedOp \in Ids(docs)
    BY <1>2, <1>3, <2>2, <2>3
  <2>5. v.bound = v.compactedOp
    BY <1>2, <1>3, <2>4
  <2>6. w.bound < v.bound
    BY <1>2, <2>2, <2>3
  <2>7. \E e \in docs : DocId(e) = v.bound
    BY <2>4, IdOfDoc
  <2> QED BY <1>2, <1>3, <1>5, <2>5, <2>6, <2>7 DEF IsAfter
<1> QED BY <1>4, <1>5

-----------------------------------------------------------------------------
AreNext(docs, w, D) ==
  /\ docs \subseteq D /\ \A d \in docs : w.bound < DocId(d) /\ DocId(d) <= w.target
  /\ w.previous # None /\ w.compactedOp = 0 => \E d \in docs : DocId(d) = w.previous.op_id

LEMMA NextOverlap ==
  ASSUME NEW D, NEW L, NEW n, IsLog(L, n), IsStore(D, L, n), NEW w, w.bound \in Nat, w.kind = "chunks", w.batch = {},
         ChunkStats(w, D, L), w.previous # None, NEW docs, AreNext(docs, w, D),
         NEW v, IsAfter(v, w, docs), v.pending = w.pending, v.verify = FALSE, v.previous = w.previous, v.overlap = w.overlap,
         v.state = w.state, v.batch = docs, Unread(v, D) = Unread(w, D), Done(v, D) = Done(w, D)
  PROVE  OverlapOK(v, D, L)
<1> DEFINE p == w.previous.op_id
<1>1. OverlapOK(w, D, L) /\ p \in Nat /\ p # 0 /\ Base(w) = p - 1 /\ Base(v) = p - 1
  BY DEF ChunkStats, OverlapOK, Base
<1>2. Low(v, D) = Low(w, D)
  <2>1. Base(v) = Base(w)
    BY <1>1
  <2> QED BY <2>1 DEF Low
<1>3. CASE w.compactedOp # 0
  <2>1. v.compactedOp # 0
    BY <1>3 DEF IsAfter
  <2>2. Low(w, D) # {} /\ \A d \in Unread(w, D) : DocId(d) = p \/ \A o \in d.ops : o.op_id > p
    BY <1>1, <1>3 DEF OverlapOK
  <2>3. Low(v, D) # {} /\ \A d \in Unread(v, D) : DocId(d) = p \/ \A o \in d.ops : o.op_id > p
    BY <1>2, <2>2
  <2>4. v.verify = (v.compactedOp = 0)
    BY <2>1
  <2> QED BY <1>1, <1>2, <2>3, <2>4 DEF OverlapOK
<1>4. CASE w.compactedOp = 0
  <2>1. PICK e \in docs : DocId(e) = p
    BY <1>4 DEF AreNext
  <2>2. v.compactedOp # 0
    <3>1. v.compactedOp = v.bound /\ w.bound < v.bound /\ v.bound \in Nat
      BY <2>1 DEF IsAfter
    <3> QED BY <3>1
  <2>3. w.bound = p - 1
    BY <1>1, <1>4 DEF ChunkStats
  <2>4. IsWhole(D, p)
    BY <2>1 DEF IsWhole, AreNext
  <2>5. ASSUME NEW d \in Unread(v, D) PROVE DocId(d) = p \/ \A o \in d.ops : o.op_id > p
    <3>1. d \in Unread(w, D)
      OBVIOUS
    <3>2. d \in D /\ w.bound < DocId(d)
      BY <3>1 DEF Unread, IsBeyond
    <3>3. DocId(d) \in Nat
      BY <3>2, StoreOrder
    <3>4. DocId(d) <= p \/ \A o \in d.ops : o.op_id > p
      BY <1>1, <2>4, <3>2, WholeDoc
    <3>5. DocId(d) <= p => DocId(d) = p
      BY <1>1, <2>3, <3>2, <3>3
    <3> QED BY <3>4, <3>5
  <2>6. \E d \in v.batch : DocId(d) = p
    BY <2>1
  <2>7. v.verify = (v.compactedOp = 0)
    BY <2>2
  <2> QED BY <1>1, <1>2, <2>5, <2>6, <2>7 DEF OverlapOK
<1> QED BY <1>3, <1>4

LEMMA NextChunks ==
  ASSUME NEW D, NEW L, NEW n, IsLog(L, n), IsStore(D, L, n), NEW w, w.bound \in Nat, w.compactedOp \in Nat, IsState(w.state),
         w.step = "read", w.kind = "chunks", w.batch = {},
         w.target \in Nat, ChunkStats(w, D, L), NEW s, CountsOK(w, s, D, n), NEW docs, AreNext(docs, w, D),
         NEW v, IsAfter(v, w, docs), v.step = w.step, v.kind = w.kind, v.target = w.target, v.pending = w.pending, v.verify = FALSE,
         v.previous = w.previous, v.overlap = w.overlap, v.state = w.state, v.stats = w.stats, v.batch = docs, IsAsRead(v),
         Unread(v, D) = Unread(w, D), Done(v, D) = Done(w, D)
  PROVE  StatsOK(v, s, D, L, n)
<1> DEFINE b == Base(w)
           h == w.state.last_op
<1>0. h \in Nat
  BY DEF IsState
<1>1. b \in Int /\ b <= w.bound
  <2>1. b \in Int
    BY DEF ChunkStats, OverlapOK, Base
  <2>2. w.bound = b \/ (w.compactedOp = w.bound /\ b < w.bound)
    BY DEF ChunkStats
  <2> HIDE DEF b
  <2> QED BY <2>1, <2>2
<1>2. Base(v) = b
  BY DEF Base
<1>3. v.stats = Stats(DocsAfter(Done(v, D), Base(v)))
  BY <1>2 DEF ChunkStats
<1>4. \A d \in v.batch \cup v.pending : DocId(d) > Base(v)
  <2>1. \A d \in w.pending : DocId(d) > b
    BY DEF ChunkStats
  <2>2. \A d \in docs : w.bound < DocId(d) /\ DocId(d) \in Nat
    BY StoreOrder DEF AreNext
  <2> HIDE DEF b
  <2>3. \A d \in docs : DocId(d) > b
    BY <1>1, <2>2
  <2> QED BY <1>2, <2>1, <2>3
<1>5. CASE docs = {}
  <2>1. v.bound = w.bound /\ v.compactedOp = w.compactedOp
    BY <1>5 DEF IsAfter
  <2>2. /\ v.compactedOp = 0 => v.batch = {} /\ v.pending = {} /\ v.bound = Base(v)
        /\ v.compactedOp # 0 => v.compactedOp = v.bound /\ Base(v) < v.bound
    BY <1>2, <1>5, <2>1 DEF ChunkStats
  <2>3. v.compactedOp <= v.state.last_op /\ (v.compactedOp # 0 => IsWhole(D, v.compactedOp))
    BY <2>1 DEF CountsOK
  <2>4. v.previous # None => OverlapOK(v, D, L)
    BY NextOverlap
  <2>5. ChunkStats(v, D, L)
    BY <1>3, <1>4, <2>2, <2>4 DEF ChunkStats, IsAsRead
  <2> QED BY <2>3, <2>5, CountsKept DEF StatsOK, WorkStats
<1>6. CASE docs # {}
  <2>1. v.compactedOp = v.bound /\ w.bound < v.bound /\ v.bound \in Nat
    BY <1>6 DEF IsAfter
  <2>2. PICK d \in docs : DocId(d) = v.bound
    BY <1>6 DEF IsAfter
  <2>3. d \in D /\ DocId(d) <= w.target
    BY <2>2 DEF AreNext
  <2>4. v.compactedOp <= v.state.last_op
    <3> DEFINE k == v.compactedOp
               t == w.target
    <3>1. k = v.bound /\ v.bound \in Nat
      BY <2>1
    <3>2. k = DocId(d) /\ DocId(d) <= t
      BY <2>2, <2>3, <3>1
    <3>3. t <= h /\ t \in Nat
      BY DEF ChunkStats
    <3>4. v.state.last_op = h
      OBVIOUS
    <3> HIDE DEF k, t, h
    <3>5. k \in Nat /\ k <= t
      BY <3>1, <3>2
    <3>6. k <= h
      BY <1>0, <3>3, <3>5
    <3> QED BY <3>4, <3>6 DEF k
  <2>5. IsWhole(D, v.compactedOp)
    BY <2>1, <2>2, <2>3 DEF IsWhole
  <2>6. v.compactedOp # 0 /\ Base(v) < v.bound
    <3> HIDE DEF b
    <3> QED BY <1>1, <1>2, <2>1
  <2>7. v.previous # None => OverlapOK(v, D, L)
    BY NextOverlap
  <2>8. ChunkStats(v, D, L)
    BY <1>3, <1>4, <2>1, <2>6, <2>7 DEF ChunkStats, IsAsRead
  <2> QED BY <2>4, <2>5, <2>8, CountsKept DEF StatsOK, WorkStats
<1> QED BY <1>5, <1>6

-----------------------------------------------------------------------------
LEMMA NextAre ==
  ASSUME NEW D, NEW L, NEW n, IsStore(D, L, n), NEW w,
         NEW docs, docs = Lowest({d \in D : w.bound < DocId(d) /\ DocId(d) <= w.target}, QueryLimit),
         w.previous # None /\ w.compactedOp = 0 => w.previous.op_id \in Ids(Lowest(docs, 1))
  PROVE  AreNext(docs, w, D)
<1> DEFINE A == {d \in D : w.bound < DocId(d) /\ DocId(d) <= w.target}
<1>1. DocsOK(A) /\ InOrder(A)
  BY DocsPart DEF IsStore, InOrder
<1>2. docs \subseteq A
  BY <1>1, LimitedIs, MongoLimits
<1>3. Lowest(docs, 1) \subseteq docs
  BY DEF Lowest
<1>4. w.previous.op_id \in Ids(Lowest(docs, 1)) => \E d \in docs : DocId(d) = w.previous.op_id
  BY <1>3, IdOfDoc
<1> QED BY <1>2, <1>4 DEF AreNext

LEMMA ReadChunksCounts ==
  ASSUME SchedInv, ReadInv, StatsInv, NEW c \in Compactors, ReadChunks(c)
  PROVE  StatsInv'
<1> DEFINE w == compactors[c]
           docs == Lowest({d \in bucket_data : w.bound < DocId(d) /\ DocId(d) <= w.target}, QueryLimit)
           more == Cardinality(docs) = QueryLimit
           bound == Max(Ids(docs) \cup {w.bound})
           compactedOp == Max(Ids(docs) \cup {w.compactedOp})
           u == NotVerified(w)
           v == WithChunks(w, docs, more, bound, compactedOp)
<1>1. /\ w.step = "read" /\ w.kind = "chunks" /\ w.batch = {}
      /\ UNCHANGED <<bucket_data, bucket_state, log>>
      /\ Become(c, IF IsBoundaryMissing(w, docs) THEN u ELSE v)
  BY DEF ReadChunks, Step, storageUnchanged, NotVerified, WithChunks
<1>2. HasFields(w) /\ IsBusy(w) /\ w.compactedOp \in Nat
  BY <1>1, SchedFields DEF IsBusy, HasFields
<1>3. /\ u.step = w.step /\ u.kind = w.kind /\ u.target = w.target /\ u.bound = 0 /\ u.verify = FALSE /\ u.previous = None
      /\ u.batch = w.batch /\ u.pending = w.pending /\ u.compactedOp = w.compactedOp /\ u.stats = w.stats /\ u.state = w.state
  BY <1>2 DEF HasFields, NotVerified
<1>4. /\ v.step = w.step /\ v.kind = w.kind /\ v.target = w.target /\ v.target_op = w.target_op /\ v.pending = w.pending
      /\ v.verify = FALSE /\ v.batch = docs /\ v.bound = bound /\ v.compactedOp = compactedOp
      /\ v.previous = w.previous /\ v.overlap = w.overlap /\ v.state = w.state /\ v.stats = w.stats
  <2> HIDE DEF docs, more, bound, compactedOp
  <2> QED BY <1>2 DEF HasFields, WithChunks
<1>5. IsAsRead(w) => IsAsRead(u) /\ IsAsRead(v)
  <2> HIDE DEF docs, more, bound, compactedOp
  <2> QED BY <1>2 DEF HasFields, WithChunks, NotVerified, IsAsRead
<1>6. IsLog(log, last_op) /\ IsStore(bucket_data, log, last_op) /\ WorkOK(w, bucket_data, log, last_op)
  BY ReadFields
<1>7. /\ StateOK(bucket_state, bucket_data, log) /\ last_op \in Nat
      /\ StatsOK(w, bucket_state, bucket_data, log, last_op) /\ IsState(w.state)
  BY <1>1, StatsFields
<1>8. ChunkStats(w, bucket_data, log) /\ CountsOK(w, bucket_state, bucket_data, last_op)
  BY <1>1, <1>2, <1>7 DEF StatsOK, WorkStats
<1>9. w.bound \in Nat /\ w.target \in Nat
  BY <1>1, <1>6 DEF WorkOK, ReadOK, ChunksOK
<1>10. IsAsRead(w)
  BY <1>1, <1>8 DEF ChunkStats, IsAsRead
<1>11. SameCounts(bucket_state, bucket_state')
  BY <1>1 DEF SameCounts
<1> HIDE DEF u, v
<1>12. CASE IsBoundaryMissing(w, docs)
  <2>1. w.verify # FALSE /\ Become(c, u)
    BY <1>1, <1>12 DEF IsBoundaryMissing
  <2> HIDE DEF w, docs
  <2>2. StatsOK(u, bucket_state, bucket_data, log, last_op)
    BY <1>1, <1>3, <1>5, <1>6, <1>8, <1>9, <1>10, <2>1, NotVerifiedCounts
  <2> QED BY <1>1, <1>7, <1>11, <2>1, <2>2, CountsStep
<1>13. CASE ~IsBoundaryMissing(w, docs)
  <2>1. Become(c, v)
    BY <1>1, <1>13
  <2>2. w.previous # None /\ w.compactedOp = 0 => w.previous.op_id \in Ids(Lowest(docs, 1))
    <3> SUFFICES ASSUME w.previous # None, w.compactedOp = 0 PROVE w.previous.op_id \in Ids(Lowest(docs, 1))
      OBVIOUS
    <3>1. w.verify = TRUE
      BY <1>8 DEF ChunkStats, OverlapOK
    <3> QED BY <1>13, <3>1 DEF IsBoundaryMissing
  <2>3. docs = Lowest({d \in bucket_data : w.bound < DocId(d) /\ DocId(d) <= w.target}, QueryLimit)
    OBVIOUS
  <2>4. v.bound = Max(Ids(docs) \cup {w.bound}) /\ v.compactedOp = Max(Ids(docs) \cup {w.compactedOp})
    BY <1>4
  <2>5. Unread(v, bucket_data) = Unread(w, bucket_data)
    <3> HIDE DEF w
    <3>1. WorkOK(v, bucket_data, log, last_op) /\ StaysUnread(v, w, bucket_data)
      BY <1>1, <1>2, <1>4, <1>6, ChunksAreRead
    <3> QED BY <3>1 DEF StaysUnread
  <2> HIDE DEF w, docs, bound, compactedOp
  <2>6. AreNext(docs, w, bucket_data)
    BY <1>6, <2>2, <2>3, NextAre
  <2>7. w.compactedOp <= w.bound
    <3>1. w.compactedOp = 0 \/ w.compactedOp = w.bound
      BY <1>8 DEF ChunkStats
    <3> QED BY <1>9, <3>1
  <2>8. docs \subseteq bucket_data /\ \A d \in docs : w.bound < DocId(d)
    BY <2>6 DEF AreNext
  <2>9. IsAfter(v, w, docs)
    BY <1>2, <1>6, <1>9, <2>4, <2>7, <2>8, ChunkBounds
  <2>10. Done(v, bucket_data) = Done(w, bucket_data)
    BY <1>4, <2>5 DEF Done
  <2>11. StatsOK(v, bucket_state, bucket_data, log, last_op)
    BY <1>1, <1>2, <1>4, <1>5, <1>6, <1>7, <1>8, <1>9, <1>10, <2>6, <2>9, <2>5, <2>10, NextChunks
  <2> QED BY <1>1, <1>7, <1>11, <2>1, <2>11, CountsStep
<1> QED BY <1>12, <1>13

-----------------------------------------------------------------------------
(***************************************************************************)
(* The end of an attempt: the state counts what the documents hold.        *)
(***************************************************************************)
NewState(w) == [op_id |-> w.compactedOp, checksum |-> w.stats.checksum, count |-> w.stats.count, chunks |-> w.stats.chunks]

LEMMA FinalizedFields ==
  ASSUME NEW w, IsState(bucket_state), NEW t, t = Finalized(w)
  PROVE  /\ t.compacted_state = NewState(w)
         /\ t.count = bucket_state.count + (w.stats.count + Tail(w).count) - w.state.count
         /\ t.chunks = bucket_state.chunks + (w.stats.chunks + Tail(w).chunks) - w.state.chunks
         /\ t.last_full_compact = (IF w.kind = "full" THEN w.compactedOp ELSE bucket_state.last_full_compact)
<1> DEFINE state == NewState(w)
           count == NewCount(w, "count")
           chunks == NewCount(w, "chunks")
           last == IF w.kind = "full" THEN w.compactedOp ELSE bucket_state.last_full_compact
           first == IF w.kind = "full" THEN RemainingWork(w) ELSE bucket_state.first_uncompacted_write
           next == IF w.kind = "full" THEN RemainingWork(w) ELSE TRUE
           r == [bucket_state EXCEPT !.compacted_state = state, !.count = count, !.chunks = chunks,
                   !.last_full_compact = last, !.first_uncompacted_write = first, !.next_compact_check = next]
<1>1. t = r
  BY DEF Finalized, NewState, IsState
<1>2. count = bucket_state.count + (w.stats.count + Tail(w).count) - w.state.count
  BY DEF NewCount, Plus
<1>3. chunks = bucket_state.chunks + (w.stats.chunks + Tail(w).chunks) - w.state.chunks
  BY DEF NewCount, Plus
<1> HIDE DEF state, count, chunks, last, first, next
<1>4. r.compacted_state = state /\ r.count = count /\ r.chunks = chunks /\ r.last_full_compact = last
  BY DEF IsState
<1> HIDE DEF r
<1> QED BY <1>1, <1>2, <1>3, <1>4 DEF state, last

\* What is stored, in three parts
LEMMA ThreeParts ==
  ASSUME NEW D, NEW L, NEW n, IsStore(D, L, n), NEW k \in Nat, NEW h \in Nat, k <= h,
         NEW B, B = {d \in D : k < DocId(d) /\ DocId(d) <= h}
  PROVE  /\ Stats(D).count = (Stats(DocsUpTo(D, k)).count + Stats(B).count) + Stats(DocsAfter(D, h)).count
         /\ Stats(D).chunks = (Stats(DocsUpTo(D, k)).chunks + Stats(B).chunks) + Stats(DocsAfter(D, h)).chunks
<1> DEFINE A == DocsUpTo(D, k)
           C == DocsAfter(D, h)
<1>1. \A d \in D : DocId(d) \in Nat
  BY StoreOrder
<1>2. A \subseteq D /\ B \subseteq D /\ C \subseteq D
  BY DEF DocsUpTo, DocsAfter
<1>3. A \cap B = {} /\ (A \cup B) \cap C = {} /\ D = (A \cup B) \cup C
  BY <1>1 DEF DocsUpTo, DocsAfter
<1> HIDE DEF A, C
<1>4. DocsOK(A) /\ DocsOK(B) /\ DocsOK(C) /\ DocsOK(A \cup B)
  BY <1>2, PartStats
<1>5. Stats(A \cup B) = Plus(Stats(A), Stats(B))
  BY <1>3, <1>4, StatsAdd
<1>6. Stats((A \cup B) \cup C) = Plus(Stats(A \cup B), Stats(C))
  BY <1>3, <1>4, StatsAdd
<1>7. Stats(D) = Plus(Plus(Stats(A), Stats(B)), Stats(C))
  BY <1>3, <1>5, <1>6
<1>8. /\ Stats(D).count = (Stats(A).count + Stats(B).count) + Stats(C).count
      /\ Stats(D).chunks = (Stats(A).chunks + Stats(B).chunks) + Stats(C).chunks
  BY <1>7, PlusIs
<1> QED BY <1>8 DEF A, C

\* After a full compaction the state counts what is stored.
LEMMA FullIsExact ==
  ASSUME NEW L, NEW n \in Nat, IsLog(L, n), IsStore(bucket_data, L, n), IsState(bucket_state), NEW w, HasFields(w), IsState(w.state),
         w.kind = "full", CountsOK(w, bucket_state, bucket_data, n), FinalStats(w, bucket_data, L),
         NEW t, t = Finalized(w)
  PROVE  t.count = Stats(bucket_data).count /\ t.chunks = Stats(bucket_data).chunks
<1> DEFINE k == w.compactedOp
           h == w.state.last_op
           A == DocsUpTo(bucket_data, k)
           B == {d \in bucket_data : k < DocId(d) /\ DocId(d) <= h}
           C == DocsAfter(bucket_data, h)
<1>1. k \in Nat /\ h \in Nat /\ k <= h /\ h <= n
  BY DEF HasFields, IsState, CountsOK
<1>2. /\ Stats(bucket_data).count = (Stats(A).count + Stats(B).count) + Stats(C).count
      /\ Stats(bucket_data).chunks = (Stats(A).chunks + Stats(B).chunks) + Stats(C).chunks
  BY <1>1, ThreeParts
<1>3. Tail(w) = Stats(B) /\ w.stats = Stats(A)
  BY DEF Tail, FinalStats
<1>4. /\ t.count = bucket_state.count + (w.stats.count + Tail(w).count) - w.state.count
      /\ t.chunks = bucket_state.chunks + (w.stats.chunks + Tail(w).chunks) - w.state.chunks
  BY FinalizedFields
<1>5. /\ bucket_state.count = w.state.count + (n - h) /\ bucket_state.chunks = w.state.chunks + (n - h)
      /\ Stats(C).count = n - h /\ Stats(C).chunks = n - h /\ w.state.count \in Int /\ w.state.chunks \in Int
  BY DEF CountsOK
<1>6. /\ Stats(A).count \in Nat /\ Stats(B).count \in Nat /\ Stats(A).chunks \in Nat /\ Stats(B).chunks \in Nat
  <2>1. A \subseteq bucket_data /\ B \subseteq bucket_data
    BY DEF DocsUpTo
  <2> HIDE DEF A, B
  <2> QED BY <2>1, PartStats
<1> HIDE DEF A, B, C, h
<1> DEFINE a == Stats(A)
           b == Stats(B)
           x == w.state.count
           y == w.state.chunks
           e == n - h
<1>7. e \in Int
  BY <1>1
<1>8. t.count = (x + e) + (a.count + b.count) - x /\ t.chunks = (y + e) + (a.chunks + b.chunks) - y
  BY <1>3, <1>4, <1>5
<1>9. Stats(bucket_data).count = (a.count + b.count) + e /\ Stats(bucket_data).chunks = (a.chunks + b.chunks) + e
  BY <1>2, <1>5
<1>10. a.count \in Nat /\ b.count \in Nat /\ a.chunks \in Nat /\ b.chunks \in Nat /\ x \in Int /\ y \in Int
  BY <1>5, <1>6
<1> HIDE DEF a, b, x, y, e
<1> QED BY <1>7, <1>8, <1>9, <1>10

LEMMA FinalState ==
  ASSUME NEW L, NEW n \in Nat, IsLog(L, n), IsStore(bucket_data, L, n), IsState(bucket_state), StateOK(bucket_state, bucket_data, L),
         NEW w, HasFields(w), IsState(w.state), CountsOK(w, bucket_state, bucket_data, n), FinalStats(w, bucket_data, L),
         NEW t, t = Finalized(w)
  PROVE  StateOK(t, bucket_data, L)
<1> DEFINE s == w.stats
           state == NewState(w)
           B == {d \in bucket_data : w.compactedOp < DocId(d) /\ DocId(d) <= w.state.last_op}
<1>1. IsPrefix(s, w.compactedOp, bucket_data, L) /\ w.compactedOp \in Nat
  BY DEF FinalStats, HasFields
<1>2. SumChecksums(Between(L, 0, w.compactedOp)) \in Nat
  BY BetweenIs, SumType DEF IsLog
<1>3. s.checksum \in Nat /\ s.count \in Nat /\ s.chunks \in Nat
  BY <1>1, <1>2 DEF IsPrefix
<1>4. state \in CompactedStates /\ state.op_id = w.compactedOp /\ state.checksum = s.checksum /\ state.count = s.count /\ state.chunks = s.chunks
  BY <1>1, <1>3 DEF NewState, CompactedStates
<1> HIDE DEF state
<1>5. PrefixOK(state, bucket_data, L)
  BY <1>1, <1>4 DEF PrefixOK, IsPrefix
<1>6. Tail(w).count \in Nat /\ Tail(w).chunks \in Nat
  <2>1. B \subseteq bucket_data /\ Tail(w) = Stats(B)
    BY DEF Tail
  <2> HIDE DEF B
  <2> QED BY <2>1, PartStats
<1>7. bucket_state.count \in Int /\ bucket_state.chunks \in Int /\ w.state.count \in Int /\ w.state.chunks \in Int
      /\ bucket_state.last_full_compact \in Nat
  BY DEF CountsOK, StateOK
<1>8. /\ t.compacted_state = state
      /\ t.count = bucket_state.count + (s.count + Tail(w).count) - w.state.count
      /\ t.chunks = bucket_state.chunks + (s.chunks + Tail(w).chunks) - w.state.chunks
      /\ t.last_full_compact = (IF w.kind = "full" THEN w.compactedOp ELSE bucket_state.last_full_compact)
  BY FinalizedFields DEF state
<1>9. t.count \in Int /\ t.chunks \in Int
  BY <1>3, <1>6, <1>7, <1>8
<1>10. t.last_full_compact \in Nat
  BY <1>1, <1>7, <1>8
<1> QED BY <1>4, <1>5, <1>8, <1>9, <1>10 DEF StateOK

LEMMA FinalizeCounts ==
  ASSUME SchedInv, ReadInv, StatsInv, OneWorker, NEW c \in Compactors, Finalize(c)
  PROVE  StatsInv'
<1> DEFINE w == compactors[c]
           t == Finalized(w)
           r == [t EXCEPT !.compact_lease = None]
<1>1. w.step = "finalize" /\ Finish(c, t) /\ UNCHANGED <<bucket_data, log>>
  BY DEF Finalize, Step, storageUnchanged
<1>2. /\ IsScheduled(bucket_state, last_op) /\ LeaseOK(bucket_state, compactors) /\ last_op \in Nat
      /\ HasFields(w) /\ IsState(w.state) /\ w.step # "idle" /\ IsBusy(w)
  BY <1>1, SchedFields DEF IsWorker, IsBusy
<1>3. IsLog(log, last_op) /\ IsStore(bucket_data, log, last_op)
  BY ReadFields
<1>4. /\ IsState(bucket_state) /\ StateOK(bucket_state, bucket_data, log) /\ StatsOK(w, bucket_state, bucket_data, log, last_op)
  BY <1>2, StatsFields
<1>5. CountsOK(w, bucket_state, bucket_data, last_op) /\ FinalStats(w, bucket_data, log)
  BY <1>1, <1>2, <1>4 DEF StatsOK, WorkStats
<1>6. bucket_state' = (IF Holds(c) THEN r ELSE bucket_state) /\ Become(c, Idle)
  BY <1>1 DEF Finish
<1>7. CASE Holds(c)
  <2>1. bucket_state.first_uncompacted_write = TRUE
    BY <1>1, <1>2, <1>7 DEF LeaseOK, IsBusy, IsHeldBy, Holds
  <2>2. IsState(t)
    BY <1>2, <2>1, FinalizedIs DEF IsScheduled
  <2>3. StateOK(t, bucket_data, log)
    <3> HIDE DEF w
    <3> QED BY <1>2, <1>3, <1>4, <1>5, FinalState
  <2> HIDE DEF t
  <2>4. SameCounts(t, r)
    BY <2>2, SameCountsIs
  <2> HIDE DEF r
  <2>5. StateOK(r, bucket_data, log)
    BY <2>3, <2>4, CountsSame
  <2>6. bucket_state' = r
    BY <1>6, <1>7
  <2>7. StatsOK(Idle, r, bucket_data, log, last_op)
    BY IdleCounts
  <2>8. bucket_data' = bucket_data /\ log' = log
    BY <1>1
  <2> QED BY <1>2, <1>6, <2>5, <2>6, <2>7, <2>8, OwnerStep
<1>8. CASE ~Holds(c)
  <2>1. SameCounts(bucket_state, bucket_state')
    BY <1>6, <1>8 DEF SameCounts
  <2> QED BY <1>1, <1>2, <1>6, <2>1, StopCounts
<1> QED BY <1>7, <1>8

-----------------------------------------------------------------------------
LEMMA StatsStutters ==
  ASSUME StatsInv, UNCHANGED vars
  PROVE  StatsInv'
<1>1. last_op' = last_op
  BY DEF vars, last_op
<1> QED BY <1>1 DEF vars, StatsInv

LEMMA StatsCompactorStep ==
  ASSUME SchedInv, ReadInv, StatsInv, OneWorker, NEW c \in Compactors, CompactorStep(c)
  PROVE  StatsInv'
<1>1. CASE RescheduleUnclaimed(c) \/ RescheduleClaimed(c)
  BY <1>1, RescheduleUnclaimedCounts, RescheduleClaimedCounts
<1>2. CASE ReadBatch(c) \/ CompactDocument(c) \/ EndScan(c)
  BY <1>2, ReadBatchCounts, CompactDocumentCounts, EndScanCounts
<1>3. CASE ClearLeading(c) \/ ClearBoundary(c)
  BY <1>3, ClearLeadingCounts, ClearBoundaryCounts
<1>4. CASE ReadChunks(c) \/ AddChunk(c) \/ ReadOps(c)
  BY <1>4, ReadChunksCounts, AddChunkCounts, ReadOpsCounts
<1>5. CASE MergeChunks(c) \/ EndChunks(c) \/ Finalize(c)
  BY <1>5, MergeChunksCounts, EndChunksCounts, FinalizeCounts
<1> QED BY <1>1, <1>2, <1>3, <1>4, <1>5 DEF CompactorStep

LEMMA StatsNext ==
  ASSUME SchedInv, ReadInv, StatsInv, OneWorker, [MongoNext]_vars
  PROVE  StatsInv'
<1>1. CASE Flush
  BY <1>1, FlushCounts
<1>2. CASE Commit
  BY <1>2, CommitCounts
<1>3. CASE Expire
  BY <1>3, ExpireCounts
<1>4. ASSUME NEW c \in Compactors, Inspect(c) \/ \E kind \in {"full", "chunks", "none"} : Claim(c, kind)
      PROVE  StatsInv'
  BY <1>4, InspectCounts, ClaimCounts
<1>5. ASSUME NEW c \in Compactors, CompactorStep(c)
      PROVE  StatsInv'
  BY <1>5, StatsCompactorStep
<1>6. ASSUME NEW c \in Compactors, Renew(c) \/ Fail(c) \/ Crash(c)
      PROVE  StatsInv'
  BY <1>6, RenewCounts, FailCounts
<1>7. CASE UNCHANGED vars
  BY <1>7, StatsStutters
<1> QED BY <1>1, <1>2, <1>3, <1>4, <1>5, <1>6, <1>7 DEF MongoNext

LEMMA StatsInit == MongoInit => StatsInv
<1> SUFFICES ASSUME MongoInit PROVE StatsInv
  OBVIOUS
<1>1. bucket_state = None /\ \A c \in Compactors : compactors[c] = Idle
  BY DEF MongoInit
<1>2. Idle.step = "idle"
  BY DEF Idle
<1>3. \A c \in Compactors : compactors[c].step = "idle"
  BY <1>1, <1>2
<1>4. \A c \in Compactors : StatsOK(compactors[c], bucket_state, bucket_data, log, last_op)
  BY <1>1, IdleCounts
<1> QED BY <1>1, <1>3, <1>4 DEF StatsInv

(***************************************************************************)
(* The statistics are kept exact while no two workers have claimed the     *)
(* bucket.                                                                 *)
(***************************************************************************)
LEMMA StatsInvariant == MongoSpec /\ []OneWorker => []StatsInv
<1>1. SchedInv /\ ReadInv /\ StatsInv /\ OneWorker /\ [MongoNext]_vars => StatsInv'
  BY StatsNext
<1> QED BY <1>1, StatsInit, SchedInvariant, ReadInvariant, PTL DEF MongoSpec

(***************************************************************************)
(* The checksum of the bucket, which MongoDB storage answers from the      *)
(* compacted state and the documents past it, is at every checkpoint that  *)
(* no CLEAR has overtaken the sum of the operations up to the checkpoint,  *)
(* though compaction rewrites the documents step by step and takes over    *)
(* the statistics only when it ends.                                       *)
(***************************************************************************)
THEOREM CompactedChecksumsMatch == MongoSpec /\ []OneWorker => []ChecksumsMatch
<1>1. ReadInv /\ StatsInv => ChecksumsMatch
  BY ChecksumsAreRight DEF StatsInv
<1> QED BY <1>1, ReadInvariant, StatsInvariant, PTL

-----------------------------------------------------------------------------
LEMMA SchedState ==
  ASSUME SchedInv, bucket_state # None
  PROVE  IsScheduled(bucket_state, last_op)
BY DEF SchedInv

LEMMA TypesHold ==
  ASSUME SchedInv, ReadInv, StatsInv
  PROVE  MongoTypeOK
<1>1. IsLog(log, last_op) /\ IsStore(bucket_data, log, last_op) /\ last_op \in Nat /\ checkpoint \in 0..last_op
  BY DEF ReadInv, IsLog
<1>2. ASSUME NEW d \in bucket_data PROVE d.ops # {} /\ d.ops \subseteq Op /\ d.target_op \in 0..last_op
  <2>1. d.ops # {} /\ d.ops \subseteq Op /\ d.target_op \in Nat /\ IsTarget(d.target_op, log)
    BY <1>1, StoreDoc
  <2>2. d.target_op <= last_op
    <3>1. CASE d.target_op = Null
      BY <1>1, <3>1 DEF Null
    <3>2. CASE HasId(log, d.target_op)
      <4>1. PICK o \in log : o.op_id = d.target_op
        BY <3>2 DEF HasId
      <4>2. o.op_id <= last_op
        BY <1>1 DEF IsLog
      <4> QED BY <4>1, <4>2
    <3> QED BY <2>1, <3>1, <3>2 DEF IsTarget
  <2> QED BY <1>1, <2>1, <2>2
<1>3. ASSUME NEW d \in bucket_data, NEW e \in bucket_data, IsBefore(d, e) PROVE LastOp(d.ops).op_id < MinOp(e)
  <2>1. d \in Doc /\ e \in Doc
    BY <1>1, StoreDoc
  <2>2. HasId(d.ops, DocId(d)) /\ HasId(e.ops, MinOp(e))
    BY <2>1, DocEnds
  <2>3. PICK o \in d.ops : o.op_id = DocId(d)
    BY <2>2 DEF HasId
  <2>4. PICK p \in e.ops : p.op_id = MinOp(e)
    BY <2>2 DEF HasId
  <2>5. o.op_id < p.op_id
    BY <1>3 DEF IsBefore
  <2> QED BY <2>3, <2>4, <2>5 DEF DocId
<1>4. ASSUME NEW d \in bucket_data, NEW e \in bucket_data, d # e
      PROVE  LastOp(d.ops).op_id < MinOp(e) \/ LastOp(e.ops).op_id < MinOp(d)
  BY <1>1, <1>3, <1>4, StoreOrder
<1>5. ASSUME NEW d \in bucket_data, HasClear(d)
      PROVE  FirstOp(d.ops).op = "CLEAR" /\ \A e \in bucket_data : DocId(d) <= DocId(e)
  <2>1. PICK o \in d.ops : o.op = "CLEAR"
    BY <1>5 DEF HasClear
  <2>2. o \in OpsOf(bucket_data)
    BY <2>1 DEF OpsOf
  <2>3. \A p \in OpsOf(bucket_data) : o.op_id <= p.op_id
    BY <1>1, <2>1, <2>2, ClearIsFirst
  <2>4. FirstOp(d.ops).op = "CLEAR"
    <3>1. d \in Doc /\ HasOwnIds(d.ops) /\ o.op_id \in Nat
      BY <1>1, StoreDoc
    <3>2. MinOp(d) <= o.op_id /\ MinOp(d) \in Nat /\ HasId(d.ops, MinOp(d))
      BY <3>1, DocEnds
    <3>3. d.ops \subseteq Op /\ d.ops # {} /\ IsFiniteSet(d.ops)
      BY <1>1, StoreDoc
    <3>4. FirstOp(d.ops) \in d.ops
      BY <3>3, FirstOpMin
    <3>5. FirstOp(d.ops) \in OpsOf(bucket_data)
      BY <3>4 DEF OpsOf
    <3>6. o.op_id <= FirstOp(d.ops).op_id
      BY <2>3, <3>5
    <3>7. o.op_id = FirstOp(d.ops).op_id
      BY <3>1, <3>2, <3>6 DEF MinOp
    <3> QED BY <2>1, <3>1, <3>4, <3>7 DEF HasOwnIds
  <2>5. ASSUME NEW e \in bucket_data PROVE DocId(d) <= DocId(e)
    <3>1. CASE IsBefore(e, d)
      <4>1. e.ops # {}
        BY <1>1, StoreDoc
      <4>2. PICK p : p \in e.ops
        BY <4>1
      <4>3. p \in OpsOf(bucket_data) /\ p.op_id < o.op_id
        BY <3>1, <4>2 DEF OpsOf, IsBefore
      <4>4. p.op_id \in Nat /\ o.op_id \in Nat
        BY <1>1, <4>2, StoreDoc
      <4> QED BY <2>3, <4>3, <4>4
    <3>2. DocId(d) \in Nat /\ DocId(e) \in Nat /\ (DocId(e) < DocId(d) <=> IsBefore(e, d))
      BY <1>1, StoreOrder
    <3> QED BY <3>1, <3>2
  <2> QED BY <2>4, <2>5
<1>6. ASSUME bucket_state # None, bucket_state.compacted_state # None
      PROVE  /\ bucket_state.compacted_state.op_id \in 1..last_op
             /\ Minus(bucket_state.compacted_state, NoStats) \in StatsType
  <2> DEFINE s == bucket_state.compacted_state
  <2>1. s \in CompactedStates
    BY <1>6 DEF StatsInv, StateOK
  <2>2. s.op_id \in 1..last_op
    BY <1>6 DEF ReadInv, CompactedOK
  <2>3. s.checksum \in Nat /\ s.count \in Nat /\ s.chunks \in Nat
    BY <2>1 DEF CompactedStates
  <2>4. NoStats.checksum = 0 /\ NoStats.count = 0 /\ NoStats.chunks = 0
    BY DEF NoStats
  <2> HIDE DEF s
  <2> DEFINE m == Minus(s, NoStats)
  <2>5. m.checksum = s.checksum - 0 /\ m.count = s.count - 0 /\ m.chunks = s.chunks - 0
        /\ m = [checksum |-> m.checksum, count |-> m.count, chunks |-> m.chunks]
    BY <2>4, MinusIs
  <2> HIDE DEF m
  <2>6. m.checksum \in Nat /\ m.count \in Nat /\ m.chunks \in Nat
    BY <2>3, <2>5
  <2>7. m \in StatsType
    BY <2>5, <2>6 DEF StatsType
  <2> QED BY <2>2, <2>7 DEF m, s
<1>7. bucket_state # None => bucket_state.last_op = last_op
  BY SchedState DEF IsScheduled
<1> QED BY <1>1, <1>2, <1>4, <1>5, <1>6, <1>7 DEF MongoTypeOK

(***************************************************************************)
(* Types, and what models.ts states of documents: they do not overlap, and *)
(* a CLEAR is the first operation of the bucket.                           *)
(***************************************************************************)
THEOREM MongoTypes == MongoSpec /\ []OneWorker => []MongoTypeOK
<1>1. SchedInv /\ ReadInv /\ StatsInv => MongoTypeOK
  BY TypesHold
<1> QED BY <1>1, SchedInvariant, ReadInvariant, StatsInvariant, PTL

-----------------------------------------------------------------------------
\* What an action of a worker leaves alone: the work of the others.
Acts(c) == \E w : Become(c, w)

LEMMA StepActs ==
  ASSUME NEW c \in Compactors, CompactorStep(c)
  PROVE  Acts(c)
<1>1. ASSUME NEW w, FlushGroup(c, w) PROVE Acts(c)
  BY <1>1 DEF FlushGroup, Throw, Acts
<1>2. ASSUME Throw(c) PROVE Acts(c)
  BY <1>2 DEF Throw, Acts
<1>3. ASSUME NEW s, Finish(c, s) PROVE Acts(c)
  BY <1>3 DEF Finish, Acts
<1>4. RescheduleUnclaimed(c) => Acts(c)
  BY DEF RescheduleUnclaimed, Acts
<1>5. RescheduleClaimed(c) => Acts(c)
  BY <1>3 DEF RescheduleClaimed
<1>6. ReadBatch(c) => Acts(c)
  BY DEF ReadBatch, Acts
<1>7. CompactDocument(c) => Acts(c)
  BY <1>1 DEF CompactDocument, Acts
<1>8. EndScan(c) => Acts(c)
  BY <1>1 DEF EndScan, Acts
<1>9. ClearLeading(c) => Acts(c)
  BY <1>2 DEF ClearLeading, Acts
<1>10. ClearBoundary(c) => Acts(c)
  BY <1>2 DEF ClearBoundary, Acts
<1>11. ReadChunks(c) => Acts(c)
  BY DEF ReadChunks, Acts
<1>12. AddChunk(c) => Acts(c)
  BY DEF AddChunk, Acts
<1>13. ReadOps(c) => Acts(c)
  BY <1>2 DEF ReadOps, Acts
<1>14. MergeChunks(c) => Acts(c)
  BY <1>1 DEF MergeChunks
<1>15. EndChunks(c) => Acts(c)
  BY DEF EndChunks, Acts
<1>16. Finalize(c) => Acts(c)
  BY <1>3 DEF Finalize
<1> HIDE DEF Acts
<1> QED BY <1>4, <1>5, <1>6, <1>7, <1>8, <1>9, <1>10, <1>11, <1>12, <1>13, <1>14, <1>15, <1>16 DEF CompactorStep

\* The last step of an attempt is Finalize.
LEMMA FinalizeIsLast ==
  ASSUME NEW c \in Compactors, CompactorStep(c), compactors[c].step = "finalize"
  PROVE  Finalize(c)
<1>1. ~Step(c, "inspected") /\ ~Step(c, "reschedule") /\ ~Step(c, "read") /\ ~Step(c, "clear") /\ ~Step(c, "boundary") /\ ~Step(c, "merge")
  BY DEF Step
<1>2. ~RescheduleUnclaimed(c) /\ ~RescheduleClaimed(c)
  BY <1>1 DEF RescheduleUnclaimed, RescheduleClaimed
<1>3. ~ReadBatch(c) /\ ~CompactDocument(c) /\ ~EndScan(c)
  BY <1>1 DEF ReadBatch, CompactDocument, EndScan
<1>4. ~ClearLeading(c) /\ ~ClearBoundary(c)
  BY <1>1 DEF ClearLeading, ClearBoundary
<1>5. ~ReadChunks(c) /\ ~AddChunk(c) /\ ~ReadOps(c)
  BY <1>1 DEF ReadChunks, AddChunk, ReadOps
<1>6. ~MergeChunks(c) /\ ~EndChunks(c)
  BY <1>1 DEF MergeChunks, EndChunks
<1> QED BY <1>2, <1>3, <1>4, <1>5, <1>6 DEF CompactorStep

\* A failure is counted.
LEMMA FailuresNext ==
  ASSUME failures \in Nat, [MongoNext]_vars
  PROVE  /\ failures' \in Nat
         /\ \A c \in Compactors : Fail(c) \/ Crash(c) => failures' # failures
<1>1. \A c \in Compactors : Fail(c) \/ Crash(c) => failures' = failures + 1
  BY DEF Fail, Crash
<1>2. Expire => failures' = failures \/ failures' = failures + 1
  BY DEF Expire
<1>3. Flush \/ Commit \/ UNCHANGED vars => failures' = failures
  BY DEF Flush, Commit, vars
<1>4. ASSUME NEW c \in Compactors, Inspect(c) \/ (\E kind \in {"full", "chunks", "none"} : Claim(c, kind)) \/ Renew(c)
      PROVE  failures' = failures
  BY <1>4 DEF Inspect, Claim, Renew, storageUnchanged
<1>5. ASSUME NEW c \in Compactors, CompactorStep(c)
      PROVE  failures' = failures
  <2>1. RescheduleUnclaimed(c) \/ RescheduleClaimed(c) \/ ReadBatch(c) \/ CompactDocument(c) \/ EndScan(c) => storageUnchanged
    BY DEF RescheduleUnclaimed, RescheduleClaimed, ReadBatch, CompactDocument, EndScan
  <2>2. ClearLeading(c) \/ ClearBoundary(c) \/ ReadChunks(c) \/ AddChunk(c) \/ ReadOps(c) => storageUnchanged
    BY DEF ClearLeading, ClearBoundary, ReadChunks, AddChunk, ReadOps
  <2>3. MergeChunks(c) \/ EndChunks(c) \/ Finalize(c) => storageUnchanged
    BY DEF MergeChunks, EndChunks, Finalize
  <2> QED BY <1>5, <2>1, <2>2, <2>3 DEF CompactorStep, storageUnchanged
<1>6. failures' = failures \/ failures' = failures + 1
  BY <1>1, <1>2, <1>3, <1>4, <1>5 DEF MongoNext
<1> QED BY <1>1, <1>6

LEMMA FailuresInvariant == MongoSpec => [](failures \in Nat)
<1>1. MongoInit => failures \in Nat
  BY DEF MongoInit
<1>2. failures \in Nat /\ [MongoNext]_vars => (failures \in Nat)'
  BY FailuresNext
<1> QED BY <1>1, <1>2, PTL DEF MongoSpec

\* A worker whose last step ends without a failure has finalized its attempt.
LEMMA EndsFinalized ==
  ASSUME SchedInv, failures \in Nat, [MongoNext]_vars, failures' = failures,
         NEW c \in Compactors, compactors[c].step = "finalize", compactors'[c] = Idle
  PROVE  Finalize(c)
<1>1. compactors'[c] # compactors[c]
  BY DEF Idle
<1>2. ~(compactors' = compactors)
  BY <1>1
<1>3. ~Flush /\ ~Commit /\ ~Expire /\ ~UNCHANGED vars
  BY <1>2 DEF Flush, Commit, Expire, vars
<1>4. ASSUME NEW d \in Compactors PROVE ~Renew(d) /\ ~Fail(d) /\ ~Crash(d)
  BY <1>2, FailuresNext DEF Renew
<1>5. ASSUME NEW d \in Compactors, d # c, Acts(d) PROVE FALSE
  <2>1. PICK w : Become(d, w)
    BY <1>5 DEF Acts
  <2>2. compactors'[c] = compactors[c]
    BY <1>5, <2>1, BecomeIs
  <2> QED BY <1>1, <2>2
<1>6. ASSUME NEW d \in Compactors, Inspect(d) \/ \E kind \in {"full", "chunks", "none"} : Claim(d, kind)
      PROVE  FALSE
  <2>1. Acts(d)
    BY <1>6 DEF Inspect, Claim, Acts
  <2>2. Step(d, "idle") \/ Step(d, "inspected")
    BY <1>6 DEF Inspect, Claim
  <2> QED BY <1>5, <2>1, <2>2 DEF Step
<1>7. PICK d \in Compactors : CompactorStep(d)
  BY <1>3, <1>4, <1>6 DEF MongoNext
<1>8. d = c
  BY <1>5, <1>7, StepActs
<1> QED BY <1>7, <1>8, FinalizeIsLast

LEMMA FinishedIsExact ==
  ASSUME SchedInv, ReadInv, StatsInv, NEW c \in Compactors, Finalize(c), compactors[c].kind = "full", Holds(c)
  PROVE  /\ bucket_state'.count = Stats(bucket_data).count
         /\ bucket_state'.chunks = Stats(bucket_data).chunks
<1> DEFINE w == compactors[c]
           t == Finalized(w)
           r == [t EXCEPT !.compact_lease = None]
<1>1. w.step = "finalize" /\ Finish(c, t)
  BY DEF Finalize, Step
<1>2. /\ IsScheduled(bucket_state, last_op) /\ LeaseOK(bucket_state, compactors) /\ last_op \in Nat
      /\ HasFields(w) /\ IsState(w.state) /\ w.step # "idle" /\ IsBusy(w)
  BY <1>1, SchedFields DEF IsWorker, IsBusy
<1>3. IsLog(log, last_op) /\ IsStore(bucket_data, log, last_op)
  BY ReadFields
<1>4. /\ IsState(bucket_state) /\ StatsOK(w, bucket_state, bucket_data, log, last_op)
  BY <1>2, StatsFields
<1>5. CountsOK(w, bucket_state, bucket_data, last_op) /\ FinalStats(w, bucket_data, log)
  BY <1>1, <1>2, <1>4 DEF StatsOK, WorkStats
<1>6. bucket_state' = r
  BY <1>1 DEF Finish
<1>7. bucket_state.first_uncompacted_write = TRUE
  BY <1>1, <1>2 DEF LeaseOK, IsBusy, IsHeldBy, Holds
<1>8. IsState(t)
  BY <1>2, <1>7, FinalizedIs DEF IsScheduled
<1>9. t.count = Stats(bucket_data).count /\ t.chunks = Stats(bucket_data).chunks
  <2>1. w.kind = "full"
    OBVIOUS
  <2> HIDE DEF w
  <2> QED BY <1>2, <1>3, <1>4, <1>5, <2>1, FullIsExact
<1> HIDE DEF t
<1>10. SameCounts(t, r)
  BY <1>8, SameCountsIs
<1> HIDE DEF r
<1>11. r.count = t.count /\ r.chunks = t.chunks
  BY <1>10 DEF SameCounts
<1> QED BY <1>6, <1>9, <1>11

(***************************************************************************)
(* A full compaction that finishes leaves the counts of what is stored.    *)
(***************************************************************************)
THEOREM FullCompactionCounts == MongoSpec /\ []OneWorker => StatsConverge
<1>1. ASSUME SchedInv, ReadInv, StatsInv, failures \in Nat, [MongoNext]_vars
      PROVE  [\A c \in Compactors :
                compactors[c].step = "finalize" /\ compactors[c].kind = "full" /\ Holds(c) /\ compactors'[c] = Idle /\ failures' = failures
                  => /\ bucket_state'.count = Stats(bucket_data).count
                     /\ bucket_state'.chunks = Stats(bucket_data).chunks]_vars
  BY <1>1, EndsFinalized, FinishedIsExact
<1> QED BY <1>1, SchedInvariant, ReadInvariant, StatsInvariant, FailuresInvariant, PTL DEF MongoSpec, StatsConverge

-----------------------------------------------------------------------------
(***************************************************************************)
(* The lease leaves one worker, as long as it does not expire while its    *)
(* holder is at work: nobody else is offered the bucket.                   *)
(***************************************************************************)
\* The lease of a worker that is at work is renewed in time.
LeaseLive == \A c \in Compactors : IsBusy(compactors[c]) /\ Holds(c) => bucket_state.compact_lease.expired = FALSE

LeaseInv == \A c \in Compactors : IsBusy(compactors[c]) => IsHeldBy(bucket_state, c)

\* A step of one worker changes the state of the bucket only at the end of its work.
LEMMA HolderStep ==
  ASSUME SchedInv, LeaseInv, NEW c \in Compactors, NEW w, Become(c, w),
         IsBusy(w) => IsBusy(compactors[c]) /\ bucket_state' = bucket_state,
         bucket_state' = bucket_state \/ IsHeldBy(bucket_state, c)
  PROVE  LeaseInv'
<1>1. \A d \in Compactors : compactors'[d] = IF d = c THEN w ELSE compactors[d]
  BY BecomeIs
<1> SUFFICES ASSUME NEW d \in Compactors, IsBusy(compactors'[d]) PROVE IsHeldBy(bucket_state', d)
  BY DEF LeaseInv
<1>2. IsBusy(compactors[d]) /\ IsHeldBy(bucket_state, d) /\ bucket_state' = bucket_state
  <2>1. CASE d = c
    BY <1>1, <2>1 DEF LeaseInv
  <2>2. CASE d # c
    <3>1. IsBusy(compactors[d])
      BY <1>1, <2>2
    <3>2. IsHeldBy(bucket_state, d)
      BY <3>1 DEF LeaseInv
    <3>3. ~IsHeldBy(bucket_state, c)
      BY <2>2, <3>2 DEF IsHeldBy
    <3> QED BY <3>1, <3>2, <3>3
  <2> QED BY <2>1, <2>2
<1> QED BY <1>2

LEMMA IdleRests == ~IsBusy(Idle)
BY DEF IsBusy, Idle

\* The work goes on, or ends with an error.
LEMMA LeaseGoesOn ==
  ASSUME SchedInv, LeaseInv, NEW c \in Compactors, IsBusy(compactors[c]), NEW w,
         (Become(c, w) /\ UNCHANGED bucket_state) \/ Throw(c)
  PROVE  LeaseInv'
<1>1. CASE Become(c, w) /\ UNCHANGED bucket_state
  BY <1>1, HolderStep
<1>2. CASE Throw(c)
  <2>1. Become(c, Idle) /\ bucket_state' = Released(c)
    BY <1>2 DEF Throw
  <2>2. bucket_state' = bucket_state \/ IsHeldBy(bucket_state, c)
    BY <2>1 DEF Released, Holds, IsHeldBy
  <2> QED BY <2>1, <2>2, IdleRests, HolderStep
<1> QED BY <1>1, <1>2

LEMMA LeaseEnds ==
  ASSUME SchedInv, LeaseInv, NEW c \in Compactors, NEW t, Finish(c, t)
  PROVE  LeaseInv'
<1>1. Become(c, Idle)
  BY DEF Finish
<1>2. bucket_state' = bucket_state \/ IsHeldBy(bucket_state, c)
  BY DEF Finish, Holds, IsHeldBy
<1> QED BY <1>1, <1>2, IdleRests, HolderStep

\* What everybody else writes of the bucket's state leaves the lease with its holder.
LEMMA LeaseStays ==
  ASSUME LeaseInv, UNCHANGED compactors,
         \A c \in Compactors : IsHeldBy(bucket_state, c) /\ IsBusy(compactors[c]) => IsHeldBy(bucket_state', c)
  PROVE  LeaseInv'
BY DEF LeaseInv

LEMMA CompactorLease ==
  ASSUME SchedInv, LeaseInv, NEW c \in Compactors, CompactorStep(c)
  PROVE  LeaseInv'
<1> DEFINE w == compactors[c]
<1>1. CASE RescheduleUnclaimed(c)
  <2>1. Become(c, Idle) /\ w.step = "inspected" /\ UNCHANGED log
    BY <1>1 DEF RescheduleUnclaimed, Step, storageUnchanged
  <2>2. IsScheduled(bucket_state, last_op)
    BY <2>1, SchedFields
  <2>3. bucket_state' = bucket_state \/ bucket_state' = [bucket_state EXCEPT !.next_compact_check = TRUE]
    BY <1>1 DEF RescheduleUnclaimed
  <2>4. bucket_state'.compact_lease = bucket_state.compact_lease
    BY <2>2, <2>3 DEF IsScheduled, IsState
  <2>5. \A d \in Compactors : compactors'[d] = IF d = c THEN Idle ELSE compactors[d]
    BY <2>1, BecomeIs
  <2>6. ASSUME NEW d \in Compactors, IsBusy(compactors'[d]) PROVE IsHeldBy(bucket_state', d)
    <3>1. IsBusy(compactors[d])
      BY <2>5, <2>6, IdleRests
    <3> QED BY <2>4, <3>1 DEF LeaseInv, IsHeldBy
  <2> QED BY <2>6 DEF LeaseInv
<1>2. CASE RescheduleClaimed(c) \/ Finalize(c)
  <2>1. \E t : Finish(c, t)
    BY <1>2 DEF RescheduleClaimed, Finalize
  <2> QED BY <2>1, LeaseEnds
<1>3. CASE ReadBatch(c) \/ ReadChunks(c) \/ AddChunk(c) \/ EndChunks(c)
  <2>1. IsBusy(w) /\ UNCHANGED bucket_state
    BY <1>3 DEF ReadBatch, ReadChunks, AddChunk, EndChunks, Step, IsBusy
  <2>2. \E v : Become(c, v)
    BY <1>3 DEF ReadBatch, ReadChunks, AddChunk, EndChunks
  <2> QED BY <2>1, <2>2, LeaseGoesOn
<1>4. CASE CompactDocument(c) \/ EndScan(c) \/ MergeChunks(c)
  <2>1. IsBusy(w)
    BY <1>4 DEF CompactDocument, EndScan, MergeChunks, Step, IsBusy
  <2>2. \E v : (Become(c, v) /\ UNCHANGED bucket_state) \/ Throw(c)
    BY <1>4 DEF CompactDocument, EndScan, MergeChunks, FlushGroup
  <2> QED BY <2>1, <2>2, LeaseGoesOn
<1>5. CASE ClearLeading(c) \/ ClearBoundary(c)
  <2>1. IsBusy(w)
    BY <1>5 DEF ClearLeading, ClearBoundary, Step, IsBusy
  <2>2. \E v : (Become(c, v) /\ UNCHANGED bucket_state) \/ Throw(c)
    BY <1>5 DEF ClearLeading, ClearBoundary
  <2> QED BY <2>1, <2>2, LeaseGoesOn
<1>6. CASE ReadOps(c)
  <2>1. IsBusy(w)
    BY <1>6 DEF ReadOps, Step, IsBusy
  <2>2. \E v : (Become(c, v) /\ UNCHANGED bucket_state) \/ Throw(c)
    BY <1>6 DEF ReadOps
  <2> QED BY <2>1, <2>2, LeaseGoesOn
<1> QED BY <1>1, <1>2, <1>3, <1>4, <1>5, <1>6 DEF CompactorStep

\* Only a bucket without a lease, or whose lease has expired, is claimed.
LEMMA ClaimLease ==
  ASSUME SchedInv, ReadInv, StatsInv, LeaseInv, LeaseLive, NEW c \in Compactors, NEW kind, Claim(c, kind)
  PROVE  LeaseInv'
<1> DEFINE w == compactors[c]
           lease == [id |-> c, expired |-> FALSE]
           s == [bucket_state EXCEPT !.compact_lease = lease]
<1>1. w.step = "inspected"
  BY DEF Claim, Step
<1>2. IsScheduled(bucket_state, last_op) /\ bucket_state # None
  BY <1>1, StatsFields, StateIsThere, SchedFields
<1>3. CASE Become(c, Idle) /\ UNCHANGED bucket_state
  BY <1>3, IdleRests, HolderStep
<1>4. CASE IsAvailable /\ bucket_state' = s /\ \E v : Become(c, v)
  <2>1. ASSUME NEW d \in Compactors PROVE ~IsBusy(compactors[d])
    <3>1. SUFFICES ASSUME IsBusy(compactors[d]) PROVE FALSE
      OBVIOUS
    <3>2. bucket_state.compact_lease # None /\ bucket_state.compact_lease.id = d
      BY <3>1 DEF LeaseInv, IsHeldBy
    <3>3. bucket_state.compact_lease.expired
      BY <1>4, <3>2, Zenon DEF IsAvailable
    <3>4. bucket_state.compact_lease.expired \in BOOLEAN
      BY <1>2, <3>2 DEF IsScheduled, IsState, Lease
    <3>5. bucket_state.compact_lease.expired = TRUE
      BY <3>3, <3>4
    <3> QED BY <3>1, <3>2, <3>5 DEF LeaseLive, Holds
  <2>2. PICK v : Become(c, v)
    BY <1>4
  <2>3. \A d \in Compactors : compactors'[d] = IF d = c THEN v ELSE compactors[d]
    BY <2>2, BecomeIs
  <2>4. bucket_state'.compact_lease = lease
    BY <1>2, <1>4 DEF IsScheduled, IsState
  <2>5. lease # None
    BY LeaseAssumption
  <2>6. ASSUME NEW d \in Compactors, IsBusy(compactors'[d]) PROVE IsHeldBy(bucket_state', d)
    <3>1. d = c
      BY <2>1, <2>3, <2>6
    <3> QED BY <2>4, <2>5, <3>1 DEF IsHeldBy
  <2> QED BY <2>6 DEF LeaseInv
<1> QED BY <1>3, <1>4 DEF Claim

\* The lease, but for its time
LEMMA LeaseExpires ==
  ASSUME LeaseInv, IsState(bucket_state), bucket_state.compact_lease # None, NEW e \in BOOLEAN,
         bucket_state' = [bucket_state EXCEPT !.compact_lease.expired = e], UNCHANGED compactors
  PROVE  LeaseInv'
<1> DEFINE l == bucket_state.compact_lease
           m == [l EXCEPT !.expired = e]
<1>2. l \in Lease
  BY DEF IsState
<1>3. bucket_state'.compact_lease = m
  BY DEF IsState
<1>4. m = [id |-> l.id, expired |-> e] /\ l.id \in Compactors
  BY <1>2 DEF Lease
<1>5. m # None /\ m.id = l.id
  BY <1>4, LeaseAssumption
<1> HIDE DEF m
<1> QED BY <1>3, <1>5 DEF LeaseInv, IsHeldBy

LEMMA FlushLease ==
  ASSUME SchedInv, ReadInv, StatsInv, LeaseInv, Flush
  PROVE  LeaseInv'
<1>1. UNCHANGED compactors /\ \E op : AppendOp(op)
  BY DEF Flush
<1>2. PICK op : AppendOp(op)
  BY <1>1
<1> SUFFICES ASSUME NEW c \in Compactors, IsBusy(compactors[c]) PROVE IsHeldBy(bucket_state', c)
  BY <1>1 DEF LeaseInv
<1>3. IsState(bucket_state) /\ StateOK(bucket_state, bucket_data, log)
  BY StatsFields DEF IsBusy
<1>4. bucket_state # None /\ IsHeldBy(bucket_state, c)
  BY <1>3, StateIsThere DEF LeaseInv
<1>5. bucket_state' = [bucket_state EXCEPT !.last_op = op.op_id, !.count = @ + 1, !.chunks = @ + 1,
                                           !.first_uncompacted_write = TRUE, !.next_compact_check = TRUE]
  BY <1>2, <1>4 DEF AppendOp
<1>6. bucket_state'.compact_lease = bucket_state.compact_lease
  BY <1>3, <1>5 DEF IsState
<1> QED BY <1>4, <1>6 DEF IsHeldBy

LEMMA LeaseNext ==
  ASSUME SchedInv, ReadInv, StatsInv, LeaseInv, LeaseLive, [MongoNext]_vars
  PROVE  LeaseInv'
<1>1. CASE Flush
  BY <1>1, FlushLease
<1>2. CASE Commit \/ UNCHANGED vars
  <2>1. UNCHANGED <<bucket_state, compactors>>
    BY <1>2 DEF Commit, vars
  <2> QED BY <2>1 DEF LeaseInv
<1>3. CASE Expire
  <2>1. IsState(bucket_state)
    BY <1>3, SchedState DEF Expire, IsScheduled
  <2> QED BY <1>3, <2>1, LeaseExpires DEF Expire
<1>4. ASSUME NEW c \in Compactors, Inspect(c)
      PROVE  LeaseInv'
  <2> DEFINE w == [Idle EXCEPT !.step = "inspected", !.cap = checkpoint, !.state = bucket_state]
  <2>1. Become(c, w) /\ bucket_state' = bucket_state
    BY <1>4 DEF Inspect
  <2>2. ~IsBusy(w)
    BY DEF IsBusy, Idle
  <2> HIDE DEF w
  <2> QED BY <2>1, <2>2, HolderStep
<1>5. ASSUME NEW c \in Compactors, NEW kind, Claim(c, kind)
      PROVE  LeaseInv'
  BY <1>5, ClaimLease
<1>6. ASSUME NEW c \in Compactors, CompactorStep(c)
      PROVE  LeaseInv'
  BY <1>6, CompactorLease
<1>7. ASSUME NEW c \in Compactors, Renew(c)
      PROVE  LeaseInv'
  <2>1. compactors[c].step # "idle" /\ bucket_state.compact_lease # None
    BY <1>7 DEF Renew, Step, Holds
  <2>2. IsState(bucket_state)
    BY <2>1, StatsFields
  <2> QED BY <1>7, <2>1, <2>2, LeaseExpires DEF Renew
<1>8. ASSUME NEW c \in Compactors, Fail(c) \/ Crash(c)
      PROVE  LeaseInv'
  <2>1. CASE Become(c, Idle) /\ UNCHANGED bucket_state
    BY <2>1, IdleRests, HolderStep
  <2>2. CASE Throw(c)
    <3>1. Become(c, Idle) /\ bucket_state' = Released(c)
      BY <2>2 DEF Throw
    <3>2. bucket_state' = bucket_state \/ IsHeldBy(bucket_state, c)
      BY <3>1 DEF Released, Holds, IsHeldBy
    <3> QED BY <3>1, <3>2, IdleRests, HolderStep
  <2> QED BY <1>8, <2>1, <2>2 DEF Fail, Crash
<1> QED BY <1>1, <1>2, <1>3, <1>4, <1>5, <1>6, <1>7, <1>8 DEF MongoNext

LEMMA LeaseInit == MongoInit => LeaseInv
BY IdleRests DEF MongoInit, LeaseInv

(***************************************************************************)
(* The lease excludes: as long as it does not expire while its holder is   *)
(* at work, at most one worker has claimed the bucket.                     *)
(***************************************************************************)
THEOREM LeaseExcludes == MongoSpec /\ []LeaseLive => []OneWorker
<1> DEFINE Inv == ReadInv /\ StatsInv /\ LeaseInv
<1>1. LeaseInv => OneWorker
  BY DEF LeaseInv, OneWorker, IsHeldBy
<1>2. MongoInit => Inv
  BY ReadInit, StatsInit, LeaseInit
<1>3. SchedInv /\ Inv /\ LeaseLive /\ [MongoNext]_vars => Inv'
  <2> SUFFICES ASSUME SchedInv, Inv, LeaseLive, [MongoNext]_vars PROVE Inv'
    OBVIOUS
  <2>1. OneWorker
    BY <1>1
  <2>2. ReadInv'
    BY <2>1, ReadNext
  <2>3. StatsInv'
    BY <2>1, StatsNext
  <2>4. LeaseInv'
    BY LeaseNext
  <2> QED BY <2>2, <2>3, <2>4
<1>4. Inv => OneWorker
  BY <1>1
<1> HIDE DEF Inv
<1> QED BY <1>2, <1>3, <1>4, SchedInvariant, PTL DEF MongoSpec

(***************************************************************************)
(* What holds of the bucket while every worker keeps its lease: its        *)
(* documents are in order, reads and checksums are those of what was       *)
(* written, and a full compaction leaves exact counts.                     *)
(***************************************************************************)
THEOREM CompactionIsSafe ==
  MongoSpec /\ []LeaseLive => [](MongoTypeOK /\ ReadsConsistent /\ ChecksumsMatch) /\ StatsConverge
BY LeaseExcludes, MongoTypes, CompactedReadsAreConsistent, CompactedChecksumsMatch, FullCompactionCounts, PTL
===============================================================================
