---------------------- MODULE ReplicationLifecycleProofs ----------------------
(***************************************************************************)
(* Proofs about ReplicationLifecycle, for every value of its constants.    *)
(***************************************************************************)
EXTENDS ReplicationLifecycle, TLAPS

(***************************************************************************)
(* Most steps of a runner change nothing but that runner, and leave its    *)
(* process, stream and kind as they are.                                   *)
(***************************************************************************)
Moved(i, step) ==
  /\ runners[i] # None
  /\ \E r \in Runner :
       /\ runners' = [runners EXCEPT ![i] = r]
       /\ r.process = runners[i].process /\ r.stream = runners[i].stream /\ r.kind = runners[i].kind
       /\ r.refreshing = runners[i].refreshing \/ (r.refreshing = FALSE /\ RefreshFails(i))
       /\ r.step = step

Moves(i) == \E step \in JobSteps \cup ClearSteps \cup {"release"} : Moved(i, step)

LEMMA RunnerType ==
  ASSUME LifecycleTypeOK, NEW i \in LockIds, runners[i] # None
  PROVE  runners[i] \in Runner
BY DEF LifecycleTypeOK

LEMMA GoMoves ==
  ASSUME LifecycleTypeOK, NEW i \in LockIds, runners[i] # None,
         NEW step \in JobSteps \cup ClearSteps \cup {"release"}, Go(i, step)
  PROVE  Moved(i, step)
<1> DEFINE r == [runners[i] EXCEPT !.step = step, !.aborted = @ \/ step = "release"]
<1>1. runners[i] \in Runner
  BY RunnerType
<1>2. runners' = [runners EXCEPT ![i] = r]
  BY DEF Go
<1>3. (runners[i].aborted \/ step = "release") \in BOOLEAN
  BY <1>1 DEF Runner
<1>4. r \in Runner
  BY <1>1, <1>3 DEF Runner
<1>5. r.process = runners[i].process /\ r.stream = runners[i].stream /\ r.kind = runners[i].kind /\ r.step = step
      /\ r.refreshing = runners[i].refreshing
  BY <1>1 DEF Runner
<1>6. QED
  BY <1>2, <1>4, <1>5 DEF Moved

LEMMA SlotErrorMoves ==
  ASSUME LifecycleTypeOK, NEW i \in LockIds, runners[i] # None, NEW phase, SlotError(i, phase)
  PROVE  Moved(i, "restart") \/ Moved(i, "release")
BY GoMoves DEF SlotError, JobSteps

\* The steps of a runner that start neither an activation nor a termination
PlainStep(i) ==
  \/ InitSlot(i) \/ ClearRow(i) \/ CreateSlot(i) \/ FinishSnapshot(i) \/ FindsSlotLost(i)
  \/ CommitActivate(i) \/ Restart(i) \/ BeginUpdate(i) \/ InsertUpdate(i) \/ Retire(i)
  \/ CleanUp(i) \/ Terminate(i) \/ AbortJob(i) \/ RunnerFails(i)

PlainMove(i) == \E step \in (JobSteps \cup ClearSteps \cup {"release"}) \ {"activate", "terminate"} : Moved(i, step)

LEMMA PlainStepMoves ==
  ASSUME LifecycleTypeOK, NEW i \in LockIds, PlainStep(i)
  PROVE  PlainMove(i)
<1> runners[i] # None
  BY DEF PlainStep, InitSlot, ClearRow, CreateSlot, FinishSnapshot, FindsSlotLost, CommitActivate, Restart,
    BeginUpdate, InsertUpdate, Retire, CleanUp, Terminate, AbortJob, RunnerFails, At
<1> USE DEF JobSteps, ClearSteps
<1>0. runners[i] \in Runner
  BY RunnerType
<1>1. CASE InitSlot(i)
  <2>1. \/ \E step \in {"streaming", "snapshot", "reset"} : Go(i, step)
        \/ \E phase \in {"streaming", "snapshot"} : SlotError(i, phase)
    BY <1>1 DEF InitSlot
  <2>2. QED
    BY <2>1, GoMoves, SlotErrorMoves DEF PlainMove
<1>2. CASE FindsSlotLost(i)
  BY <1>2, SlotErrorMoves DEF FindsSlotLost, PlainMove
<1>3. CASE ClearRow(i)
  <2>1. \E step \in {"resetting", "clearing"} : Go(i, step)
    BY <1>3 DEF ClearRow
  <2>2. QED
    BY <2>1, GoMoves DEF PlainMove
<1>4. CASE CreateSlot(i) \/ FinishSnapshot(i) \/ Retire(i) \/ CleanUp(i) \/ Terminate(i) \/ AbortJob(i)
  <2>1. \E step \in {"snapshot", "streaming", "release", "clear"} : Go(i, step)
    BY <1>4 DEF CreateSlot, FinishSnapshot, Retire, CleanUp, Terminate, AbortJob
  <2>2. QED
    BY <2>1, GoMoves DEF PlainMove
<1>5. CASE CommitActivate(i)
  <2> DEFINE r == [runners[i] EXCEPT !.step = "streaming", !.matched = {}]
  <2>1. runners' = [runners EXCEPT ![i] = r]
    BY <1>5 DEF CommitActivate
  <2>2. r \in Runner
    BY <1>0 DEF Runner
  <2>3. QED
    BY <1>0, <2>1, <2>2 DEF PlainMove, Moved, Runner
<1>6. CASE Restart(i)
  <2> DEFINE s == runners[i].stream
             redo == DeployingStream = s \/ (DeployingStream = None /\ ActiveStream = s)
             step == IF redo THEN "update" ELSE IF ActiveStream = s THEN "retire" ELSE "release"
             aborted == runners[i].aborted \/ (~redo /\ ActiveStream # s)
             retire == IF DeployingStream = s THEN "STOP" ELSE "ERRORED"
             r == [runners[i] EXCEPT !.step = step, !.aborted = aborted, !.content = sync_rules[s].content, !.retire = retire]
  <2>1. runners' = [runners EXCEPT ![i] = r]
    BY <1>6 DEF Restart
  <2>2. sync_rules[s].content \in Configs
    BY <1>0 DEF LifecycleTypeOK, Row, Runner
  <2>3. step \in {"update", "retire", "release"} /\ aborted \in BOOLEAN /\ retire \in {"STOP", "ERRORED"}
    BY <1>0 DEF Runner
  <2>4. r \in Runner
    <3> HIDE DEF step, aborted, retire
    <3> QED
      BY <1>0, <2>2, <2>3 DEF Runner, JobSteps
  <2>5. r.step \in {"update", "retire", "release"}
    BY <1>0 DEF Runner
  <2>6. r.process = runners[i].process /\ r.stream = runners[i].stream /\ r.kind = runners[i].kind
        /\ r.refreshing = runners[i].refreshing
    BY <1>0 DEF Runner
  <2> HIDE DEF r
  <2>7. Moved(i, r.step)
    BY <2>1, <2>4, <2>6 DEF Moved
  <2>8. QED
    BY <2>5, <2>7 DEF PlainMove
<1>7. CASE BeginUpdate(i)
  <2> DEFINE r == [runners[i] EXCEPT !.step = "insert", !.matched = InState({"PROCESSING"})]
  <2>1. runners' = [runners EXCEPT ![i] = r]
    BY <1>7 DEF BeginUpdate
  <2>2. r \in Runner
    BY <1>0 DEF Runner, InState
  <2>3. QED
    BY <1>0, <2>1, <2>2 DEF PlainMove, Moved, Runner
<1>8. CASE InsertUpdate(i)
  <2> DEFINE r == [runners[i] EXCEPT !.step = "retire", !.matched = {}]
  <2>1. runners' = [runners EXCEPT ![i] = r]
    BY <1>8 DEF InsertUpdate
  <2>2. r \in Runner
    BY <1>0 DEF Runner
  <2>3. QED
    BY <1>0, <2>1, <2>2 DEF PlainMove, Moved, Runner
<1>9. CASE RunnerFails(i)
  <2> DEFINE r == [runners[i] EXCEPT !.step = "release", !.aborted = TRUE, !.matched = {}]
  <2>1. runners' = [runners EXCEPT ![i] = r]
    BY <1>9 DEF RunnerFails
  <2>2. r \in Runner
    BY <1>0 DEF Runner
  <2>3. QED
    BY <1>0, <2>1, <2>2 DEF PlainMove, Moved, Runner
<1>10. QED
  BY <1>1, <1>2, <1>3, <1>4, <1>5, <1>6, <1>7, <1>8, <1>9 DEF PlainStep

LEMMA BeginActivateMoves ==
  ASSUME LifecycleTypeOK, NEW i \in LockIds, BeginActivate(i)
  PROVE  Moved(i, "activate")
<1> DEFINE r == [runners[i] EXCEPT !.step = "activate", !.matched = InState(Serving) \ {runners[i].stream}]
<1>1. runners[i] # None /\ runners' = [runners EXCEPT ![i] = r]
  BY DEF BeginActivate, At
<1>2. runners[i] \in Runner
  BY <1>1, RunnerType
<1>3. r \in Runner
  BY <1>2 DEF Runner, JobSteps, InState
<1>4. QED
  BY <1>1, <1>2, <1>3 DEF Moved, Runner

LEMMA ClearDoneMoves ==
  ASSUME LifecycleTypeOK, NEW i \in LockIds, ClearDone(i)
  PROVE  Moved(i, "terminate")
BY GoMoves DEF ClearDone, At, ClearSteps

LEMMA RefreshFailsMoves ==
  ASSUME LifecycleTypeOK, NEW i \in LockIds, RefreshFails(i)
  PROVE  Moved(i, runners[i].step)
<1> DEFINE r == [runners[i] EXCEPT !.refreshing = FALSE]
<1>1. runners[i] # None /\ runners' = [runners EXCEPT ![i] = r]
  BY DEF RefreshFails
<1>2. runners[i] \in Runner
  BY <1>1, RunnerType
<1>3. r \in Runner
  BY <1>2 DEF Runner
<1>4. QED
  BY <1>1, <1>2, <1>3 DEF Moved, Runner

LEMMA AbortMoves ==
  ASSUME LifecycleTypeOK, NEW p \in Processes, NEW s \in Streams, StopOrphan(p, s)
  PROVE  \/ UNCHANGED runners
         \/ \E i \in LockIds : UNCHANGED replicator /\ Moved(i, runners[i].step)
<1> SUFFICES ASSUME ~UNCHANGED runners
             PROVE  \E i \in LockIds : UNCHANGED replicator /\ Moved(i, runners[i].step)
  OBVIOUS
<1> DEFINE job == replicator[p].jobs[s]
           r == [runners[job] EXCEPT !.aborted = TRUE]
<1>1. job # Ended /\ s \in replicator[p].orphans /\ runners' = [runners EXCEPT ![job] = r] /\ UNCHANGED replicator
  BY DEF StopOrphan
<1>2. job \in LockIds \cup {None}
  BY <1>1 DEF LifecycleTypeOK, Replicator, Jobs
<1>3. job \in LockIds
  BY <1>1, <1>2 DEF LifecycleTypeOK
<1>4. runners[job] # None
  BY <1>3 DEF LifecycleTypeOK
<1>5. runners[job] \in Runner
  BY <1>3, <1>4, RunnerType
<1>6. r \in Runner
  BY <1>5 DEF Runner
<1>7. QED
  BY <1>1, <1>3, <1>4, <1>5, <1>6 DEF Moved, Runner

-----------------------------------------------------------------------------
(* Type correctness. A replicator that configures has a config. *)

ConfigLoaded == \A p \in Processes : replicator[p].step = "configure" => loadedSyncConfig[p] \in Configs

TypeInv == LifecycleTypeOK /\ ConfigLoaded

RunnersOK == runners \in [LockIds -> Runner \cup {None}]

\* The last part of LifecycleTypeOK, for one job of a map
Live(p, s, job) ==
  job \in LockIds => runners[job] # None /\ runners[job].process = p /\ runners[job].stream = s /\ runners[job].kind = "job"
JobsLive == \A p \in Processes, s \in Streams : Live(p, s, replicator[p].jobs[s]) /\ Live(p, s, replicator[p].newJobs[s])

LEMMA LifecycleTypeParts ==
  LifecycleTypeOK <=>
    /\ sync_rules \in [Streams -> Row]
    /\ data \in [Streams -> 0..MaxData]
    /\ slots \in [Streams -> {"missing", "valid", "lost"}]
    /\ locks \in [Streams -> [id : LockIds \cup {None}, expired : BOOLEAN]]
    /\ RunnersOK
    /\ replicator \in [Processes -> Replicator]
    /\ deploy \in [Clients -> (SUBSET Streams) \cup {None}]
    /\ loadedSyncConfig \in [Processes -> Configs \cup {None}]
    /\ JobsLive
    /\ late \subseteq Streams
    /\ unlocked \subseteq Streams
    /\ faults \in 0..MaxFaults
BY DEF LifecycleTypeOK, RunnersOK, JobsLive, Live

LEMMA MovedType ==
  ASSUME LifecycleTypeOK, NEW i \in LockIds, NEW step, Moved(i, step), UNCHANGED replicator
  PROVE  RunnersOK' /\ JobsLive'
<1>1. RunnersOK /\ JobsLive
  BY LifecycleTypeParts
<1>2. PICK r \in Runner : /\ runners' = [runners EXCEPT ![i] = r]
                          /\ r.process = runners[i].process /\ r.stream = runners[i].stream /\ r.kind = runners[i].kind
  BY DEF Moved
<1>3. RunnersOK'
  BY <1>1, <1>2 DEF RunnersOK
<1>4. None \notin Runner
  BY NoneAssumption
<1>5. QED
  BY <1>1, <1>2, <1>4 DEF JobsLive, Live, RunnersOK

LEMMA StateType ==
  ASSUME LifecycleTypeOK, NEW S, NEW state \in States
  PROVE  SetState(S, state) \in [Streams -> Row]
<1> SUFFICES ASSUME NEW s \in Streams
             PROVE  (IF s \in S THEN [sync_rules[s] EXCEPT !.state = state] ELSE sync_rules[s]) \in Row
  BY DEF SetState
<1>1. sync_rules[s] \in Row
  BY DEF LifecycleTypeOK
<1>2. QED
  BY <1>1 DEF Row

LEMMA CommitUpdateType ==
  ASSUME LifecycleTypeOK, NEW matched, NEW content \in Configs, CommitUpdate(matched, content)
  PROVE  sync_rules' \in [Streams -> Row]
<1> DEFINE row == [state |-> "PROCESSING", snapshot_done |-> FALSE, content |-> content]
           stopped == SetState(matched \cap InState({"PROCESSING"}), "STOP")
<1>1. PICK new \in Streams : sync_rules' = [stopped EXCEPT ![new] = row]
  BY DEF CommitUpdate, InState
<1>2. stopped \in [Streams -> Row]
  BY StateType DEF States
<1>3. row \in Row
  BY DEF Row, States
<1> HIDE DEF row, stopped
<1>4. QED
  BY <1>1, <1>2, <1>3

LEMMA RowStepType ==
  ASSUME LifecycleTypeOK, NEW i \in LockIds,
         ClearRow(i) \/ FinishSnapshot(i) \/ CommitActivate(i) \/ InsertUpdate(i) \/ Retire(i) \/ Terminate(i)
  PROVE  sync_rules' \in [Streams -> Row]
<1>0. runners[i] # None
  BY DEF ClearRow, FinishSnapshot, CommitActivate, InsertUpdate, Retire, Terminate, At
<1>1. runners[i] \in Runner
  BY <1>0, RunnerType
<1>2. runners[i].stream \in Streams /\ runners[i].content \in Configs /\ runners[i].retire \in States
  BY <1>1 DEF Runner, States
<1>3. sync_rules \in [Streams -> Row]
  BY DEF LifecycleTypeOK
<1>4. sync_rules[runners[i].stream] \in Row
  BY <1>2, <1>3
<1>5. CASE ClearRow(i) \/ FinishSnapshot(i)
  <2>1. PICK done \in BOOLEAN :
          sync_rules' = [sync_rules EXCEPT ![runners[i].stream] = [sync_rules[runners[i].stream] EXCEPT !.snapshot_done = done]]
    BY <1>5 DEF ClearRow, FinishSnapshot
  <2>2. [sync_rules[runners[i].stream] EXCEPT !.snapshot_done = done] \in Row
    BY <1>4, <2>1 DEF Row
  <2>3. QED
    BY <1>3, <2>1, <2>2
<1>6. CASE CommitActivate(i)
  <2> DEFINE stopped == SetState(runners[i].matched \cap InState(Serving), "STOP")
             s == runners[i].stream
  <2>1. sync_rules' = [stopped EXCEPT ![s] = [stopped[s] EXCEPT !.state = "ACTIVE"]]
    BY <1>6 DEF CommitActivate
  <2>2. stopped \in [Streams -> Row]
    BY StateType DEF States
  <2> HIDE DEF stopped
  <2>3. [stopped[s] EXCEPT !.state = "ACTIVE"] \in Row
    BY <1>2, <2>2 DEF Row, States
  <2>4. QED
    BY <2>1, <2>2, <2>3
<1>7. CASE InsertUpdate(i)
  BY <1>2, <1>7, CommitUpdateType DEF InsertUpdate
<1>8. CASE Retire(i)
  BY <1>2, <1>8, StateType DEF Retire
<1>9. CASE Terminate(i)
  <2>1. sync_rules' = [sync_rules EXCEPT ![runners[i].stream] =
          [sync_rules[runners[i].stream] EXCEPT !.state = "TERMINATED", !.snapshot_done = FALSE]]
    BY <1>9 DEF Terminate
  <2>2. [sync_rules[runners[i].stream] EXCEPT !.state = "TERMINATED", !.snapshot_done = FALSE] \in Row
    BY <1>4 DEF Row, States
  <2>3. QED
    BY <1>3, <2>1, <2>2
<1>10. QED
  BY <1>5, <1>6, <1>7, <1>8, <1>9

\* acquire() takes a handle that no runner and no map knows.
LEMMA StartRunnerType ==
  ASSUME LifecycleTypeOK, NEW s \in Streams, NEW new \in Runner, StartRunner(s, new)
  PROVE  \E i \in FreeIds :
           /\ \A j \in FreeIds : i <= j
           /\ i \in LockIds /\ runners[i] = None
           /\ CanLock(s)
           /\ locks' = [locks EXCEPT ![s] = [id |-> i, expired |-> FALSE]]
           /\ runners' = [runners EXCEPT ![i] = new]
           /\ locks' \in [Streams -> [id : LockIds \cup {None}, expired : BOOLEAN]]
           /\ RunnersOK'
<1>1. PICK i \in FreeIds :
        /\ \A j \in FreeIds : i <= j
        /\ CanLock(s)
        /\ locks' = [locks EXCEPT ![s] = [id |-> i, expired |-> FALSE]]
        /\ runners' = [runners EXCEPT ![i] = new]
  BY DEF StartRunner
<1>2. i \in LockIds /\ runners[i] = None
  BY <1>1 DEF FreeIds
<1>3. locks' \in [Streams -> [id : LockIds \cup {None}, expired : BOOLEAN]]
  BY <1>1, <1>2 DEF LifecycleTypeOK
<1>4. RunnersOK'
  BY <1>1, <1>2 DEF LifecycleTypeOK, RunnersOK
<1>5. QED
  BY <1>1, <1>2, <1>3, <1>4

LEMMA NewRunnerType ==
  ASSUME LifecycleTypeOK, NEW p \in Processes, NEW s \in Streams
  PROVE  NewRunner(p, s, "job", "init") \in Runner /\ NewRunner(p, s, "clear", "cleanup") \in Runner
<1>1. sync_rules[s].content \in Configs
  BY DEF LifecycleTypeOK, Row
<1>2. QED
  BY <1>1 DEF NewRunner, Runner, JobSteps, ClearSteps

LEMMA ReleaseLockType ==
  ASSUME LifecycleTypeOK, NEW i, ReleaseLock(i)
  PROVE  locks' \in [Streams -> [id : LockIds \cup {None}, expired : BOOLEAN]]
BY DEF LifecycleTypeOK, ReleaseLock

\* What a runner's step leaves as it is
LEMMA RunnerStepFrame ==
  ASSUME NEW i \in LockIds, PlainStep(i) \/ BeginActivate(i) \/ ClearDone(i) \/ RefreshFails(i)
  PROVE  /\ runners[i] # None
         /\ UNCHANGED <<data, locks, replicator, deploy, loadedSyncConfig, late>>
         /\ unlocked' = unlocked \/ unlocked' = unlocked \cup {runners[i].stream}
         /\ faults' = faults \/ (faults < MaxFaults /\ faults' = faults + 1)
         /\ \/ UNCHANGED slots
            \/ \E status \in {"missing", "valid"} : slots' = [slots EXCEPT ![runners[i].stream] = status]
         /\ \/ UNCHANGED sync_rules
            \/ ClearRow(i) \/ FinishSnapshot(i) \/ CommitActivate(i) \/ InsertUpdate(i) \/ Retire(i) \/ Terminate(i)
<1> USE DEF rowVars, processVars, At
<1>1. CASE InitSlot(i) \/ FindsSlotLost(i) \/ Restart(i) \/ BeginUpdate(i) \/ AbortJob(i) \/ BeginActivate(i) \/ ClearDone(i)
  BY <1>1 DEF InitSlot, FindsSlotLost, Restart, BeginUpdate, AbortJob, BeginActivate, ClearDone
<1>2. CASE ClearRow(i) \/ FinishSnapshot(i) \/ CommitActivate(i) \/ InsertUpdate(i) \/ Retire(i) \/ Terminate(i)
  <2>1. runners[i] # None /\ UNCHANGED <<data, slots, locks, replicator, deploy, loadedSyncConfig, late, unlocked, faults>>
    BY <1>2 DEF ClearRow, FinishSnapshot, CommitActivate, InsertUpdate, Retire, Terminate
  <2>2. QED
    BY <1>2, <2>1
<1>3. CASE CreateSlot(i) \/ CleanUp(i)
  BY <1>3 DEF CreateSlot, CleanUp
<1>4. CASE RunnerFails(i) \/ RefreshFails(i)
  BY <1>4 DEF RunnerFails, RefreshFails
<1>5. QED
  BY <1>1, <1>2, <1>3, <1>4 DEF PlainStep

LEMMA RunnerStepType ==
  ASSUME TypeInv, NEW i \in LockIds, PlainStep(i) \/ BeginActivate(i) \/ ClearDone(i) \/ RefreshFails(i)
  PROVE  TypeInv'
<1> USE DEF TypeInv
<1>1. runners[i] # None /\ UNCHANGED <<data, locks, replicator, deploy, loadedSyncConfig, late>>
  BY RunnerStepFrame
<1>2. runners[i].stream \in Streams
  BY <1>1, RunnerType DEF Runner
<1>3. \E step : Moved(i, step)
  BY PlainStepMoves, BeginActivateMoves, ClearDoneMoves, RefreshFailsMoves DEF PlainMove
<1>4. RunnersOK' /\ JobsLive'
  BY <1>1, <1>3, MovedType
<1>5. sync_rules' \in [Streams -> Row]
  BY RunnerStepFrame, RowStepType DEF LifecycleTypeOK
<1>6. slots' \in [Streams -> {"missing", "valid", "lost"}]
  <2>1. slots \in [Streams -> {"missing", "valid", "lost"}]
    BY DEF LifecycleTypeOK
  <2>2. QED
    BY <1>2, <2>1, RunnerStepFrame
<1>7. unlocked' \subseteq Streams
  BY <1>2, RunnerStepFrame DEF LifecycleTypeOK
<1>8. faults' \in 0..MaxFaults
  BY RunnerStepFrame, BoundsAssumption DEF LifecycleTypeOK
<1>9. QED
  BY <1>1, <1>4, <1>5, <1>6, <1>7, <1>8
  DEF LifecycleTypeOK, RunnersOK, JobsLive, Live, ConfigLoaded

LEMMA ReplicatorStepType ==
  ASSUME TypeInv, NEW p \in Processes,
         StartProcess(p) \/ Configure(p) \/ Refresh(p) \/ FinishRefresh(p) \/ (\E s \in Streams : StandBy(p, s))
  PROVE  TypeInv'
<1> USE DEF TypeInv
<1> DEFINE old == replicator[p]
<1>0. UNCHANGED <<data, slots, locks, runners, deploy, loadedSyncConfig, late, unlocked, faults>>
  BY DEF StartProcess, Configure, Refresh, FinishRefresh, StandBy, rowVars
<1>1. old \in Replicator /\ replicator \in [Processes -> Replicator]
  BY DEF LifecycleTypeOK
<1>2. sync_rules' \in [Streams -> Row]
  <2>1. CASE Configure(p)
    BY <2>1, CommitUpdateType DEF Configure, ConfigLoaded
  <2>2. CASE UNCHANGED sync_rules
    BY <2>2 DEF LifecycleTypeOK
  <2>3. QED
    BY <2>1, <2>2 DEF StartProcess, Refresh, FinishRefresh, StandBy, rowVars
<1>3. \E new \in Replicator :
        /\ replicator' = [replicator EXCEPT ![p] = new]
        /\ new.step = "configure" => loadedSyncConfig[p] \in Configs
        /\ \A s \in Streams : /\ new.jobs[s] \in {old.jobs[s], old.newJobs[s], None}
                              /\ new.newJobs[s] \in {old.jobs[s], old.newJobs[s], None}
  <2>1. CASE StartProcess(p)
    <3>1. CASE replicator' = [replicator EXCEPT ![p].step = "idle"]
      <4>1. [old EXCEPT !.step = "idle"] \in Replicator
        BY <1>1 DEF Replicator
      <4>2. QED
        BY <1>1, <3>1, <4>1 DEF Replicator
    <3>2. CASE /\ loadedSyncConfig[p] # None
               /\ replicator' = [replicator EXCEPT ![p].step = "configure", ![p].matched = InState({"PROCESSING"})]
      <4> DEFINE new == [old EXCEPT !.step = "configure", !.matched = InState({"PROCESSING"})]
      <4>1. new \in Replicator
        BY <1>1 DEF Replicator, InState
      <4>2. loadedSyncConfig[p] \in Configs
        BY <3>2 DEF LifecycleTypeOK
      <4>3. new.jobs = old.jobs /\ new.newJobs = old.newJobs
        BY <1>1 DEF Replicator
      <4>4. replicator' = [replicator EXCEPT ![p] = new]
        BY <1>1, <3>2
      <4> HIDE DEF new
      <4>5. QED
        BY <4>1, <4>2, <4>3, <4>4
    <3>3. QED
      BY <2>1, <3>1, <3>2 DEF StartProcess
  <2>2. CASE Configure(p)
    <3> DEFINE new == [old EXCEPT !.step = "idle", !.matched = {}]
    <3>1. new \in Replicator
      BY <1>1 DEF Replicator
    <3>2. new.jobs = old.jobs /\ new.newJobs = old.newJobs /\ new.step = "idle"
      BY <1>1 DEF Replicator
    <3>3. replicator' = [replicator EXCEPT ![p] = new]
      BY <1>1, <2>2 DEF Configure
    <3> HIDE DEF new
    <3>4. QED
      BY <3>1, <3>2, <3>3
  <2>3. CASE Refresh(p)
    <3> DEFINE handled == {s \in InState({"ACTIVE", "PROCESSING"}) : ShouldHandle(p, s)}
               newJobs == [s \in Streams |-> IF s \in handled /\ Running(old.jobs[s]) THEN old.jobs[s] ELSE None]
               orphans == {s \in Streams : s \notin handled /\ old.jobs[s] # None}
               start == {s \in handled : old.jobs[s] = None}
               new == [old EXCEPT !.step = "refresh", !.newJobs = newJobs, !.orphans = orphans, !.streamsToStart = start]
    <3>1. replicator' = [replicator EXCEPT ![p] = new]
      BY <1>1, <2>3 DEF Refresh
    <3>2. newJobs \in Jobs
      BY <1>1 DEF Replicator, Jobs
    <3>3. orphans \subseteq Streams /\ start \subseteq Streams
      BY DEF InState
    <3>4. \A s \in Streams : newJobs[s] \in {old.jobs[s], None}
      OBVIOUS
    <3> HIDE DEF newJobs, orphans, start
    <3>5. new \in Replicator
      BY <1>1, <3>2, <3>3 DEF Replicator
    <3>6. new.jobs = old.jobs /\ new.newJobs = newJobs /\ new.step = "refresh"
      BY <1>1 DEF Replicator
    <3> HIDE DEF new
    <3>7. QED
      BY <3>1, <3>4, <3>5, <3>6
  <2>4. CASE FinishRefresh(p)
    <3> DEFINE clearing == old.clearing \cup InState({"STOP"})
               new == [old EXCEPT !.step = "idle", !.jobs = old.newJobs, !.newJobs = NoJobs, !.clearing = clearing]
    <3>1. replicator' = [replicator EXCEPT ![p] = new]
      BY <1>1, <2>4 DEF FinishRefresh, Replicator
    <3>2. clearing \subseteq Streams
      BY <1>1 DEF InState, Replicator
    <3>3. NoJobs \in Jobs /\ \A s \in Streams : NoJobs[s] = None
      BY DEF NoJobs, Jobs
    <3> HIDE DEF clearing
    <3>4. new \in Replicator
      BY <1>1, <3>2, <3>3 DEF Replicator
    <3>5. new.jobs = old.newJobs /\ new.newJobs = NoJobs /\ new.step = "idle"
      BY <1>1 DEF Replicator
    <3> HIDE DEF new
    <3>6. QED
      BY <3>1, <3>3, <3>4, <3>5
  <2>5. ASSUME NEW s \in Streams, StandBy(p, s)
        PROVE  \E new \in Replicator :
                 /\ replicator' = [replicator EXCEPT ![p] = new]
                 /\ new.step = old.step /\ new.jobs = old.jobs /\ new.newJobs = old.newJobs
    <3> DEFINE new == [old EXCEPT !.streamsToStart = @ \ {s}]
    <3>1. replicator' = [replicator EXCEPT ![p] = new]
      BY <1>1, <2>5 DEF StandBy
    <3>2. new \in Replicator
      BY <1>1 DEF Replicator
    <3>3. new.step = old.step /\ new.jobs = old.jobs /\ new.newJobs = old.newJobs
      BY <1>1 DEF Replicator
    <3> HIDE DEF new
    <3>4. QED
      BY <3>1, <3>2, <3>3
  <2>6. QED
    BY <2>1, <2>2, <2>3, <2>4, <2>5 DEF ConfigLoaded
<1>4. PICK new \in Replicator :
        /\ replicator' = [replicator EXCEPT ![p] = new]
        /\ new.step = "configure" => loadedSyncConfig[p] \in Configs
        /\ \A s \in Streams : /\ new.jobs[s] \in {old.jobs[s], old.newJobs[s], None}
                              /\ new.newJobs[s] \in {old.jobs[s], old.newJobs[s], None}
  BY <1>3
<1>5. None \notin LockIds
  BY NoneAssumption, LockIdsAssumption
<1>6. JobsLive'
  <2>1. JobsLive
    BY LifecycleTypeParts
  <2>2. SUFFICES ASSUME NEW q \in Processes, NEW s \in Streams
                 PROVE  Live(q, s, replicator'[q].jobs[s]) /\ Live(q, s, replicator'[q].newJobs[s])
    BY <1>0 DEF JobsLive, Live
  <2>3. CASE q = p
    <3>1. replicator'[q] = new
      BY <1>1, <1>4, <2>3
    <3>2. QED
      BY <1>4, <1>5, <2>1, <2>3, <3>1 DEF JobsLive, Live
  <2>4. CASE q # p
    <3>1. replicator'[q] = replicator[q]
      BY <1>1, <1>4, <2>4
    <3>2. QED
      BY <2>1, <3>1 DEF JobsLive
  <2>5. QED
    BY <2>3, <2>4
<1>7. replicator' \in [Processes -> Replicator] /\ ConfigLoaded'
  BY <1>0, <1>1, <1>4 DEF ConfigLoaded
<1> QED
  BY <1>0, <1>2, <1>6, <1>7 DEF LifecycleTypeOK, JobsLive, Live

LEMMA StartJobType ==
  ASSUME TypeInv, NEW p \in Processes, NEW s \in Streams, StartJob(p, s)
  PROVE  TypeInv'
<1> USE DEF TypeInv
<1> DEFINE run == NewRunner(p, s, "job", "init")
           old == replicator[p]
<1>1. PICK i \in FreeIds :
        /\ \A j \in FreeIds : i <= j
        /\ i \in LockIds /\ runners[i] = None
        /\ runners' = [runners EXCEPT ![i] = run]
        /\ locks' \in [Streams -> [id : LockIds \cup {None}, expired : BOOLEAN]]
        /\ RunnersOK'
  BY StartRunnerType, NewRunnerType DEF StartJob
<1>2. i = CHOOSE k \in FreeIds : \A j \in FreeIds : k <= j
  <2>1. FreeIds \subseteq Nat
    BY LockIdsAssumption DEF FreeIds
  <2>2. \A k \in FreeIds : (\A j \in FreeIds : k <= j) => k = i
    BY <1>1, <2>1
  <2>3. QED
    BY <1>1, <2>2
<1> DEFINE new == [old EXCEPT !.streamsToStart = @ \ {s}, !.newJobs = [@ EXCEPT ![s] = i]]
<1>3. old \in Replicator /\ replicator \in [Processes -> Replicator] /\ old.newJobs \in Jobs
  BY DEF LifecycleTypeOK, Replicator
<1>4. replicator' = [replicator EXCEPT ![p] = new]
  <2> DEFINE mid == [old EXCEPT !.streamsToStart = @ \ {s}]
             first == [replicator EXCEPT ![p] = mid]
  <2>1. replicator' = [first EXCEPT ![p] = [mid EXCEPT !.newJobs = [mid.newJobs EXCEPT ![s] = i]]]
    BY <1>2, <1>3 DEF StartJob
  <2>2. [mid EXCEPT !.newJobs = [mid.newJobs EXCEPT ![s] = i]] = new
    BY <1>3 DEF Replicator
  <2> HIDE DEF mid, new
  <2>3. replicator' = [first EXCEPT ![p] = new]
    BY <2>1, <2>2
  <2>4. QED
    BY <1>3, <2>3
<1>5. [old.newJobs EXCEPT ![s] = i] \in Jobs
  BY <1>1, <1>3 DEF Jobs
<1>6. new \in Replicator
  BY <1>3, <1>5 DEF Replicator
<1>7. new.jobs = old.jobs /\ new.step = old.step /\ new.newJobs = [old.newJobs EXCEPT ![s] = i]
  BY <1>3 DEF Replicator
<1> HIDE DEF new
<1>8. run.process = p /\ run.stream = s /\ run.kind = "job" /\ run # None
  BY NewRunnerType, NoneAssumption DEF NewRunner
<1> HIDE DEF run
<1>9. JobsLive'
  <2>1. JobsLive /\ RunnersOK
    BY LifecycleTypeParts
  <2> SUFFICES ASSUME NEW q \in Processes, NEW t \in Streams, NEW job \in LockIds,
                      job = replicator'[q].jobs[t] \/ job = replicator'[q].newJobs[t]
               PROVE  Live(q, t, job)'
    BY DEF JobsLive, Live
  <2>2. CASE job = i
    <3>1. ~(job = replicator[q].jobs[t] \/ job = replicator[q].newJobs[t])
      BY <1>1, <2>1, <2>2 DEF JobsLive, Live
    <3>2. q = p /\ t = s
      BY <1>3, <1>4, <1>7, <3>1 DEF Jobs
    <3>3. QED
      BY <1>1, <1>8, <2>1, <2>2, <3>2 DEF Live, RunnersOK
  <2>3. CASE job # i
    <3>1. job = replicator[q].jobs[t] \/ job = replicator[q].newJobs[t]
      BY <1>3, <1>4, <1>7, <2>3 DEF Jobs
    <3>2. runners'[job] = runners[job]
      BY <1>1, <2>1, <2>3 DEF RunnersOK
    <3>3. QED
      BY <2>1, <3>1, <3>2 DEF JobsLive, Live
  <2>4. QED
    BY <2>2, <2>3
<1>10. late' \subseteq Streams
  BY DEF LifecycleTypeOK, StartJob
<1>11. replicator' \in [Processes -> Replicator]
  BY <1>3, <1>4, <1>6
<1>12. UNCHANGED <<sync_rules, data, slots, deploy, loadedSyncConfig, unlocked, faults>>
  BY DEF StartJob, rowVars
<1>13. ConfigLoaded'
  BY <1>3, <1>4, <1>7, <1>12 DEF ConfigLoaded
<1>14. QED
  BY <1>1, <1>9, <1>10, <1>11, <1>12, <1>13 DEF LifecycleTypeOK, RunnersOK, JobsLive, Live

LEMMA StartTerminationType ==
  ASSUME TypeInv, NEW p \in Processes, NEW s \in Streams, StartTermination(p, s)
  PROVE  TypeInv'
<1> USE DEF TypeInv
<1>1. UNCHANGED <<sync_rules, data, slots, deploy, loadedSyncConfig, late, unlocked, faults>>
  BY DEF StartTermination, rowVars
<1>2. JobsLive /\ RunnersOK
  BY LifecycleTypeParts
<1>3. CASE CanLock(s)
  <2>1. StartRunner(s, NewRunner(p, s, "clear", "cleanup")) /\ UNCHANGED replicator
    BY <1>3 DEF StartTermination
  <2>2. PICK i \in LockIds :
          /\ runners[i] = None
          /\ runners' = [runners EXCEPT ![i] = NewRunner(p, s, "clear", "cleanup")]
          /\ locks' \in [Streams -> [id : LockIds \cup {None}, expired : BOOLEAN]]
          /\ RunnersOK'
    BY <2>1, StartRunnerType, NewRunnerType
  <2>3. JobsLive'
    BY <1>2, <2>1, <2>2 DEF JobsLive, Live, RunnersOK
  <2>4. QED
    BY <1>1, <2>1, <2>2, <2>3 DEF LifecycleTypeOK, RunnersOK, JobsLive, Live, ConfigLoaded
<1>4. CASE ~CanLock(s)
  <2>1. replicator' = [replicator EXCEPT ![p].clearing = @ \ {s}] /\ UNCHANGED <<locks, runners>>
    BY <1>4 DEF StartTermination
  <2>2. replicator \in [Processes -> Replicator]
    BY DEF LifecycleTypeOK
  <2>3. replicator' \in [Processes -> Replicator]
    BY <2>1, <2>2 DEF Replicator
  <2>4. \A q \in Processes : /\ replicator'[q].jobs = replicator[q].jobs
                             /\ replicator'[q].newJobs = replicator[q].newJobs
                             /\ replicator'[q].step = replicator[q].step
    BY <2>1, <2>2 DEF Replicator
  <2>5. QED
    BY <1>1, <2>1, <2>3, <2>4 DEF LifecycleTypeOK, ConfigLoaded
<1>5. QED
  BY <1>3, <1>4

LEMMA StopOrphanType ==
  ASSUME TypeInv, NEW p \in Processes, NEW s \in Streams, StopOrphan(p, s)
  PROVE  TypeInv'
<1> USE DEF TypeInv
<1>1. UNCHANGED <<sync_rules, data, slots, locks, deploy, loadedSyncConfig, late, unlocked, faults>>
  BY DEF StopOrphan, rowVars
<1>2. CASE \E i \in LockIds : UNCHANGED replicator /\ Moved(i, runners[i].step)
  <2>1. RunnersOK' /\ JobsLive' /\ UNCHANGED replicator
    BY <1>2, MovedType
  <2>2. QED
    BY <1>1, <2>1 DEF LifecycleTypeOK, RunnersOK, JobsLive, Live, ConfigLoaded
<1>3. CASE UNCHANGED runners
  <2>1. UNCHANGED replicator \/ replicator' = [replicator EXCEPT ![p].orphans = @ \ {s}]
    BY DEF StopOrphan
  <2>2. replicator \in [Processes -> Replicator]
    BY DEF LifecycleTypeOK
  <2>3. replicator' \in [Processes -> Replicator]
    BY <2>1, <2>2 DEF Replicator
  <2>4. \A q \in Processes : /\ replicator'[q].jobs = replicator[q].jobs
                             /\ replicator'[q].newJobs = replicator[q].newJobs
                             /\ replicator'[q].step = replicator[q].step
    BY <2>1, <2>2 DEF Replicator
  <2>5. JobsLive'
    BY <1>3, <2>4, LifecycleTypeParts DEF JobsLive, Live
  <2>6. QED
    BY <1>1, <1>3, <2>3, <2>4, <2>5 DEF LifecycleTypeOK, RunnersOK, JobsLive, Live, ConfigLoaded
<1>4. QED
  BY <1>2, <1>3, AbortMoves

LEMMA ReleaseType ==
  ASSUME TypeInv, NEW i \in LockIds, Release(i)
  PROVE  TypeInv'
<1> USE DEF TypeInv
<1> DEFINE p == runners[i].process
           old == replicator[p]
           forget(jobs) == [t \in Streams |-> IF jobs[t] = i THEN Ended ELSE jobs[t]]
           clearing == old.clearing \ IF runners[i].kind = "clear" THEN {runners[i].stream} ELSE {}
           new == [old EXCEPT !.jobs = forget(old.jobs), !.newJobs = forget(old.newJobs), !.clearing = clearing]
<1>1. /\ runners[i] # None
      /\ runners' = [runners EXCEPT ![i] = None]
      /\ UNCHANGED <<sync_rules, data, slots, deploy, loadedSyncConfig, late, unlocked, faults>>
  BY DEF Release, rowVars
<1>2. p \in Processes
  BY <1>1, RunnerType DEF Runner
<1>3. old \in Replicator /\ replicator \in [Processes -> Replicator]
  BY <1>2 DEF LifecycleTypeOK
<1>4. replicator' = [replicator EXCEPT ![p] = new]
  BY <1>2, <1>3 DEF Release, Replicator
<1>5. forget(old.jobs) \in Jobs /\ forget(old.newJobs) \in Jobs
  BY <1>3 DEF Jobs, Replicator
<1>6. clearing \subseteq Streams
  BY <1>3 DEF Replicator
<1>7. \A t \in Streams : /\ (forget(old.jobs)[t] = old.jobs[t] /\ old.jobs[t] # i) \/ forget(old.jobs)[t] = Ended
                         /\ (forget(old.newJobs)[t] = old.newJobs[t] /\ old.newJobs[t] # i) \/ forget(old.newJobs)[t] = Ended
  OBVIOUS
<1> DEFINE jobs == forget(old.jobs)
           newJobs == forget(old.newJobs)
<1>8. jobs \in Jobs /\ newJobs \in Jobs
  BY <1>5
<1>9. new = [old EXCEPT !.jobs = jobs, !.newJobs = newJobs, !.clearing = clearing]
  OBVIOUS
<1>10. \A t \in Streams : /\ (jobs[t] = old.jobs[t] /\ old.jobs[t] # i) \/ jobs[t] = Ended
                          /\ (newJobs[t] = old.newJobs[t] /\ old.newJobs[t] # i) \/ newJobs[t] = Ended
  BY <1>7
<1> HIDE DEF new, jobs, newJobs, clearing, forget
<1>11. new \in Replicator /\ new.jobs = jobs /\ new.newJobs = newJobs /\ new.step = old.step
  BY <1>3, <1>6, <1>8, <1>9 DEF Replicator
<1>12. RunnersOK'
  BY <1>1 DEF LifecycleTypeOK, RunnersOK
<1>13. JobsLive'
  <2>1. JobsLive /\ RunnersOK
    BY LifecycleTypeParts
  <2>2. Ended \notin LockIds
    BY LockIdsAssumption DEF Ended
  <2> SUFFICES ASSUME NEW q \in Processes, NEW t \in Streams, NEW job \in LockIds,
                      job = replicator'[q].jobs[t] \/ job = replicator'[q].newJobs[t]
               PROVE  Live(q, t, job)'
    BY DEF JobsLive, Live
  <2>3. CASE q = p
    <3>1. replicator'[q] = new
      BY <1>2, <1>3, <1>4, <2>3
    <3>2. job = jobs[t] \/ job = newJobs[t]
      BY <1>11, <3>1
    <3>3. job # i /\ (job = old.jobs[t] \/ job = old.newJobs[t])
      BY <1>10, <2>2, <3>2
    <3>4. QED
      BY <1>1, <2>1, <2>3, <3>3 DEF JobsLive, Live, RunnersOK
  <2>4. CASE q # p
    <3>1. replicator'[q] = replicator[q]
      BY <1>2, <1>3, <1>4, <2>4
    <3>2. job # i
      BY <2>1, <2>4, <3>1 DEF JobsLive, Live
    <3>3. QED
      BY <1>1, <2>1, <3>1, <3>2 DEF JobsLive, Live, RunnersOK
  <2>5. QED
    BY <2>3, <2>4
<1>14. replicator' \in [Processes -> Replicator] /\ ConfigLoaded'
  BY <1>1, <1>2, <1>3, <1>4, <1>11 DEF ConfigLoaded
<1>15. locks' \in [Streams -> [id : LockIds \cup {None}, expired : BOOLEAN]]
  BY ReleaseLockType DEF Release
<1>16. QED
  BY <1>1, <1>12, <1>13, <1>14, <1>15 DEF LifecycleTypeOK, RunnersOK, JobsLive, Live

LEMMA CrashType ==
  ASSUME TypeInv, NEW p \in Processes, Crash(p)
  PROVE  TypeInv'
<1> USE DEF TypeInv
<1>1. /\ replicator' = [replicator EXCEPT ![p] = Down]
      /\ runners' = [i \in LockIds |-> IF runners[i] # None /\ runners[i].process = p THEN None ELSE runners[i]]
      /\ faults < MaxFaults /\ faults' = faults + 1
      /\ UNCHANGED <<sync_rules, data, slots, locks, deploy, loadedSyncConfig, late, unlocked>>
  BY DEF Crash, rowVars
<1>2. Down \in Replicator /\ \A s \in Streams : Down.jobs[s] = None /\ Down.newJobs[s] = None
  BY DEF Down, Replicator, NoJobs, Jobs
<1>3. replicator \in [Processes -> Replicator] /\ RunnersOK /\ JobsLive
  BY LifecycleTypeParts
<1>4. RunnersOK'
  BY <1>1, <1>3 DEF RunnersOK
<1>5. JobsLive'
  <2>1. None \notin LockIds
    BY NoneAssumption, LockIdsAssumption
  <2> SUFFICES ASSUME NEW q \in Processes, NEW t \in Streams, NEW job \in LockIds,
                      job = replicator'[q].jobs[t] \/ job = replicator'[q].newJobs[t]
               PROVE  Live(q, t, job)'
    BY DEF JobsLive, Live
  <2>2. q # p
    BY <1>1, <1>2, <1>3, <2>1
  <2>3. replicator'[q] = replicator[q]
    BY <1>1, <1>3, <2>2
  <2>4. Live(q, t, job)
    BY <1>3, <2>3 DEF JobsLive
  <2>5. runners'[job] = runners[job]
    BY <1>1, <2>2, <2>4 DEF Live
  <2>6. QED
    BY <2>4, <2>5 DEF Live
<1>6. replicator' \in [Processes -> Replicator] /\ ConfigLoaded'
  BY <1>1, <1>2, <1>3 DEF ConfigLoaded, Down
<1>7. faults' \in 0..MaxFaults
  BY <1>1, BoundsAssumption DEF LifecycleTypeOK
<1>8. QED
  BY <1>1, <1>4, <1>5, <1>6, <1>7, SMTT(30) DEF LifecycleTypeOK, RunnersOK, JobsLive, Live

(* What happens to one runner. *)
Started(i) ==
  /\ runners[i] = None
  /\ \E p \in Processes, s \in Streams :
       /\ CanLock(s)
       /\ locks' = [locks EXCEPT ![s] = [id |-> i, expired |-> FALSE]]
       /\ \/ StartJob(p, s) /\ runners' = [runners EXCEPT ![i] = NewRunner(p, s, "job", "init")]
          \/ StartTermination(p, s) /\ runners' = [runners EXCEPT ![i] = NewRunner(p, s, "clear", "cleanup")]

GoesOn(i) ==
  /\ runners[i] # None /\ runners'[i] \in Runner
  /\ runners'[i].process = runners[i].process
  /\ runners'[i].stream = runners[i].stream
  /\ runners'[i].kind = runners[i].kind
  /\ runners'[i].refreshing = runners[i].refreshing \/ (runners'[i].refreshing = FALSE /\ RefreshFails(i))
  /\ runners'[i].step = "activate" => runners[i].step = "activate" \/ BeginActivate(i)
  /\ runners'[i].step = "terminate" => runners[i].step = "terminate" \/ ClearDone(i)

LEMMA MovedGoesOn ==
  ASSUME LifecycleTypeOK, NEW i \in LockIds, NEW step, Moved(i, step),
         step = "activate" => runners[i].step = "activate" \/ BeginActivate(i),
         step = "terminate" => runners[i].step = "terminate" \/ ClearDone(i),
         NEW j \in LockIds, runners'[j] # None
  PROVE  GoesOn(j)
<1>1. PICK r \in Runner :
        /\ runners' = [runners EXCEPT ![i] = r]
        /\ r.process = runners[i].process /\ r.stream = runners[i].stream /\ r.kind = runners[i].kind
        /\ r.refreshing = runners[i].refreshing \/ (r.refreshing = FALSE /\ RefreshFails(i))
        /\ r.step = step
  BY DEF Moved
<1>2. runners \in [LockIds -> Runner \cup {None}] /\ runners[i] # None
  BY DEF LifecycleTypeOK, Moved
<1>3. CASE j = i
  BY <1>1, <1>2, <1>3 DEF GoesOn
<1>4. CASE j # i
  <2>1. runners'[j] = runners[j] /\ runners[j] \in Runner
    BY <1>1, <1>2, <1>4
  <2>2. QED
    BY <2>1 DEF GoesOn
<1>5. QED
  BY <1>3, <1>4

LEMMA SameGoesOn ==
  ASSUME LifecycleTypeOK, NEW j \in LockIds, runners'[j] # None, runners'[j] = runners[j]
  PROVE  GoesOn(j)
BY DEF LifecycleTypeOK, GoesOn

LEMMA StartedBy ==
  ASSUME LifecycleTypeOK, NEW p \in Processes, NEW s \in Streams, StartJob(p, s) \/ StartTermination(p, s),
         NEW j \in LockIds, runners'[j] # None
  PROVE  GoesOn(j) \/ Started(j)
<1>1. CASE UNCHANGED runners
  BY <1>1, SameGoesOn
<1>2. CASE StartJob(p, s)
  <2>1. PICK i \in LockIds :
          /\ runners[i] = None /\ CanLock(s)
          /\ locks' = [locks EXCEPT ![s] = [id |-> i, expired |-> FALSE]]
          /\ runners' = [runners EXCEPT ![i] = NewRunner(p, s, "job", "init")]
    BY <1>2, StartRunnerType, NewRunnerType DEF StartJob
  <2>2. CASE j = i
    BY <1>2, <2>1, <2>2 DEF Started
  <2>3. CASE j # i
    BY <2>1, <2>3, SameGoesOn DEF LifecycleTypeOK
  <2>4. QED
    BY <2>2, <2>3
<1>3. CASE StartTermination(p, s) /\ ~UNCHANGED runners
  <2>0. StartRunner(s, NewRunner(p, s, "clear", "cleanup"))
    BY <1>3 DEF StartTermination
  <2>1. PICK i \in LockIds :
          /\ runners[i] = None /\ CanLock(s)
          /\ locks' = [locks EXCEPT ![s] = [id |-> i, expired |-> FALSE]]
          /\ runners' = [runners EXCEPT ![i] = NewRunner(p, s, "clear", "cleanup")]
    BY <2>0, StartRunnerType, NewRunnerType
  <2>2. CASE j = i
    BY <1>3, <2>1, <2>2 DEF Started
  <2>3. CASE j # i
    BY <2>1, <2>3, SameGoesOn DEF LifecycleTypeOK
  <2>4. QED
    BY <2>2, <2>3
<1>4. QED
  BY <1>1, <1>2, <1>3

LEMMA RunnerSteps ==
  ASSUME TypeInv, [LifecycleNext]_vars, NEW j \in LockIds, runners'[j] # None
  PROVE  GoesOn(j) \/ Started(j)
<1>0. LifecycleTypeOK
  BY DEF TypeInv
<1>1. ASSUME UNCHANGED runners
      PROVE  GoesOn(j)
  BY <1>0, <1>1, SameGoesOn
<1>2. ASSUME NEW i \in LockIds, PlainStep(i) \/ BeginActivate(i) \/ ClearDone(i) \/ RefreshFails(i)
      PROVE  GoesOn(j)
  <2>1. \E step : /\ Moved(i, step)
                  /\ step = "activate" => runners[i].step = "activate" \/ BeginActivate(i)
                  /\ step = "terminate" => runners[i].step = "terminate" \/ ClearDone(i)
    BY <1>0, <1>2, PlainStepMoves, BeginActivateMoves, ClearDoneMoves, RefreshFailsMoves DEF PlainMove
  <2>2. QED
    BY <1>0, <2>1, MovedGoesOn
<1>3. ASSUME NEW p \in Processes, NEW s \in Streams, StopOrphan(p, s)
      PROVE  GoesOn(j)
  BY <1>0, <1>1, <1>3, AbortMoves, MovedGoesOn
<1>4. ASSUME NEW p \in Processes, NEW s \in Streams, StartJob(p, s) \/ StartTermination(p, s)
      PROVE  GoesOn(j) \/ Started(j)
  BY <1>0, <1>4, StartedBy
<1>5. ASSUME NEW i \in LockIds, Release(i)
      PROVE  GoesOn(j)
  <2>1. runners' = [runners EXCEPT ![i] = None]
    BY <1>5 DEF Release
  <2>2. runners'[j] = runners[j]
    BY <1>0, <2>1 DEF LifecycleTypeOK
  <2>3. QED
    BY <1>0, <2>2, SameGoesOn
<1>6. ASSUME NEW p \in Processes, Crash(p)
      PROVE  GoesOn(j)
  BY <1>0, <1>6, SameGoesOn DEF Crash
<1>7. ASSUME NEW i \in LockIds, ClearBatch(i) \/ Flush(i)
      PROVE  GoesOn(j)
  BY <1>1, <1>7 DEF ClearBatch, Flush
<1>8. ASSUME NEW p \in Processes, StartProcess(p) \/ Configure(p) \/ Refresh(p) \/ FinishRefresh(p) \/ \E s \in Streams : StandBy(p, s)
      PROVE  GoesOn(j)
  BY <1>1, <1>8 DEF StartProcess, Configure, Refresh, FinishRefresh, StandBy
<1>9. ASSUME NEW s \in Streams, LockExpires(s) \/ LoseSlot(s)
      PROVE  GoesOn(j)
  BY <1>1, <1>9 DEF LockExpires, LoseSlot
<1>10. ASSUME NEW c \in Clients, BeginDeploy(c) \/ CommitDeploy(c)
       PROVE  GoesOn(j)
  BY <1>1, <1>10 DEF BeginDeploy, CommitDeploy
<1>11. CASE UNCHANGED vars
  BY <1>1, <1>11 DEF vars
<1>12. QED
  BY <1>2, <1>3, <1>4, <1>5, <1>6, <1>7, <1>8, <1>9, <1>10, <1>11
  DEF LifecycleNext, ReplicatorNext, RunnerNext, PlainStep

LEMMA TypeNext ==
  ASSUME TypeInv, [LifecycleNext]_vars
  PROVE  TypeInv'
<1> USE DEF TypeInv
<1>1. ASSUME NEW c \in Clients, BeginDeploy(c) \/ CommitDeploy(c)
      PROVE  TypeInv'
  <2>1. UNCHANGED <<data, slots, locks, runners, replicator, loadedSyncConfig, late, unlocked, faults>>
    BY <1>1 DEF BeginDeploy, CommitDeploy, rowVars
  <2>2. deploy' \in [Clients -> (SUBSET Streams) \cup {None}]
    <3>1. deploy \in [Clients -> (SUBSET Streams) \cup {None}]
      BY DEF LifecycleTypeOK
    <3>2. \E d \in (SUBSET Streams) \cup {None} : deploy' = [deploy EXCEPT ![c] = d]
      BY <1>1 DEF BeginDeploy, CommitDeploy, InState
    <3>3. QED
      BY <3>1, <3>2
  <2>3. sync_rules' \in [Streams -> Row]
    BY <1>1, CommitUpdateType DEF BeginDeploy, CommitDeploy, LifecycleTypeOK, rowVars
  <2>4. QED
    BY <2>1, <2>2, <2>3 DEF LifecycleTypeOK, ConfigLoaded
<1>2. ASSUME NEW i \in LockIds, ClearBatch(i) \/ Flush(i)
      PROVE  TypeInv'
  <2>1. /\ runners[i] # None
        /\ UNCHANGED <<sync_rules, slots, locks, runners, replicator, deploy, loadedSyncConfig, late, unlocked, faults>>
    BY <1>2 DEF ClearBatch, Flush, processVars, At
  <2>2. runners[i].stream \in Streams
    BY <2>1, RunnerType DEF Runner
  <2>3. data' \in [Streams -> 0..MaxData]
    <3>1. data \in [Streams -> 0..MaxData]
      BY DEF LifecycleTypeOK
    <3>2. \E n \in 0..MaxData : data' = [data EXCEPT ![runners[i].stream] = n]
      BY <1>2, <2>2, <3>1, BoundsAssumption DEF ClearBatch, Flush
    <3>3. QED
      BY <3>1, <3>2
  <2>4. QED
    BY <2>1, <2>3 DEF LifecycleTypeOK, ConfigLoaded
<1>3. ASSUME NEW s \in Streams, LockExpires(s) \/ LoseSlot(s)
      PROVE  TypeInv'
  <2>1. UNCHANGED <<sync_rules, data, runners, replicator, deploy, loadedSyncConfig, late, unlocked>>
    BY <1>3 DEF LockExpires, LoseSlot, rowVars, processVars
  <2>2. locks' \in [Streams -> [id : LockIds \cup {None}, expired : BOOLEAN]]
    <3>1. locks \in [Streams -> [id : LockIds \cup {None}, expired : BOOLEAN]]
      BY DEF LifecycleTypeOK
    <3>2. UNCHANGED locks \/ locks' = [locks EXCEPT ![s] = [locks[s] EXCEPT !.expired = TRUE]]
      BY <1>3 DEF LockExpires, LoseSlot
    <3>3. QED
      BY <3>1, <3>2
  <2>3. slots' \in [Streams -> {"missing", "valid", "lost"}] /\ faults' \in 0..MaxFaults
    <3>1. slots \in [Streams -> {"missing", "valid", "lost"}] /\ faults \in 0..MaxFaults
      BY DEF LifecycleTypeOK
    <3>2. CASE LockExpires(s)
      BY <3>1, <3>2 DEF LockExpires, rowVars
    <3>3. CASE LoseSlot(s)
      BY <3>1, <3>3, BoundsAssumption DEF LoseSlot
    <3>4. QED
      BY <1>3, <3>2, <3>3
  <2>4. QED
    BY <2>1, <2>2, <2>3 DEF LifecycleTypeOK, ConfigLoaded
<1>4. CASE UNCHANGED vars
  BY <1>4 DEF vars, LifecycleTypeOK, ConfigLoaded
<1>5. QED
  BY <1>1, <1>2, <1>3, <1>4, RunnerStepType, ReplicatorStepType, StartJobType, StartTerminationType, StopOrphanType,
     ReleaseType, CrashType
  DEF LifecycleNext, ReplicatorNext, RunnerNext, PlainStep

LEMMA TypeInit == LifecycleInit => TypeInv
<1> SUFFICES ASSUME LifecycleInit
             PROVE  TypeInv
  OBVIOUS
<1>1. FirstConfig \in Configs
  BY ConfigsAssumption DEF FirstConfig
<1>2. sync_rules \in [Streams -> Row]
  BY <1>1 DEF LifecycleInit, Row, States
<1>3. replicator \in [Processes -> Replicator] /\ JobsLive
  BY NoneAssumption, LockIdsAssumption DEF LifecycleInit, Down, NoJobs, Replicator, Jobs, JobsLive, Live
<1>4. loadedSyncConfig \in [Processes -> Configs \cup {None}]
  BY LoadedAssumption DEF LifecycleInit
<1>5. data \in [Streams -> 0..MaxData] /\ faults \in 0..MaxFaults
  BY BoundsAssumption DEF LifecycleInit
<1>6. /\ locks \in [Streams -> [id : LockIds \cup {None}, expired : BOOLEAN]]
      /\ slots \in [Streams -> {"missing", "valid", "lost"}]
      /\ RunnersOK
      /\ deploy \in [Clients -> (SUBSET Streams) \cup {None}]
      /\ late = {} /\ unlocked = {}
  BY DEF LifecycleInit, RunnersOK
<1>7. ConfigLoaded
  BY DEF LifecycleInit, ConfigLoaded, Down
<1>8. QED
  BY <1>2, <1>3, <1>4, <1>5, <1>6, <1>7, LifecycleTypeParts DEF TypeInv

LEMMA TypeAlways == LifecycleSpec => []TypeInv
<1>1. LifecycleInit => TypeInv
  BY TypeInit
<1>2. TypeInv /\ [LifecycleNext]_vars => TypeInv'
  BY TypeNext
<1>3. QED
  BY <1>1, <1>2, PTL DEF LifecycleSpec

(***************************************************************************)
(* Type correctness: rows, locks, runners and the maps of every replicator *)
(* keep their types, and a job that a map names is alive or has ended.     *)
(***************************************************************************)
THEOREM LifecycleTypeCorrect == LifecycleSpec => []LifecycleTypeOK
<1>1. TypeInv => LifecycleTypeOK
  BY DEF TypeInv
<1>2. QED
  BY <1>1, TypeAlways, PTL

-----------------------------------------------------------------------------
(* Locks. A runner that refreshes its lock is the one the lock names. *)

LockInv == \A i \in LockIds : Holds(i) => locks[runners[i].stream].id = i /\ ~locks[runners[i].stream].expired

\* No step takes a lock from a runner that refreshes it.
LEMMA LocksKept ==
  ASSUME TypeInv, LockInv, [LifecycleNext]_vars, NEW j \in LockIds, Holds(j), runners'[j] # None
  PROVE  locks'[runners[j].stream] = locks[runners[j].stream]
<1> DEFINE s == runners[j].stream
<1>1. s \in Streams /\ runners[j] # None /\ locks[s].id = j /\ ~locks[s].expired
  BY RunnerType DEF TypeInv, Holds, LockInv, Runner
<1>2. locks \in [Streams -> [id : LockIds \cup {None}, expired : BOOLEAN]] /\ None \notin LockIds
  BY NoneAssumption, LockIdsAssumption DEF TypeInv, LifecycleTypeOK
<1>3. ASSUME NEW t \in Streams, NEW new \in Runner, StartRunner(t, new)
      PROVE  locks'[s] = locks[s]
  <2>1. \E i : CanLock(t) /\ locks' = [locks EXCEPT ![t] = [id |-> i, expired |-> FALSE]]
    BY <1>3 DEF StartRunner
  <2>2. t # s
    BY <1>1, <1>2, <2>1 DEF CanLock
  <2>3. QED
    BY <1>1, <1>2, <2>1, <2>2
<1>4. ASSUME NEW p \in Processes, NEW t \in Streams, StartJob(p, t) \/ StartTermination(p, t)
      PROVE  locks'[s] = locks[s]
  BY <1>3, <1>4, NewRunnerType DEF StartJob, StartTermination, TypeInv
<1>5. ASSUME NEW i \in LockIds, Release(i)
      PROVE  locks'[s] = locks[s]
  <2>1. i # j
    BY <1>5 DEF Release, TypeInv, LifecycleTypeOK
  <2>2. QED
    BY <1>1, <1>5, <2>1 DEF Release, ReleaseLock
<1>6. ASSUME NEW t \in Streams, LockExpires(t)
      PROVE  locks'[s] = locks[s]
  <2>1. t # s
    BY <1>1, <1>6 DEF LockExpires
  <2>2. QED
    BY <1>1, <1>2, <1>6, <2>1 DEF LockExpires
<1>7. CASE UNCHANGED locks
  BY <1>7
<1>8. ASSUME NEW i \in LockIds, PlainStep(i) \/ BeginActivate(i) \/ ClearDone(i) \/ RefreshFails(i)
      PROVE  UNCHANGED locks
  BY <1>8, RunnerStepFrame
<1>9. ASSUME NEW i \in LockIds, ClearBatch(i) \/ Flush(i)
      PROVE  UNCHANGED locks
  BY <1>9 DEF ClearBatch, Flush
<1>10. ASSUME NEW p \in Processes,
              StartProcess(p) \/ Configure(p) \/ Refresh(p) \/ FinishRefresh(p) \/ Crash(p)
              \/ \E t \in Streams : StandBy(p, t) \/ StopOrphan(p, t)
       PROVE  UNCHANGED locks
  BY <1>10 DEF StartProcess, Configure, Refresh, FinishRefresh, Crash, StandBy, StopOrphan
<1>11. ASSUME NEW t \in Streams, LoseSlot(t)
       PROVE  UNCHANGED locks
  BY <1>11 DEF LoseSlot
<1>12. ASSUME NEW c \in Clients, BeginDeploy(c) \/ CommitDeploy(c)
       PROVE  UNCHANGED locks
  BY <1>12 DEF BeginDeploy, CommitDeploy
<1>13. CASE UNCHANGED vars
  BY <1>13 DEF vars
<1>14. QED
  BY <1>4, <1>5, <1>6, <1>7, <1>8, <1>9, <1>10, <1>11, <1>12, <1>13
  DEF LifecycleNext, ReplicatorNext, RunnerNext, PlainStep

LEMMA LockNext ==
  ASSUME TypeInv, LockInv, [LifecycleNext]_vars
  PROVE  LockInv'
<1> SUFFICES ASSUME NEW j \in LockIds, Holds(j)'
             PROVE  (locks[runners[j].stream].id = j /\ ~locks[runners[j].stream].expired)'
  BY DEF LockInv
<1>1. runners'[j] # None
  BY DEF Holds
<1>2. CASE GoesOn(j)
  <2>1. Holds(j) /\ runners'[j].stream = runners[j].stream
    BY <1>2 DEF GoesOn, Holds
  <2>2. QED
    BY <1>1, <2>1, LocksKept DEF LockInv
<1>3. CASE Started(j)
  <2>1. PICK s \in Streams, p \in Processes :
          /\ locks' = [locks EXCEPT ![s] = [id |-> j, expired |-> FALSE]]
          /\ \/ runners' = [runners EXCEPT ![j] = NewRunner(p, s, "job", "init")]
             \/ runners' = [runners EXCEPT ![j] = NewRunner(p, s, "clear", "cleanup")]
    BY <1>3 DEF Started
  <2>2. runners'[j].stream = s
    BY <2>1 DEF TypeInv, LifecycleTypeOK, NewRunner
  <2>3. QED
    BY <2>1, <2>2 DEF TypeInv, LifecycleTypeOK
<1>4. QED
  BY <1>1, <1>2, <1>3, RunnerSteps

(***************************************************************************)
(* One runner per stream, whatever crashes, expires or is released late:   *)
(* no two jobs or terminations that both refresh their locks are on one    *)
(* stream.                                                                 *)
(***************************************************************************)
THEOREM OneRunner == LifecycleSpec => []OneRunnerPerStream
<1>1. LifecycleInit => LockInv
  BY DEF LifecycleInit, LockInv, Holds
<1>2. TypeInv /\ LockInv /\ [LifecycleNext]_vars => LockInv'
  BY LockNext
<1>3. LockInv => OneRunnerPerStream
  BY DEF LockInv, OneRunnerPerStream
<1>4. QED
  BY <1>1, <1>2, <1>3, TypeAlways, PTL DEF LifecycleSpec

-----------------------------------------------------------------------------
(***************************************************************************)
(* States. A stream that is being activated stays PROCESSING, and one that *)
(* a replicator clears is stopped: the two facts that make the unguarded   *)
(* writes of autoActivate() and terminate() safe.                          *)
(***************************************************************************)
IsActivating(i) == runners[i] # None /\ runners[i].step = "activate"

Activations ==
  \A i \in LockIds : IsActivating(i) =>
    /\ sync_rules[runners[i].stream].state = "PROCESSING"
    /\ \A j \in LockIds : IsActivating(j) /\ runners[j].stream = runners[i].stream => j = i

IsStopped(s) == sync_rules[s].state \in {"STOP", "TERMINATED"}

Clearings ==
  /\ \A p \in Processes : \A s \in replicator[p].clearing : IsStopped(s)
  /\ \A i \in LockIds : runners[i] # None /\ runners[i].kind = "clear" => IsStopped(runners[i].stream)

\* The states of s before and after a step
Goes(s, from, to) == sync_rules[s].state \in from /\ sync_rules'[s].state = to

StateStep(s) ==
  \/ sync_rules'[s].state = sync_rules[s].state
  \/ Goes(s, {"NONE"}, "PROCESSING")
  \/ Goes(s, {"PROCESSING"}, "STOP") /\ ~Activating(s)
  \/ Goes(s, {"PROCESSING"}, "ACTIVE") /\ \E i \in LockIds : CommitActivate(i) /\ runners[i].stream = s
  \/ Goes(s, Serving, "STOP") /\ \E i \in LockIds : CommitActivate(i)
  \/ Goes(s, {"ACTIVE"}, "ERRORED")
  \/ Goes(s, {"STOP", "TERMINATED"}, "TERMINATED") /\ \E i \in LockIds : Terminate(i) /\ runners[i].stream = s

LEMMA CommitUpdateStates ==
  ASSUME TypeInv, NEW matched, NEW content, CommitUpdate(matched, content), NEW s \in Streams
  PROVE  StateStep(s)
<1>1. sync_rules \in [Streams -> Row]
  BY DEF TypeInv, LifecycleTypeOK
<1> DEFINE stopped == SetState(matched \cap InState({"PROCESSING"}), "STOP")
<1>2. PICK new \in InState({"NONE"}) :
        sync_rules' = [stopped EXCEPT ![new] = [state |-> "PROCESSING", snapshot_done |-> FALSE, content |-> content]]
  BY DEF CommitUpdate
<1>3. stopped[s] = IF s \in matched \cap InState({"PROCESSING"}) THEN [sync_rules[s] EXCEPT !.state = "STOP"] ELSE sync_rules[s]
  BY DEF SetState
<1>4. stopped \in [Streams -> Row]
  BY StateType DEF States, TypeInv
<1> HIDE DEF stopped
<1>5. CASE s = new
  <2>1. sync_rules'[s].state = "PROCESSING"
    BY <1>2, <1>4, <1>5
  <2>2. QED
    BY <1>2, <1>5, <2>1 DEF StateStep, Goes, InState
<1>6. CASE s # new /\ s \in matched \cap InState({"PROCESSING"})
  <2>1. sync_rules'[s].state = "STOP"
    BY <1>1, <1>2, <1>3, <1>4, <1>6 DEF Row
  <2>2. ~Activating(s)
    BY <1>6 DEF CommitUpdate
  <2>3. QED
    BY <1>6, <2>1, <2>2 DEF StateStep, Goes, InState
<1>7. CASE s # new /\ s \notin matched \cap InState({"PROCESSING"})
  BY <1>2, <1>3, <1>4, <1>7 DEF StateStep
<1>8. QED
  BY <1>5, <1>6, <1>7

LEMMA RunnerStates ==
  ASSUME TypeInv, Activations, Clearings, NEW i \in LockIds, NEW s \in Streams,
         ClearRow(i) \/ FinishSnapshot(i) \/ CommitActivate(i) \/ Retire(i) \/ Terminate(i)
  PROVE  StateStep(s)
<1> DEFINE t == runners[i].stream
<1>0. runners[i] # None
  BY DEF ClearRow, FinishSnapshot, CommitActivate, Retire, Terminate, At
<1>1. sync_rules \in [Streams -> Row] /\ sync_rules[s] \in Row
  BY DEF TypeInv, LifecycleTypeOK
<1>2. t \in Streams /\ runners[i].retire \in {"STOP", "ERRORED"}
  BY <1>0, RunnerType DEF TypeInv, Runner
<1>3. CASE ClearRow(i) \/ FinishSnapshot(i)
  <2>1. \E done : sync_rules' = [sync_rules EXCEPT ![t] = [sync_rules[t] EXCEPT !.snapshot_done = done]]
    BY <1>3 DEF ClearRow, FinishSnapshot
  <2>2. QED
    BY <1>1, <1>2, <2>1 DEF StateStep, Row
<1>4. CASE CommitActivate(i)
  <2> DEFINE matched == runners[i].matched \cap InState(Serving)
             stopped == SetState(matched, "STOP")
  <2>1. sync_rules' = [stopped EXCEPT ![t] = [stopped[t] EXCEPT !.state = "ACTIVE"]]
    BY <1>4 DEF CommitActivate
  <2>2. stopped[s] = IF s \in matched THEN [sync_rules[s] EXCEPT !.state = "STOP"] ELSE sync_rules[s]
    BY DEF SetState
  <2>3. stopped \in [Streams -> Row]
    BY StateType DEF States, TypeInv
  <2>4. s \in matched => sync_rules[s].state \in Serving
    BY DEF InState
  <2> HIDE DEF stopped, matched
  <2>5. CASE s = t
    <3>1. sync_rules'[s].state = "ACTIVE"
      BY <2>1, <2>3, <2>5 DEF Row
    <3>2. sync_rules[s].state = "PROCESSING"
      BY <1>4, <2>5 DEF Activations, IsActivating, CommitActivate, At
    <3>3. QED
      BY <1>4, <2>5, <3>1, <3>2 DEF StateStep, Goes
  <2>6. CASE s # t /\ s \in matched
    <3>1. sync_rules'[s].state = "STOP"
      BY <1>1, <2>1, <2>2, <2>3, <2>6 DEF Row
    <3>2. QED
      BY <1>4, <2>4, <2>6, <3>1 DEF StateStep, Goes
  <2>7. CASE s # t /\ s \notin matched
    BY <2>1, <2>2, <2>3, <2>7 DEF StateStep
  <2>8. QED
    BY <2>5, <2>6, <2>7
<1>5. CASE Retire(i)
  <2> DEFINE from == IF runners[i].retire = "STOP" THEN "PROCESSING" ELSE "ACTIVE"
             retired == {t} \cap InState({from})
  <2>1. sync_rules' = SetState(retired, runners[i].retire) /\ ~Activating(t)
    BY <1>5 DEF Retire
  <2>2. sync_rules'[s] = IF s \in retired THEN [sync_rules[s] EXCEPT !.state = runners[i].retire] ELSE sync_rules[s]
    BY <2>1 DEF SetState
  <2>3. CASE s \in retired
    <3>1. s = t /\ sync_rules[s].state = from
      BY <2>3 DEF InState
    <3>2. sync_rules'[s].state = runners[i].retire
      BY <1>1, <2>2, <2>3 DEF Row
    <3>3. QED
      BY <1>2, <2>1, <3>1, <3>2 DEF StateStep, Goes
  <2>4. CASE s \notin retired
    BY <2>2, <2>4 DEF StateStep
  <2>5. QED
    BY <2>3, <2>4
<1>6. CASE Terminate(i)
  <2>1. sync_rules' = [sync_rules EXCEPT ![t] = [sync_rules[t] EXCEPT !.state = "TERMINATED", !.snapshot_done = FALSE]]
    BY <1>6 DEF Terminate
  <2>2. CASE s = t
    <3>1. sync_rules'[s].state = "TERMINATED"
      BY <1>1, <2>1, <2>2 DEF Row
    <3>2. sync_rules[s].state \in {"STOP", "TERMINATED"}
      BY <1>0, <1>6, <2>2 DEF Clearings, IsStopped, Terminate, At
    <3>3. QED
      BY <1>6, <2>2, <3>1, <3>2 DEF StateStep, Goes
  <2>3. CASE s # t
    BY <1>1, <2>1, <2>3 DEF StateStep
  <2>4. QED
    BY <2>2, <2>3
<1>7. QED
  BY <1>3, <1>4, <1>5, <1>6

(* Every step takes every stream along an edge of its lifecycle. *)
LEMMA StatesFollow ==
  ASSUME TypeInv, Activations, Clearings, [LifecycleNext]_vars, NEW s \in Streams
  PROVE  StateStep(s)
<1>1. CASE UNCHANGED sync_rules
  BY <1>1 DEF StateStep
<1>2. ASSUME NEW i \in LockIds, PlainStep(i) \/ BeginActivate(i) \/ ClearDone(i) \/ RefreshFails(i)
      PROVE  StateStep(s)
  BY <1>1, <1>2, RunnerStepFrame, RunnerStates, CommitUpdateStates DEF InsertUpdate
<1>3. ASSUME NEW c \in Clients, BeginDeploy(c) \/ CommitDeploy(c)
      PROVE  StateStep(s)
  BY <1>1, <1>3, CommitUpdateStates DEF BeginDeploy, CommitDeploy, rowVars
<1>4. ASSUME NEW p \in Processes, Configure(p)
      PROVE  StateStep(s)
  BY <1>4, CommitUpdateStates DEF Configure
<1>5. ASSUME NEW p \in Processes,
             StartProcess(p) \/ Refresh(p) \/ FinishRefresh(p) \/ Crash(p)
             \/ \E t \in Streams : StandBy(p, t) \/ StopOrphan(p, t) \/ StartJob(p, t) \/ StartTermination(p, t)
      PROVE  UNCHANGED sync_rules
  BY <1>5 DEF StartProcess, Refresh, FinishRefresh, Crash, StandBy, StopOrphan, StartJob, StartTermination, rowVars
<1>6. ASSUME NEW i \in LockIds, ClearBatch(i) \/ Flush(i) \/ Release(i)
      PROVE  UNCHANGED sync_rules
  BY <1>6 DEF ClearBatch, Flush, Release, rowVars
<1>7. ASSUME NEW t \in Streams, LockExpires(t) \/ LoseSlot(t)
      PROVE  UNCHANGED sync_rules
  BY <1>7 DEF LockExpires, LoseSlot, rowVars
<1>8. CASE UNCHANGED vars
  BY <1>1, <1>8 DEF vars
<1>9. QED
  BY <1>1, <1>2, <1>3, <1>4, <1>5, <1>6, <1>7, <1>8 DEF LifecycleNext, ReplicatorNext, RunnerNext, PlainStep

\* A started runner begins with neither of the steps that matter here.
LEMMA StartedRunner ==
  ASSUME TypeInv, NEW i \in LockIds, Started(i)
  PROVE  /\ runners'[i].refreshing /\ runners'[i].step \in {"init", "cleanup"}
         /\ \E p \in Processes, s \in Streams :
              /\ runners'[i].stream = s
              /\ \/ StartJob(p, s) /\ runners'[i].kind = "job"
                 \/ StartTermination(p, s) /\ runners'[i].kind = "clear"
<1>1. PICK p \in Processes, s \in Streams :
        \/ StartJob(p, s) /\ runners' = [runners EXCEPT ![i] = NewRunner(p, s, "job", "init")]
        \/ StartTermination(p, s) /\ runners' = [runners EXCEPT ![i] = NewRunner(p, s, "clear", "cleanup")]
  BY DEF Started
<1>2. CASE StartJob(p, s) /\ runners' = [runners EXCEPT ![i] = NewRunner(p, s, "job", "init")]
  <2>1. runners'[i] = NewRunner(p, s, "job", "init")
    BY <1>2 DEF TypeInv, LifecycleTypeOK
  <2>2. QED
    BY <1>2, <2>1 DEF NewRunner
<1>3. CASE StartTermination(p, s) /\ runners' = [runners EXCEPT ![i] = NewRunner(p, s, "clear", "cleanup")]
  <2>1. runners'[i] = NewRunner(p, s, "clear", "cleanup")
    BY <1>3 DEF TypeInv, LifecycleTypeOK
  <2>2. QED
    BY <1>3, <2>1 DEF NewRunner
<1>4. QED
  BY <1>1, <1>2, <1>3

LEMMA ActivationsNext ==
  ASSUME TypeInv, Activations, Clearings, [LifecycleNext]_vars
  PROVE  Activations'
<1>1. ASSUME NEW i \in LockIds, IsActivating(i)'
      PROVE  /\ runners[i] # None /\ runners'[i].stream = runners[i].stream
             /\ IsActivating(i) \/ BeginActivate(i)
             /\ ~CommitActivate(i)
  <2>1. GoesOn(i)
    BY <1>1, RunnerSteps, StartedRunner DEF IsActivating
  <2>2. CASE CommitActivate(i)
    <3>1. runners'[i] = [runners[i] EXCEPT !.step = "streaming", !.matched = {}] /\ runners[i] \in Runner
      BY <2>2, RunnerType DEF CommitActivate, At, TypeInv, LifecycleTypeOK
    <3>2. QED
      BY <1>1, <3>1 DEF IsActivating, Runner
  <2>3. QED
    BY <1>1, <2>1, <2>2 DEF GoesOn, IsActivating
<1> SUFFICES ASSUME NEW i \in LockIds, IsActivating(i)'
             PROVE  /\ sync_rules'[runners'[i].stream].state = "PROCESSING"
                    /\ \A j \in LockIds : IsActivating(j)' /\ runners'[j].stream = runners'[i].stream => j = i
  BY DEF Activations, IsActivating
<1> DEFINE s == runners[i].stream
<1>2. runners'[i].stream = s /\ s \in Streams /\ sync_rules[s].state = "PROCESSING"
  BY <1>1, RunnerType DEF TypeInv, Runner, Activations, BeginActivate
<1>3. ASSUME NEW j \in LockIds, BeginActivate(j)
      PROVE  /\ sync_rules' = sync_rules
             /\ \A k \in LockIds : IsActivating(k) => runners[k].stream # runners[j].stream
  BY <1>3 DEF BeginActivate, rowVars, Activating, IsActivating
<1>4. ASSUME NEW j \in LockIds, IsActivating(j)', runners'[j].stream = s
      PROVE  j = i
  <2>1. CASE IsActivating(i) /\ IsActivating(j)
    BY <1>1, <1>4, <2>1 DEF Activations
  <2>2. CASE BeginActivate(i)
    <3>1. j # i => runners'[j] = runners[j]
      BY <2>2 DEF BeginActivate, TypeInv, LifecycleTypeOK
    <3>2. j # i => IsActivating(j) /\ runners[j].stream = runners[i].stream
      BY <1>4, <3>1 DEF IsActivating
    <3>3. QED
      BY <1>3, <2>2, <3>2
  <2>3. CASE BeginActivate(j)
    <3>1. i # j => runners'[i] = runners[i]
      BY <2>3 DEF BeginActivate, TypeInv, LifecycleTypeOK
    <3>2. i # j => IsActivating(i) /\ runners[j].stream = runners[i].stream
      BY <1>1, <1>4, <3>1 DEF IsActivating
    <3>3. QED
      BY <1>3, <2>3, <3>2
  <2>4. QED
    BY <1>1, <1>4, <2>1, <2>2, <2>3
<1>5. sync_rules'[s].state = "PROCESSING"
  <2>1. CASE BeginActivate(i)
    BY <1>2, <1>3, <2>1
  <2>2. CASE IsActivating(i)
    <3>1. Activating(s)
      BY <2>2 DEF Activating, IsActivating
    <3>2. ASSUME NEW j \in LockIds, CommitActivate(j), runners[j].stream = s
          PROVE  FALSE
      BY <1>1, <2>2, <3>2 DEF Activations, IsActivating, CommitActivate, At
    <3>3. QED
      BY <1>2, <3>1, <3>2, StatesFollow DEF StateStep, Goes, Serving
  <2>3. QED
    BY <1>1, <2>1, <2>2
<1>6. QED
  BY <1>2, <1>4, <1>5

\* Only the end of a refresh adds to the streams that a replicator clears.
LEMMA ClearingFrom ==
  ASSUME TypeInv, [LifecycleNext]_vars, NEW p \in Processes
  PROVE  replicator'[p].clearing \subseteq replicator[p].clearing \cup InState({"STOP"})
<1>0. replicator \in [Processes -> Replicator] /\ replicator[p] \in Replicator
  BY DEF TypeInv, LifecycleTypeOK
<1>1. CASE UNCHANGED replicator
  BY <1>1
<1>2. ASSUME NEW q \in Processes, FinishRefresh(q)
      PROVE  replicator'[p].clearing \subseteq replicator[p].clearing \cup InState({"STOP"})
  BY <1>0, <1>2 DEF FinishRefresh, Replicator
<1>3. ASSUME NEW q \in Processes, StartProcess(q) \/ Configure(q)
      PROVE  replicator'[p].clearing = replicator[p].clearing
  BY <1>0, <1>3 DEF StartProcess, Configure, Replicator
<1>4. ASSUME NEW q \in Processes, Refresh(q)
      PROVE  replicator'[p].clearing = replicator[p].clearing
  BY <1>0, <1>4 DEF Refresh, Replicator
<1>5. ASSUME NEW q \in Processes, NEW s \in Streams, StopOrphan(q, s) \/ StandBy(q, s)
      PROVE  replicator'[p].clearing = replicator[p].clearing
  BY <1>0, <1>5 DEF StopOrphan, StandBy, Replicator
<1>6. ASSUME NEW q \in Processes, NEW s \in Streams, StartJob(q, s)
      PROVE  replicator'[p].clearing = replicator[p].clearing
  BY <1>0, <1>6 DEF StartJob, Replicator
<1>7. ASSUME NEW q \in Processes, NEW s \in Streams, StartTermination(q, s)
      PROVE  replicator'[p].clearing \subseteq replicator[p].clearing
  BY <1>0, <1>7 DEF StartTermination, Replicator
<1>8. ASSUME NEW q \in Processes, Crash(q)
      PROVE  replicator'[p].clearing \subseteq replicator[p].clearing
  BY <1>0, <1>8 DEF Crash, Down
<1>9. ASSUME NEW i \in LockIds, Release(i)
      PROVE  replicator'[p].clearing \subseteq replicator[p].clearing
  <2> DEFINE q == runners[i].process
             s == runners[i].stream
             forget(jobs) == [t \in Streams |-> IF jobs[t] = i THEN Ended ELSE jobs[t]]
             jobs == forget(replicator[q].jobs)
             newJobs == forget(replicator[q].newJobs)
             clearing == replicator[q].clearing \ IF runners[i].kind = "clear" THEN {s} ELSE {}
  <2>1. replicator' = [replicator EXCEPT ![q] = [replicator[q] EXCEPT !.jobs = jobs, !.newJobs = newJobs, !.clearing = clearing]]
    BY <1>9 DEF Release
  <2>2. clearing \subseteq replicator[q].clearing
    OBVIOUS
  <2> HIDE DEF jobs, newJobs, clearing
  <2>3. QED
    BY <1>0, <2>1, <2>2 DEF Replicator
<1>10. ASSUME NEW i \in LockIds, PlainStep(i) \/ BeginActivate(i) \/ ClearDone(i) \/ RefreshFails(i)
       PROVE  UNCHANGED replicator
  BY <1>10, RunnerStepFrame
<1>11. ASSUME NEW i \in LockIds, ClearBatch(i) \/ Flush(i)
       PROVE  UNCHANGED replicator
  BY <1>11 DEF ClearBatch, Flush, processVars
<1>12. ASSUME NEW s \in Streams, LockExpires(s) \/ LoseSlot(s)
       PROVE  UNCHANGED replicator
  BY <1>12 DEF LockExpires, LoseSlot, processVars
<1>13. ASSUME NEW c \in Clients, BeginDeploy(c) \/ CommitDeploy(c)
       PROVE  UNCHANGED replicator
  BY <1>13 DEF BeginDeploy, CommitDeploy
<1>14. CASE UNCHANGED vars
  BY <1>14 DEF vars
<1>15. QED
  BY <1>1, <1>2, <1>3, <1>4, <1>5, <1>6, <1>7, <1>8, <1>9, <1>10, <1>11, <1>12, <1>13, <1>14
  DEF LifecycleNext, ReplicatorNext, RunnerNext, PlainStep

LEMMA StoppedStays ==
  ASSUME TypeInv, Activations, Clearings, [LifecycleNext]_vars, NEW s \in Streams, IsStopped(s)
  PROVE  IsStopped(s)'
BY StatesFollow DEF StateStep, Goes, IsStopped, Serving

LEMMA ClearingsNext ==
  ASSUME TypeInv, Activations, Clearings, [LifecycleNext]_vars
  PROVE  Clearings'
<1>1. ASSUME NEW p \in Processes, NEW s \in replicator'[p].clearing
      PROVE  IsStopped(s)'
  <2>1. s \in Streams /\ (s \in replicator[p].clearing \/ s \in InState({"STOP"}))
    BY <1>1, ClearingFrom DEF InState, TypeInv, LifecycleTypeOK, Replicator
  <2>2. IsStopped(s)
    BY <2>1 DEF Clearings, InState, IsStopped
  <2>3. QED
    BY <2>1, <2>2, StoppedStays
<1>2. ASSUME NEW i \in LockIds, runners'[i] # None, runners'[i].kind = "clear"
      PROVE  IsStopped(runners[i].stream)'
  <2>1. CASE GoesOn(i)
    <3>1. runners[i].stream \in Streams /\ IsStopped(runners[i].stream) /\ runners'[i].stream = runners[i].stream
      BY <1>2, <2>1, RunnerType DEF GoesOn, Clearings, TypeInv, Runner
    <3>2. IsStopped(runners[i].stream) => sync_rules'[runners[i].stream].state \in {"STOP", "TERMINATED"}
      BY <3>1, StoppedStays DEF IsStopped
    <3>3. QED
      BY <3>1, <3>2 DEF IsStopped
  <2>2. CASE Started(i)
    <3>1. PICK p \in Processes, s \in Streams : runners'[i].stream = s /\ StartTermination(p, s)
      BY <1>2, <2>2, StartedRunner
    <3>2. IsStopped(s)
      BY <3>1 DEF StartTermination, Clearings
    <3>3. IsStopped(s)'
      BY <3>2, StoppedStays
    <3>4. QED
      BY <3>1, <3>3 DEF IsStopped
  <2>3. QED
    BY <1>2, <2>1, <2>2, RunnerSteps
<1>3. QED
  BY <1>1, <1>2 DEF Clearings

StateInv == TypeInv /\ Activations /\ Clearings

LEMMA ServingNext ==
  ASSUME StateInv, KeepsServing, [LifecycleNext]_vars
  PROVE  KeepsServing'
<1> USE DEF StateInv
<1>1. PICK s \in Streams : sync_rules[s].state \in Serving
  BY DEF KeepsServing, InState
<1>2. CASE \E i \in LockIds : CommitActivate(i)
  <2>1. PICK i \in LockIds : CommitActivate(i)
    BY <1>2
  <2> DEFINE t == runners[i].stream
             stopped == SetState(runners[i].matched \cap InState(Serving), "STOP")
  <2>2. t \in Streams
    BY <2>1, RunnerType DEF CommitActivate, At, TypeInv, Runner
  <2>3. sync_rules' = [stopped EXCEPT ![t] = [stopped[t] EXCEPT !.state = "ACTIVE"]]
    BY <2>1 DEF CommitActivate
  <2>4. stopped \in [Streams -> Row]
    BY StateType DEF States, TypeInv
  <2> HIDE DEF stopped
  <2>5. sync_rules'[t].state = "ACTIVE"
    BY <2>2, <2>3, <2>4 DEF Row
  <2>6. QED
    BY <2>2, <2>5 DEF KeepsServing, InState, Serving
<1>3. CASE ~\E i \in LockIds : CommitActivate(i)
  <2>1. sync_rules'[s].state \in Serving
    BY <1>1, <1>3, StatesFollow DEF StateStep, Goes, Serving
  <2>2. QED
    BY <2>1 DEF KeepsServing, InState
<1>4. QED
  BY <1>2, <1>3

LEMMA StateAlways == LifecycleSpec => []StateInv
<1>1. LifecycleInit => StateInv
  BY TypeInit DEF StateInv, Activations, Clearings, IsActivating, LifecycleInit, Down
<1>2. StateInv /\ [LifecycleNext]_vars => StateInv'
  BY TypeNext, ActivationsNext, ClearingsNext DEF StateInv
<1>3. QED
  BY <1>1, <1>2, PTL DEF LifecycleSpec

(***************************************************************************)
(* Some stream always serves clients: only an activation stops a serving   *)
(* stream, in the transaction that makes another one active.               *)
(***************************************************************************)
THEOREM AlwaysServing == LifecycleSpec => []KeepsServing
<1>1. LifecycleInit => KeepsServing
  BY StreamsAssumption DEF LifecycleInit, KeepsServing, InState, Serving
<1>2. StateInv /\ KeepsServing /\ [LifecycleNext]_vars => KeepsServing'
  BY ServingNext
<1>3. QED
  BY <1>1, <1>2, StateAlways, PTL DEF LifecycleSpec
-----------------------------------------------------------------------------
(* Terminated streams. What went wrong once is remembered. *)

Excused(s) == s \in late \cup unlocked

\* A runner that does not refresh its lock is known to go on without it.
Tracked == \A i \in LockIds : runners[i] # None /\ ~runners[i].refreshing => runners[i].stream \in unlocked

\* terminate() writes the state of a stream whose tables are empty.
Emptied ==
  \A i \in LockIds :
    runners[i] # None /\ runners[i].step = "terminate" => data[runners[i].stream] = 0 \/ Excused(runners[i].stream)

IsTerminated(s) == sync_rules[s].state = "TERMINATED"

NoJobOn(s) == \A i \in LockIds : runners[i] # None /\ runners[i].stream = s => runners[i].kind = "clear"

\* Nothing is left of a terminated stream, and nobody to write to it.
Finished == \A s \in Streams : IsTerminated(s) => Excused(s) \/ (data[s] = 0 /\ NoJobOn(s))

TerminationInv == StateInv /\ LockInv /\ Tracked /\ Emptied /\ Finished

LEMMA ExcusedStays ==
  ASSUME [LifecycleNext]_vars
  PROVE  late \subseteq late' /\ unlocked \subseteq unlocked'
<1>1. ASSUME NEW i \in LockIds, PlainStep(i) \/ BeginActivate(i) \/ ClearDone(i) \/ RefreshFails(i)
      PROVE  late \subseteq late' /\ unlocked \subseteq unlocked'
  BY <1>1, RunnerStepFrame
<1>2. ASSUME NEW i \in LockIds, ClearBatch(i) \/ Flush(i) \/ Release(i)
      PROVE  UNCHANGED <<late, unlocked>>
  BY <1>2 DEF ClearBatch, Flush, Release
<1>3. ASSUME NEW p \in Processes, NEW s \in Streams, StartJob(p, s)
      PROVE  late \subseteq late' /\ unlocked \subseteq unlocked'
  BY <1>3 DEF StartJob
<1>4. ASSUME NEW p \in Processes,
             StartProcess(p) \/ Configure(p) \/ Refresh(p) \/ FinishRefresh(p) \/ Crash(p)
             \/ \E s \in Streams : StandBy(p, s) \/ StopOrphan(p, s) \/ StartTermination(p, s)
      PROVE  UNCHANGED <<late, unlocked>>
  BY <1>4 DEF StartProcess, Configure, Refresh, FinishRefresh, Crash, StandBy, StopOrphan, StartTermination
<1>5. ASSUME NEW s \in Streams, LockExpires(s) \/ LoseSlot(s)
      PROVE  UNCHANGED <<late, unlocked>>
  BY <1>5 DEF LockExpires, LoseSlot
<1>6. ASSUME NEW c \in Clients, BeginDeploy(c) \/ CommitDeploy(c)
      PROVE  UNCHANGED <<late, unlocked>>
  BY <1>6 DEF BeginDeploy, CommitDeploy
<1>7. CASE UNCHANGED vars
  BY <1>7 DEF vars
<1>8. QED
  BY <1>1, <1>2, <1>3, <1>4, <1>5, <1>6, <1>7 DEF LifecycleNext, ReplicatorNext, RunnerNext, PlainStep

\* Only a job adds rows to its stream, and only clearing takes some away.
LEMMA DataSteps ==
  ASSUME TypeInv, [LifecycleNext]_vars, NEW s \in Streams, data'[s] # data[s]
  PROVE  \E i \in LockIds : /\ runners[i] # None /\ runners[i].stream = s /\ UNCHANGED <<sync_rules, runners>>
                            /\ \/ runners[i].kind = "job" /\ runners[i].step \in {"snapshot", "streaming"}
                               \/ data[s] > 0
<1>1. ASSUME NEW i \in LockIds, ClearBatch(i) \/ Flush(i)
      PROVE  /\ runners[i] # None /\ runners[i].stream = s /\ UNCHANGED <<sync_rules, runners>>
             /\ \/ runners[i].kind = "job" /\ runners[i].step \in {"snapshot", "streaming"}
                \/ data[s] > 0
  <2>1. runners[i] # None /\ UNCHANGED <<sync_rules, runners>>
    BY <1>1 DEF ClearBatch, Flush, At
  <2>2. \E n : data' = [data EXCEPT ![runners[i].stream] = n]
    BY <1>1 DEF ClearBatch, Flush
  <2>3. runners[i].stream = s
    BY <2>2 DEF TypeInv, LifecycleTypeOK
  <2>4. QED
    BY <1>1, <2>1, <2>3 DEF ClearBatch, Flush, At
<1>2. CASE UNCHANGED data
  BY <1>2
<1>3. ASSUME NEW i \in LockIds, PlainStep(i) \/ BeginActivate(i) \/ ClearDone(i) \/ RefreshFails(i) \/ Release(i)
      PROVE  UNCHANGED data
  BY <1>3, RunnerStepFrame DEF Release, rowVars
<1>4. ASSUME NEW p \in Processes,
             StartProcess(p) \/ Configure(p) \/ Refresh(p) \/ FinishRefresh(p) \/ Crash(p)
             \/ \E t \in Streams : StandBy(p, t) \/ StopOrphan(p, t) \/ StartTermination(p, t) \/ StartJob(p, t)
      PROVE  UNCHANGED data
  BY <1>4
  DEF StartProcess, Configure, Refresh, FinishRefresh, Crash, StandBy, StopOrphan, StartTermination, StartJob, rowVars
<1>5. ASSUME NEW t \in Streams, LockExpires(t) \/ LoseSlot(t)
      PROVE  UNCHANGED data
  BY <1>5 DEF LockExpires, LoseSlot, rowVars
<1>6. ASSUME NEW c \in Clients, BeginDeploy(c) \/ CommitDeploy(c)
      PROVE  UNCHANGED data
  BY <1>6 DEF BeginDeploy, CommitDeploy, rowVars
<1>7. CASE UNCHANGED vars
  BY <1>2, <1>7 DEF vars
<1>8. QED
  BY <1>1, <1>2, <1>3, <1>4, <1>5, <1>6, <1>7 DEF LifecycleNext, ReplicatorNext, RunnerNext, PlainStep

\* On a stream without excuse, there is one runner at most.
LEMMA OnlyRunner ==
  ASSUME TypeInv, LockInv, Tracked, NEW i \in LockIds, NEW j \in LockIds, runners[i] # None, runners[j] # None,
         runners[i].stream = runners[j].stream, ~Excused(runners[i].stream)
  PROVE  i = j
<1>1. Holds(i) /\ Holds(j)
  BY RunnerType DEF Tracked, Excused, Holds, TypeInv, Runner
<1>2. QED
  BY <1>1 DEF LockInv

LEMMA TrackedNext ==
  ASSUME TypeInv, Tracked, [LifecycleNext]_vars
  PROVE  Tracked'
<1> SUFFICES ASSUME NEW i \in LockIds, runners'[i] # None, ~runners'[i].refreshing
             PROVE  runners'[i].stream \in unlocked'
  BY DEF Tracked
<1>1. GoesOn(i)
  BY RunnerSteps, StartedRunner
<1>2. CASE RefreshFails(i)
  BY <1>1, <1>2 DEF GoesOn, RefreshFails
<1>3. CASE ~runners[i].refreshing
  BY <1>1, <1>3, ExcusedStays DEF GoesOn, Tracked
<1>4. QED
  BY <1>1, <1>2, <1>3 DEF GoesOn

LEMMA EmptiedNext ==
  ASSUME TypeInv, LockInv, Tracked, Emptied, [LifecycleNext]_vars
  PROVE  Emptied'
<1> SUFFICES ASSUME NEW i \in LockIds, runners'[i] # None, runners'[i].step = "terminate",
                    runners'[i].stream \notin late' \cup unlocked'
             PROVE  data'[runners'[i].stream] = 0
  BY DEF Emptied, Excused
<1> DEFINE s == runners[i].stream
<1>1. GoesOn(i)
  BY RunnerSteps, StartedRunner
<1>2. runners'[i].stream = s /\ s \in Streams /\ runners[i] # None /\ ~Excused(s)
  BY <1>1, ExcusedStays, RunnerType DEF GoesOn, Excused, TypeInv, Runner
<1>3. CASE ClearDone(i)
  BY <1>2, <1>3 DEF ClearDone, rowVars
<1>4. CASE runners[i].step = "terminate"
  <2>1. data[s] = 0
    BY <1>2, <1>4 DEF Emptied
  <2>2. ASSUME data'[s] # data[s]
        PROVE  FALSE
    <3>1. PICK j \in LockIds : runners[j] # None /\ runners[j].stream = s /\ runners[j].step \in {"snapshot", "streaming"}
      BY <1>2, <2>1, <2>2, DataSteps
    <3>2. QED
      BY <1>2, <1>4, <3>1, OnlyRunner
  <2>3. QED
    BY <1>2, <2>1, <2>2
<1>5. QED
  BY <1>1, <1>3, <1>4 DEF GoesOn

LEMMA FinishedNext ==
  ASSUME TerminationInv, [LifecycleNext]_vars
  PROVE  Finished'
<1> USE DEF TerminationInv, StateInv
<1> SUFFICES ASSUME NEW s \in Streams, IsTerminated(s)', ~Excused(s)'
             PROVE  data'[s] = 0 /\ NoJobOn(s)'
  BY DEF Finished
<1>1. ~Excused(s)
  BY ExcusedStays DEF Excused
<1>2. data[s] = 0 /\ NoJobOn(s) /\ (IsTerminated(s) \/ \E i \in LockIds : Terminate(i))
  <2>1. CASE IsTerminated(s)
    BY <1>1, <2>1 DEF Finished
  <2>2. CASE ~IsTerminated(s)
    <3>1. PICK i \in LockIds : Terminate(i) /\ runners[i].stream = s
      BY <2>2, StatesFollow DEF StateStep, Goes, IsTerminated
    <3>2. runners[i] # None /\ runners[i].step = "terminate" /\ runners[i].kind = "clear"
      BY <3>1 DEF Terminate, At
    <3>3. data[s] = 0
      BY <1>1, <3>1, <3>2 DEF Emptied
    <3>4. NoJobOn(s)
      BY <1>1, <3>1, <3>2, OnlyRunner DEF NoJobOn
    <3>5. QED
      BY <3>1, <3>3, <3>4
  <2>3. QED
    BY <2>1, <2>2
<1>3. data'[s] = 0
  BY <1>2, DataSteps DEF NoJobOn
<1>4. ASSUME NEW i \in LockIds, runners'[i] # None, runners'[i].stream = s
      PROVE  runners'[i].kind = "clear"
  <2>1. CASE GoesOn(i)
    BY <1>2, <1>4, <2>1 DEF GoesOn, NoJobOn
  <2>2. CASE Started(i)
    <3>1. ASSUME NEW p \in Processes, StartJob(p, s)
          PROVE  FALSE
      <4>1. sync_rules' = sync_rules
        BY <3>1 DEF StartJob, rowVars
      <4>2. sync_rules[s].state = "TERMINATED"
        BY <4>1 DEF IsTerminated
      <4>3. s \in late'
        BY <3>1, <4>2 DEF StartJob
      <4>4. QED
        BY <4>3 DEF Excused
    <3>2. QED
      BY <1>4, <2>2, <3>1, StartedRunner
  <2>3. QED
    BY <1>4, <2>1, <2>2, RunnerSteps
<1>5. QED
  BY <1>3, <1>4 DEF NoJobOn

(***************************************************************************)
(* A terminated stream holds no rows, unless a job was started on it from  *)
(* an old listing or a runner on it went on without its lock.              *)
(***************************************************************************)
THEOREM TerminatedEmpty == LifecycleSpec => []TerminatedStaysEmpty
<1>1. LifecycleInit => LockInv /\ Tracked /\ Emptied /\ Finished
  BY DEF LifecycleInit, LockInv, Holds, Tracked, Emptied, Finished, IsTerminated
<1>2. TerminationInv /\ [LifecycleNext]_vars => LockInv' /\ Tracked' /\ Emptied' /\ Finished'
  BY LockNext, TrackedNext, EmptiedNext, FinishedNext DEF TerminationInv, StateInv
<1>3. TerminationInv => TerminatedStaysEmpty
  BY DEF TerminationInv, Finished, IsTerminated, Excused, TerminatedStaysEmpty
<1>4. QED
  BY <1>1, <1>2, <1>3, StateAlways, PTL DEF LifecycleSpec, TerminationInv
===============================================================================
