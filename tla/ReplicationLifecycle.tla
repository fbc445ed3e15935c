------------------------ MODULE ReplicationLifecycle ------------------------
(***************************************************************************)
(* The life of replication streams on Postgres storage: the states in      *)
(* sync_rules, the replication locks, and the replicators and jobs of      *)
(* several processes, with the source reduced to one replication slot per  *)
(* stream.                                                                 *)
(*   packages/service-core/src/replication/AbstractReplicator.ts           *)
(*   modules/module-postgres-storage/.../PostgresBucketStorageFactory.ts   *)
(*   libs/lib-postgres/src/locks/PostgresLockManager.ts                    *)
(*                                                                         *)
(* Transactions are READ COMMITTED. An UPDATE finds its rows at one moment *)
(* and writes those that still match at a later one, so each multi-row     *)
(* update is a "match" step and a "commit" step.                           *)
(***************************************************************************)
EXTENDS Integers, FiniteSets

CONSTANTS
  Streams,     \* replication streams in id order, an interval from 1
  Processes,   \* processes with a replicator
  Clients,     \* concurrent callers of the deploy endpoint
  LockIds,     \* lock handles, naturals
  None,        \* no value
  Configs,     \* sync configs, naturals
  LoadedConfigs, \* what loadedSyncConfig may be: a set of [Processes -> Configs \cup {None}]
  FaultKinds,  \* what may go wrong, of "crash", "refresh", "slot" and "fail"
  MaxFaults,   \* bound on faults
  MaxData      \* bound on the batches of rows of a stream

ASSUME StreamsAssumption == Streams \subseteq Nat \ {0} /\ 1 \in Streams
ASSUME LockIdsAssumption == LockIds \subseteq Nat
ASSUME ConfigsAssumption == Configs \subseteq Nat /\ Configs # {}
ASSUME LoadedAssumption == LoadedConfigs \subseteq [Processes -> Configs \cup {None}]
ASSUME BoundsAssumption == MaxFaults \in Nat /\ MaxData \in Nat \ {0}

VARIABLES
  sync_rules,   \* [Streams -> the row, with state "NONE" before its INSERT]
  data,         \* [Streams -> batches of rows in bucket_data and the other tables]
  slots,        \* [Streams -> the source's replication slot]
  locks,        \* [Streams -> the row in locks]
  runners,      \* [LockIds -> the job or termination that acquired this lock handle, or None]
  replicator,   \* [Processes -> AbstractReplicator]
  deploy,       \* [Clients -> rows matched by an updateSyncRules() transaction, or None]
  loadedSyncConfig, \* [Processes -> the config from the file, or None with the API]
  late,         \* auxiliary: streams on which a job started after they were stopped
  unlocked,     \* auxiliary: streams on which a runner went on without its lock
  faults        \* faults so far

vars == <<sync_rules, data, slots, locks, runners, replicator, deploy, loadedSyncConfig, late, unlocked, faults>>
rowVars == <<sync_rules, data, slots>>
processVars == <<replicator, deploy, loadedSyncConfig>>

States == {"NONE", "PROCESSING", "ACTIVE", "ERRORED", "STOP", "TERMINATED"}
Serving == {"ACTIVE", "ERRORED"}
JobSteps == {"init", "reset", "resetting", "snapshot", "streaming", "activate", "restart", "update", "insert", "retire"}
ClearSteps == {"cleanup", "clear", "clearing", "terminate"}

Row == [state : States, snapshot_done : BOOLEAN, content : Configs]
Runner ==
  [process : Processes, stream : Streams, kind : {"job", "clear"}, step : JobSteps \cup ClearSteps \cup {"release"},
   refreshing : BOOLEAN,         \* the interval that refreshes the lock is alive
   aborted : BOOLEAN,
   matched : SUBSET Streams,     \* rows its open transaction will write
   content : Configs,            \* config restartReplication() deploys again
   retire : {"STOP", "ERRORED"}] \* state restartReplication() gives the stream
ASSUME NoneAssumption == None \notin Nat /\ None \notin Runner

\* The value of a replicationJobs entry: a lock handle stands for the job that
\* was given it, Ended for a job that has finished.
Ended == -1
Jobs == [Streams -> LockIds \cup {None, Ended}]
Replicator ==
  [step : {"down", "configure", "idle", "refresh"}, matched : SUBSET Streams,
   jobs : Jobs, newJobs : Jobs, orphans : SUBSET Streams, streamsToStart : SUBSET Streams,
   clearing : SUBSET Streams]

LifecycleTypeOK ==
  /\ sync_rules \in [Streams -> Row]
  /\ data \in [Streams -> 0..MaxData]
  /\ slots \in [Streams -> {"missing", "valid", "lost"}]
  /\ locks \in [Streams -> [id : LockIds \cup {None}, expired : BOOLEAN]]
  /\ runners \in [LockIds -> Runner \cup {None}]
  /\ replicator \in [Processes -> Replicator]
  /\ deploy \in [Clients -> (SUBSET Streams) \cup {None}]
  /\ loadedSyncConfig \in [Processes -> Configs \cup {None}]
  \* A job in the map is the live job of its stream, or has ended.
  /\ \A p \in Processes, s \in Streams : \A job \in {replicator[p].jobs[s], replicator[p].newJobs[s]} \cap LockIds :
       runners[job] # None /\ runners[job].process = p /\ runners[job].stream = s /\ runners[job].kind = "job"
  /\ late \subseteq Streams
  /\ unlocked \subseteq Streams
  /\ faults \in 0..MaxFaults

NoJobs == [s \in Streams |-> None]
Down ==
  [step |-> "down", matched |-> {}, jobs |-> NoJobs, newJobs |-> NoJobs, orphans |-> {},
   streamsToStart |-> {}, clearing |-> {}]
FirstConfig == CHOOSE c \in Configs : TRUE

\* One stream serves clients; no process is running.
LifecycleInit ==
  /\ sync_rules = [s \in Streams |-> [state |-> IF s = 1 THEN "ACTIVE" ELSE "NONE",
                                      snapshot_done |-> s = 1, content |-> FirstConfig]]
  /\ data = [s \in Streams |-> IF s = 1 THEN MaxData ELSE 0]
  /\ slots = [s \in Streams |-> IF s = 1 THEN "valid" ELSE "missing"]
  /\ locks = [s \in Streams |-> [id |-> None, expired |-> FALSE]]
  /\ runners = [i \in LockIds |-> None]
  /\ replicator = [p \in Processes |-> Down]
  /\ deploy = [c \in Clients |-> None]
  /\ loadedSyncConfig \in LoadedConfigs
  /\ late = {} /\ unlocked = {}
  /\ faults = 0

InState(S) == {s \in Streams : sync_rules[s].state \in S}
Newest(S) == CHOOSE s \in S : \A t \in S : t <= s

\* getDeployingSyncConfig(), getActiveSyncConfig(): the row, or None
DeployingStream == LET S == InState({"PROCESSING"}) IN IF S = {} THEN None ELSE Newest(S)
ActiveStream == LET S == InState(Serving) IN IF S = {} THEN None ELSE Newest(S)

SetState(S, state) == [s \in Streams |-> IF s \in S THEN [sync_rules[s] EXCEPT !.state = state] ELSE sync_rules[s]]

\* autoActivate() holds the row lock of its stream between its two steps:
\* another UPDATE of that row waits.
Activating(s) == \E i \in LockIds : runners[i] # None /\ runners[i].step = "activate" /\ runners[i].stream = s

(***************************************************************************)
(* updateSyncRules(): the UPDATE matches every PROCESSING row it sees; the *)
(* commit stops those that still are, and inserts the new row.             *)
(***************************************************************************)
CommitUpdate(matched, content) ==
  \E new \in InState({"NONE"}) :
    /\ \A s \in InState({"NONE"}) : new <= s
    /\ \A s \in matched : ~Activating(s)
    /\ sync_rules' = [SetState(matched \cap InState({"PROCESSING"}), "STOP")
                        EXCEPT ![new] = [state |-> "PROCESSING", snapshot_done |-> FALSE, content |-> content]]

BeginDeploy(c) ==
  /\ deploy[c] = None
  /\ \A p \in Processes : loadedSyncConfig[p] = None
  /\ InState({"NONE"}) # {}
  /\ deploy' = [deploy EXCEPT ![c] = InState({"PROCESSING"})]
  /\ UNCHANGED <<rowVars, locks, runners, replicator, loadedSyncConfig, late, unlocked, faults>>

CommitDeploy(c) ==
  /\ deploy[c] # None
  /\ \E content \in Configs : CommitUpdate(deploy[c], content)
  /\ deploy' = [deploy EXCEPT ![c] = None]
  /\ UNCHANGED <<data, slots, locks, runners, replicator, loadedSyncConfig, late, unlocked, faults>>

-----------------------------------------------------------------------------
(* PostgresLockManager *)

FreeIds == {i \in LockIds : runners[i] = None /\ \A s \in Streams : locks[s].id # i}
\* (mutant: an expired lock is not taken over)
CanLock_IfReleased(s) == locks[s].id = None

CanLock(s) == locks[s].id = None \/ locks[s].expired

\* acquire() on stream s and the runner that is given the handle
StartRunner(s, new) ==
  \E i \in FreeIds :
    /\ \A j \in FreeIds : i <= j
    /\ CanLock(s)
    /\ locks' = [locks EXCEPT ![s] = [id |-> i, expired |-> FALSE]]
    /\ runners' = [runners EXCEPT ![i] = new]

\* (mutant: deletes by name)
ReleaseLock_ByName(i) == locks' = [locks EXCEPT ![runners[i].stream] = [id |-> None, expired |-> FALSE]]

\* releaseHandle(): DELETE ... WHERE lock_id = the handle's own
ReleaseLock(i) ==
  locks' = [s \in Streams |-> IF locks[s].id = i THEN [id |-> None, expired |-> FALSE] ELSE locks[s]]

Holds(i) == runners[i] # None /\ runners[i].refreshing

\* Sixty seconds without a refresh: the holder is gone, or its refresh failed
\* once, which ends the interval.
LockExpires(s) ==
  /\ locks[s].id # None
  /\ ~locks[s].expired
  /\ ~Holds(locks[s].id)
  /\ locks' = [locks EXCEPT ![s].expired = TRUE]
  /\ UNCHANGED <<rowVars, runners, processVars, late, unlocked, faults>>

RefreshFails(i) ==
  /\ "refresh" \in FaultKinds /\ faults < MaxFaults
  /\ runners[i] # None
  /\ runners[i].refreshing
  /\ runners' = [runners EXCEPT ![i].refreshing = FALSE]
  /\ unlocked' = unlocked \cup {runners[i].stream}
  /\ faults' = faults + 1
  /\ UNCHANGED <<rowVars, locks, processVars, late>>

-----------------------------------------------------------------------------
(* AbstractReplicator *)

NewRunner(p, s, kind, step) ==
  [process |-> p, stream |-> s, kind |-> kind, step |-> step, refreshing |-> TRUE, aborted |-> FALSE,
   matched |-> {}, content |-> sync_rules[s].content, retire |-> "STOP"]

\* start() and the first part of runLoop(): configureSyncRules() unless the
\* config is that of the deploying stream, or of the active one.
Configured(content) ==
  LET s == IF DeployingStream # None THEN DeployingStream ELSE ActiveStream
  IN s # None /\ sync_rules[s].content = content

StartProcess(p) ==
  /\ replicator[p].step = "down"
  /\ IF loadedSyncConfig[p] = None \/ Configured(loadedSyncConfig[p])
       THEN replicator' = [replicator EXCEPT ![p].step = "idle"]
       ELSE replicator' = [replicator EXCEPT ![p].step = "configure", ![p].matched = InState({"PROCESSING"})]
  /\ UNCHANGED <<rowVars, locks, runners, deploy, loadedSyncConfig, late, unlocked, faults>>

Configure(p) ==
  /\ replicator[p].step = "configure"
  /\ CommitUpdate(replicator[p].matched, loadedSyncConfig[p])
  /\ replicator' = [replicator EXCEPT ![p].step = "idle", ![p].matched = {}]
  /\ UNCHANGED <<data, slots, locks, runners, deploy, loadedSyncConfig, late, unlocked, faults>>

ShouldHandle(p, s) ==
  loadedSyncConfig[p] = None \/ sync_rules[s].state # "PROCESSING" \/ sync_rules[s].content = loadedSyncConfig[p]

Running(job) == job \in LockIds /\ ~runners[job].aborted

\* refresh(), up to the decision what to stop and what to start
Refresh(p) ==
  LET handled == {s \in InState({"ACTIVE", "PROCESSING"}) : ShouldHandle(p, s)}
      jobs == replicator[p].jobs
  IN /\ replicator[p].step = "idle"
     /\ replicator' = [replicator EXCEPT ![p] =
          [@ EXCEPT !.step = "refresh",
                    !.newJobs = [s \in Streams |-> IF s \in handled /\ Running(jobs[s]) THEN jobs[s] ELSE None],
                    !.orphans = {s \in Streams : s \notin handled /\ jobs[s] # None},
                    !.streamsToStart = {s \in handled : jobs[s] = None}]]
     /\ UNCHANGED <<rowVars, locks, runners, deploy, loadedSyncConfig, late, unlocked, faults>>

\* await job.stop(): abort, then wait until the lock has been released.
StopOrphan(p, s) ==
  LET job == replicator[p].jobs[s]
  IN /\ s \in replicator[p].orphans
     /\ IF job = Ended
          THEN /\ replicator' = [replicator EXCEPT ![p].orphans = @ \ {s}]
               /\ UNCHANGED runners
          ELSE /\ ~runners[job].aborted
               /\ runners' = [runners EXCEPT ![job].aborted = TRUE]
               /\ UNCHANGED replicator
     /\ UNCHANGED <<rowVars, locks, deploy, loadedSyncConfig, late, unlocked, faults>>

\* The listing that named s may be old by now: its state is not read again.
StartJob(p, s) ==
  /\ replicator[p].orphans = {}
  /\ s \in replicator[p].streamsToStart
  /\ StartRunner(s, NewRunner(p, s, "job", "init"))
  /\ replicator' = [replicator EXCEPT ![p].streamsToStart = @ \ {s},
                                      ![p].newJobs[s] = CHOOSE i \in FreeIds : \A j \in FreeIds : i <= j]
  /\ late' = IF sync_rules[s].state \in {"ACTIVE", "PROCESSING"} THEN late ELSE late \cup {s}
  /\ UNCHANGED <<rowVars, deploy, loadedSyncConfig, unlocked, faults>>

\* PSYNC_S1003, locked by another process: tried again by the next refresh.
StandBy(p, s) ==
  /\ replicator[p].orphans = {}
  /\ s \in replicator[p].streamsToStart
  /\ ~CanLock(s)
  /\ replicator' = [replicator EXCEPT ![p].streamsToStart = @ \ {s}]
  /\ UNCHANGED <<rowVars, locks, runners, deploy, loadedSyncConfig, late, unlocked, faults>>

\* The end of refresh(): terminations run on their own, one per stream.
FinishRefresh(p) ==
  /\ replicator[p].step = "refresh"
  /\ replicator[p].orphans = {} /\ replicator[p].streamsToStart = {}
  /\ replicator' = [replicator EXCEPT ![p] =
       [@ EXCEPT !.step = "idle", !.jobs = replicator[p].newJobs, !.newJobs = NoJobs,
                 !.clearing = replicator[p].clearing \cup InState({"STOP"})]]
  /\ UNCHANGED <<rowVars, locks, runners, deploy, loadedSyncConfig, late, unlocked, faults>>

Clearer(p, s) == {i \in LockIds : runners[i] # None /\ runners[i].kind = "clear"
                                    /\ runners[i].process = p /\ runners[i].stream = s}

\* (mutant: stops without the lock, as long as this process has no job of s)
StartTermination_Unlocked(p, s) ==
  /\ s \in replicator[p].clearing
  /\ Clearer(p, s) = {} /\ replicator[p].jobs[s] = None
  /\ \E i \in FreeIds :
       /\ \A j \in FreeIds : i <= j
       /\ runners' = [runners EXCEPT ![i] = NewRunner(p, s, "clear", "cleanup")]
  /\ UNCHANGED <<rowVars, locks, processVars, late, unlocked, faults>>

\* terminateStoppedReplicationStream(): take the lock, or leave it to a later
\* refresh.
StartTermination(p, s) ==
  /\ s \in replicator[p].clearing
  /\ Clearer(p, s) = {}
  /\ IF CanLock(s)
       THEN StartRunner(s, NewRunner(p, s, "clear", "cleanup")) /\ UNCHANGED replicator
       ELSE /\ replicator' = [replicator EXCEPT ![p].clearing = @ \ {s}]
            /\ UNCHANGED <<locks, runners>>
  /\ UNCHANGED <<rowVars, deploy, loadedSyncConfig, late, unlocked, faults>>

-----------------------------------------------------------------------------
(* The job (WalStreamReplicationJob, WalStream) and the termination *)

At(i, kind, step) == runners[i] # None /\ runners[i].kind = kind /\ runners[i].step = step
Go(i, step) == runners' = [runners EXCEPT ![i].step = step, ![i].aborted = @ \/ step = "release"]

\* MissingReplicationSlotError: restartReplication(), unless the slot was lost
\* in the snapshot phase for another reason than removed rows.
SlotError(i, phase) ==
  \/ Go(i, "restart")
  \/ slots[runners[i].stream] = "lost" /\ phase = "snapshot" /\ Go(i, "release")

InitSlot(i) ==
  /\ At(i, "job", "init")
  /\ LET s == runners[i].stream
         done == sync_rules[s].snapshot_done
     IN \/ slots[s] = "valid" /\ Go(i, IF done THEN "streaming" ELSE "snapshot")
        \/ slots[s] = "missing" /\ ~done /\ Go(i, "reset")
        \/ slots[s] = "missing" /\ done /\ SlotError(i, "streaming")
        \/ slots[s] = "lost" /\ SlotError(i, IF done THEN "streaming" ELSE "snapshot")
  /\ UNCHANGED <<rowVars, locks, processVars, late, unlocked, faults>>

\* clear(): the row first, then the tables in batches of their own.
ClearRow(i) ==
  /\ At(i, "job", "reset") \/ At(i, "clear", "clear")
  /\ ~Activating(runners[i].stream)
  /\ sync_rules' = [sync_rules EXCEPT ![runners[i].stream].snapshot_done = FALSE]
  /\ Go(i, IF runners[i].kind = "job" THEN "resetting" ELSE "clearing")
  /\ UNCHANGED <<data, slots, locks, processVars, late, unlocked, faults>>

ClearBatch(i) ==
  /\ At(i, "job", "resetting") \/ At(i, "clear", "clearing")
  /\ data[runners[i].stream] > 0
  /\ data' = [data EXCEPT ![runners[i].stream] = @ - 1]
  /\ UNCHANGED <<sync_rules, slots, locks, runners, processVars, late, unlocked, faults>>

\* startInitialReplication(), after clear(): drop the slot and create it
CreateSlot(i) ==
  /\ At(i, "job", "resetting")
  /\ data[runners[i].stream] = 0
  /\ slots' = [slots EXCEPT ![runners[i].stream] = "valid"]
  /\ Go(i, "snapshot")
  /\ UNCHANGED <<sync_rules, data, locks, processVars, late, unlocked, faults>>

\* flush(): the snapshot, or changes
Flush(i) ==
  /\ At(i, "job", "snapshot") \/ At(i, "job", "streaming")
  /\ data[runners[i].stream] < MaxData
  /\ data' = [data EXCEPT ![runners[i].stream] = @ + 1]
  /\ UNCHANGED <<sync_rules, slots, locks, runners, processVars, late, unlocked, faults>>

\* From the last snapshot chunk to the first commit that is not blocked
FinishSnapshot(i) ==
  /\ At(i, "job", "snapshot")
  /\ slots[runners[i].stream] = "valid"
  /\ data[runners[i].stream] = MaxData
  /\ ~Activating(runners[i].stream)
  /\ sync_rules' = [sync_rules EXCEPT ![runners[i].stream].snapshot_done = TRUE]
  /\ Go(i, "streaming")
  /\ UNCHANGED <<data, slots, locks, processVars, late, unlocked, faults>>

FindsSlotLost(i) ==
  /\ At(i, "job", "snapshot") \/ At(i, "job", "streaming")
  /\ slots[runners[i].stream] # "valid"
  /\ SlotError(i, runners[i].step)
  /\ UNCHANGED <<rowVars, locks, processVars, late, unlocked, faults>>

\* autoActivate(): SELECT ... FOR NO KEY UPDATE, and the second UPDATE's rows
BeginActivate(i) ==
  LET s == runners[i].stream
  IN /\ At(i, "job", "streaming")
     /\ sync_rules[s].state = "PROCESSING" /\ sync_rules[s].snapshot_done
     /\ ~Activating(s)
     /\ runners' = [runners EXCEPT ![i].step = "activate", ![i].matched = InState(Serving) \ {s}]
     /\ UNCHANGED <<rowVars, locks, processVars, late, unlocked, faults>>

\* (mutant: without "AND id != " the stream itself)
CommitActivate_All(i) ==
  /\ At(i, "job", "activate")
  /\ sync_rules' = SetState(InState(Serving) \cup {runners[i].stream}, "STOP")
  /\ runners' = [runners EXCEPT ![i].step = "streaming", ![i].matched = {}]
  /\ UNCHANGED <<data, slots, locks, processVars, late, unlocked, faults>>

CommitActivate(i) ==
  LET s == runners[i].stream
      stopped == runners[i].matched \cap InState(Serving)
  IN /\ At(i, "job", "activate")
     /\ sync_rules' = [SetState(stopped, "STOP") EXCEPT ![s].state = "ACTIVE"]
     /\ runners' = [runners EXCEPT ![i].step = "streaming", ![i].matched = {}]
     /\ UNCHANGED <<data, slots, locks, processVars, late, unlocked, faults>>

(***************************************************************************)
(* restartReplication(). No other order of its two reads and another       *)
(* process's step leads to a decision that one moment does not.            *)
(***************************************************************************)
Restart(i) ==
  LET s == runners[i].stream
      redo == DeployingStream = s \/ (DeployingStream = None /\ ActiveStream = s)
  IN /\ At(i, "job", "restart")
     /\ runners' = [runners EXCEPT
          ![i].step = IF redo THEN "update" ELSE IF ActiveStream = s THEN "retire" ELSE "release",
          ![i].aborted = @ \/ (~redo /\ ActiveStream # s),
          ![i].content = sync_rules[s].content,
          ![i].retire = IF DeployingStream = s THEN "STOP" ELSE "ERRORED"]
     /\ UNCHANGED <<rowVars, locks, processVars, late, unlocked, faults>>

BeginUpdate(i) ==
  /\ At(i, "job", "update")
  /\ runners' = [runners EXCEPT ![i].step = "insert", ![i].matched = InState({"PROCESSING"})]
  /\ UNCHANGED <<rowVars, locks, processVars, late, unlocked, faults>>

InsertUpdate(i) ==
  /\ At(i, "job", "insert")
  /\ CommitUpdate(runners[i].matched, runners[i].content)
  /\ runners' = [runners EXCEPT ![i].step = "retire", ![i].matched = {}]
  /\ UNCHANGED <<data, slots, locks, processVars, late, unlocked, faults>>

Retire(i) ==
  LET s == runners[i].stream
      from == IF runners[i].retire = "STOP" THEN "PROCESSING" ELSE "ACTIVE"
  IN /\ At(i, "job", "retire")
     /\ ~Activating(s)
     /\ sync_rules' = SetState({s} \cap InState({from}), runners[i].retire)
     /\ Go(i, "release")
     /\ UNCHANGED <<data, slots, locks, processVars, late, unlocked, faults>>

\* cleanUpReplicationSlot()
CleanUp(i) ==
  /\ At(i, "clear", "cleanup")
  /\ slots' = [slots EXCEPT ![runners[i].stream] = "missing"]
  /\ Go(i, "clear")
  /\ UNCHANGED <<sync_rules, data, locks, processVars, late, unlocked, faults>>

\* clearBatched() has seen the last batch; terminate() writes the state.
ClearDone(i) ==
  /\ At(i, "clear", "clearing")
  /\ data[runners[i].stream] = 0
  /\ Go(i, "terminate")
  /\ UNCHANGED <<rowVars, locks, processVars, late, unlocked, faults>>

Terminate(i) ==
  LET s == runners[i].stream
  IN /\ At(i, "clear", "terminate")
     /\ ~Activating(s)
     /\ sync_rules' = [sync_rules EXCEPT ![s].state = "TERMINATED", ![s].snapshot_done = FALSE]
     /\ Go(i, "release")
     /\ UNCHANGED <<data, slots, locks, processVars, late, unlocked, faults>>

\* An aborted job ends where it next looks at its signal.
AbortJob(i) ==
  /\ \E step \in {"init", "reset", "resetting", "snapshot", "streaming"} : At(i, "job", step)
  /\ runners[i].aborted
  /\ Go(i, "release")
  /\ UNCHANGED <<rowVars, locks, processVars, late, unlocked, faults>>

\* An error, in whatever step: an open transaction is rolled back.
RunnerFails(i) ==
  /\ "fail" \in FaultKinds /\ faults < MaxFaults
  /\ runners[i] # None /\ runners[i].step # "release"
  /\ runners' = [runners EXCEPT ![i].step = "release", ![i].aborted = TRUE, ![i].matched = {}]
  /\ faults' = faults + 1
  /\ UNCHANGED <<rowVars, locks, processVars, late, unlocked>>

\* finally: release the lock. The job stays in its map until a refresh.
Release(i) ==
  LET p == runners[i].process
      s == runners[i].stream
      forget(jobs) == [t \in Streams |-> IF jobs[t] = i THEN Ended ELSE jobs[t]]
  IN /\ runners[i] # None /\ runners[i].step = "release"
     /\ ReleaseLock(i)
     /\ runners' = [runners EXCEPT ![i] = None]
     /\ replicator' = [replicator EXCEPT ![p] =
          [@ EXCEPT !.jobs = forget(replicator[p].jobs), !.newJobs = forget(replicator[p].newJobs),
                    !.clearing = replicator[p].clearing \ IF runners[i].kind = "clear" THEN {s} ELSE {}]]
     /\ UNCHANGED <<rowVars, deploy, loadedSyncConfig, late, unlocked, faults>>

-----------------------------------------------------------------------------
\* A process dies: its locks stay until they expire.
Crash(p) ==
  /\ "crash" \in FaultKinds /\ faults < MaxFaults
  /\ replicator[p].step # "down"
  /\ replicator' = [replicator EXCEPT ![p] = Down]
  /\ runners' = [i \in LockIds |-> IF runners[i] # None /\ runners[i].process = p THEN None ELSE runners[i]]
  /\ faults' = faults + 1
  /\ UNCHANGED <<rowVars, locks, deploy, loadedSyncConfig, late, unlocked>>

\* The source drops the slot, or invalidates it.
LoseSlot(s) ==
  /\ "slot" \in FaultKinds /\ faults < MaxFaults
  /\ slots[s] = "valid"
  /\ \E status \in {"missing", "lost"} : slots' = [slots EXCEPT ![s] = status]
  /\ faults' = faults + 1
  /\ UNCHANGED <<sync_rules, data, locks, runners, processVars, late, unlocked>>

ReplicatorNext(p) ==
  \/ StartProcess(p)
  \/ Configure(p)
  \/ FinishRefresh(p)
  \/ \E s \in Streams : StopOrphan(p, s) \/ StartJob(p, s) \/ StandBy(p, s)

RunnerNext(i) ==
  \/ InitSlot(i) \/ ClearRow(i) \/ ClearBatch(i) \/ CreateSlot(i) \/ Flush(i) \/ FinishSnapshot(i)
  \/ FindsSlotLost(i) \/ BeginActivate(i) \/ CommitActivate(i) \/ Restart(i) \/ BeginUpdate(i)
  \/ InsertUpdate(i) \/ Retire(i) \/ CleanUp(i) \/ ClearDone(i) \/ Terminate(i) \/ AbortJob(i)
  \/ Release(i)

LifecycleNext ==
  \/ \E c \in Clients : BeginDeploy(c) \/ CommitDeploy(c)
  \/ \E p \in Processes : ReplicatorNext(p) \/ Refresh(p) \/ Crash(p)
  \/ \E p \in Processes, s \in Streams : StartTermination(p, s)
  \/ \E i \in LockIds : RunnerNext(i) \/ RefreshFails(i) \/ RunnerFails(i)
  \/ \E s \in Streams : LockExpires(s) \/ LoseSlot(s)

LifecycleSpec == LifecycleInit /\ [][LifecycleNext]_vars

(***************************************************************************)
(* Every process goes on refreshing (runLoop() does, whatever it catches), *)
(* a job or termination goes on until it ends, and a lock that nothing     *)
(* refreshes expires. Deploys, activations by a new snapshot and faults    *)
(* need not happen.                                                        *)
(***************************************************************************)
LifecycleFairness ==
  /\ \A p \in Processes : WF_vars(ReplicatorNext(p) \/ Refresh(p))
  /\ \A p \in Processes, s \in Streams : WF_vars(StartTermination(p, s))
  /\ \A i \in LockIds : WF_vars(RunnerNext(i))
  /\ \A s \in Streams : WF_vars(LockExpires(s))

FairLifecycleSpec == LifecycleSpec /\ LifecycleFairness

-----------------------------------------------------------------------------
(***************************************************************************)
(* "Locks allow multiple service processes to observe the same storage     *)
(* state without processing the same replication stream concurrently": two *)
(* runners of one stream, jobs or terminations, and neither has missed a   *)
(* refresh of its lock. It takes a release or an expiry at a wrong moment. *)
(***************************************************************************)
OneRunnerPerStream ==
  \A i, j \in LockIds :
    Holds(i) /\ Holds(j) /\ i # j => runners[i].stream # runners[j].stream

(***************************************************************************)
(* Clients always have a stream to read from, however deploys, restarts    *)
(* and activations of several processes overlap: activation and            *)
(* retirement never leave a moment without one.                            *)
(***************************************************************************)
KeepsServing == InState(Serving) # {}

(***************************************************************************)
(* A terminated stream holds no rows: its job was gone before its tables   *)
(* were cleared, and none wrote to it later. Except where a job was        *)
(* started from a listing that was old by then, or went on without lock.   *)
(***************************************************************************)
TerminatedStaysEmpty ==
  \A s \in Streams : sync_rules[s].state = "TERMINATED" => data[s] = 0 \/ s \in late \cup unlocked

\* SyncRuleState.TERMINATED: "Once deleted, the state is TERMINATED."
TerminatedIsEmpty == \A s \in Streams : sync_rules[s].state = "TERMINATED" => data[s] = 0

\* SyncRuleState.ACTIVE: "Only one replication stream should be in ACTIVE or
\* ERRORED state."
OneServing == Cardinality(InState(Serving)) <= 1

\* No row is left for a new stream (the bound on Streams), and one is waited for.
Exhausted ==
  /\ InState({"NONE"}) = {}
  /\ \/ \E i \in LockIds : At(i, "job", "insert")
     \/ \E p \in Processes : replicator[p].step = "configure"

(***************************************************************************)
(* A stopped stream is cleared in the end, whichever process held its lock *)
(* when it was stopped, whatever crashed and however often the clearing    *)
(* was left to a later refresh; two runners that write at the same time    *)
(* because one went on without its lock may undo each other's work.        *)
(***************************************************************************)
StoppedIsTerminated ==
  \A s \in Streams :
    sync_rules[s].state = "STOP" ~> sync_rules[s].state = "TERMINATED" \/ s \in unlocked \/ Exhausted

(***************************************************************************)
(* A deployed stream becomes active or gives way to a later one, unless    *)
(* its slot was invalidated in its snapshot phase (or, as above, its lock  *)
(* was lost).                                                              *)
(***************************************************************************)
DeployedIsActivated ==
  \A s \in Streams :
    sync_rules[s].state = "PROCESSING" ~>
      sync_rules[s].state # "PROCESSING" \/ slots[s] = "lost" \/ s \in unlocked \/ Exhausted
=============================================================================
