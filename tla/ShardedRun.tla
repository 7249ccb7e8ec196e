------------------------------ MODULE ShardedRun ------------------------------
(***************************************************************************)
(* faucet serve --cluster, one source-sharded run (Mode B): the coordinator *)
(* and the shard tasks of cli/src/serve/runner.rs, the shard rows of       *)
(* cli/src/serve/history/sql.rs, the reclaim and the sweep of the lease    *)
(* loop in cli/src/serve/server.rs.                                        *)
(*                                                                         *)
(* The instance that claims the run flips it to sharded and inserts one    *)
(* row per shard, a statement each.  Every instance claims shard rows,     *)
(* executes them and finalizes them; whoever sees every row terminal       *)
(* finalizes the run.  Leases, fencing and hand-backs are ServeCluster's,  *)
(* reduced here to what they do to a shard row.                            *)
(***************************************************************************)
EXTENDS Naturals, FiniteSets

CONSTANTS
  Instances,
  Shards,         \* what enumerate_shards returns
  Nobody,         \* owner IS NULL
  MaxAttempts,    \* --cluster-max-attempts
  MaxFaults       \* crashes, failed statements, fences, stalls (bound)

ASSUME ShardedRunAssumption ==
  /\ Nobody \notin Instances
  /\ IsFiniteSet(Shards) /\ Shards # {}
  /\ MaxAttempts \in Nat
  /\ MaxFaults \in Nat

VARIABLES
  \* The row of the run.
  parent, pOwner, pLapsed, pAttempt,
  flag,           \* cancel_requested
  \* faucet_serve_shards.
  shard, sOwner, sLapsed, sAttempt,
  \* An instance.
  up,             \* "up", "stopping" (SIGTERM and its grace) or "down"
  coord,          \* where it is in coordinate_sharded_run
  todo,           \* the shards it has not inserted yet
  task,           \* the task it spawned for each shard
  queue,          \* pending_finalize
  seen,           \* outcomes it read from shard_progress and has yet to write
  requeued,       \* reclaim_shards has requeued and is to cancel what is flagged
  \* A cancel request between its statements.
  cancel,
  faults,
  \* History, read by properties only.
  looked,         \* somebody saw every row terminal
  late,           \* the shards whose row was inserted after that
  overrun,        \* a lease lapsed under an owner that was up
  callbacks       \* completion callbacks fired, 2 for more than one

prow == <<parent, pOwner, pLapsed, pAttempt>>
srow == <<shard, sOwner, sLapsed, sAttempt>>
inst == <<up, coord, todo, task, queue, seen, requeued>>
hist == <<looked, late, overrun, callbacks>>
vars == <<prow, flag, srow, inst, cancel, faults, hist>>

Terminal == {"completed", "failed", "cancelled"}
Tasks == [pc : {"idle", "selected", "won", "load", "work", "final", "release", "requeue"},
          out : Terminal]
Idle == [pc |-> "idle", out |-> "failed"]

(* A queued write: a shard's outcome, a shard to hand back, or the run's failure. *)
Entries == [what : {"shard"}, shard : Shards, write : Terminal \cup {"release"}]
             \cup [what : {"run"}]

RowsOK ==
  /\ parent \in {"pending", "running", "sharded"} \cup Terminal
  /\ pOwner \in Instances \cup {Nobody} /\ pAttempt \in Nat
  /\ shard \in [Shards -> {"none", "pending", "running"} \cup Terminal]
  /\ sOwner \in [Shards -> Instances \cup {Nobody}] /\ sAttempt \in [Shards -> Nat]

InstancesOK ==
  /\ up \in [Instances -> {"up", "stopping", "down"}]
  /\ coord \in [Instances -> {"idle", "won", "load", "insert", "fail"}]
  /\ todo \in [Instances -> SUBSET Shards]
  /\ task \in [Instances -> [Shards -> Tasks]]
  /\ queue \in [Instances -> SUBSET Entries]
  /\ seen \in [Instances -> SUBSET Terminal]

FlagsOK ==
  /\ pLapsed \in BOOLEAN /\ sLapsed \in [Shards -> BOOLEAN] /\ flag \in BOOLEAN
  /\ requeued \in [Instances -> BOOLEAN] /\ looked \in BOOLEAN /\ overrun \in BOOLEAN

CountsOK ==
  /\ cancel \in {"none", "flag", "shards", "done"}
  /\ faults \in 0..MaxFaults
  /\ late \subseteq Shards /\ callbacks \in 0..2

TypeOK == RowsOK /\ InstancesOK /\ FlagsOK /\ CountsOK

Done == parent \in Terminal
Rows == {s \in Shards : shard[s] # "none"}
Owns(i, s) == sOwner[s] = i /\ shard[s] = "running"

(* One statement, read or write, that the history refuses. *)
Fault == faults < MaxFaults /\ faults' = faults + 1

Fire == callbacks' = IF callbacks < 2 THEN callbacks + 1 ELSE callbacks
-------------------------------------------------------------------------------
Init ==
  /\ parent = "pending" /\ pOwner = Nobody /\ pLapsed = FALSE /\ pAttempt = 0
  /\ flag = FALSE
  /\ shard = [s \in Shards |-> "none"] /\ sOwner = [s \in Shards |-> Nobody]
  /\ sLapsed = [s \in Shards |-> FALSE] /\ sAttempt = [s \in Shards |-> 0]
  /\ up = [i \in Instances |-> "up"] /\ coord = [i \in Instances |-> "idle"]
  /\ todo = [i \in Instances |-> {}] /\ task = [i \in Instances |-> [s \in Shards |-> Idle]]
  /\ queue = [i \in Instances |-> {}] /\ seen = [i \in Instances |-> {}]
  /\ requeued = [i \in Instances |-> FALSE]
  /\ cancel = "none" /\ faults = 0
  /\ looked = FALSE /\ late = {} /\ overrun = FALSE /\ callbacks = 0

(* claim_pending: the claiming instance is to coordinate the run ... *)
ClaimRun(i) ==
  /\ up[i] = "up" /\ parent = "pending" /\ coord[i] = "idle"
  /\ parent' = "running" /\ pOwner' = i /\ pLapsed' = FALSE
  /\ coord' = [coord EXCEPT ![i] = "won"]
  /\ UNCHANGED <<pAttempt, flag, srow, up, todo, task, queue, seen, requeued, cancel, faults,
                 hist>>

(* ... once the batch it was won in is dispatched. *)
DispatchRun(i) ==
  /\ up[i] = "up" /\ coord[i] = "won"
  /\ coord' = [coord EXCEPT ![i] = "load"]
  /\ UNCHANGED <<prow, flag, srow, up, todo, task, queue, seen, requeued, cancel, faults, hist>>

(* Mutant: the run is left running until its shards are there. *)
NotFlipped(i) == UNCHANGED <<parent, pOwner, pLapsed>>

(* coordinate_sharded_run reads the run and writes it back as sharded, an upsert
   that stamps this instance as the owner whatever the row has become ... *)
Flipped(i) == parent' = "sharded" /\ pOwner' = i /\ pLapsed' = FALSE

(* ... then it enumerates the shards.  Nothing it calls may fail without failing
   the run. *)
Flip(i) ==
  /\ up[i] # "down" /\ coord[i] = "load"
  /\ \/ /\ Flipped(i)
        /\ coord' = [coord EXCEPT ![i] = "insert"]
        /\ todo' = [todo EXCEPT ![i] = Shards]
        /\ UNCHANGED faults
     \/ /\ Fault
        /\ coord' = [coord EXCEPT ![i] = "fail"]
        /\ \/ Flipped(i)
           \/ UNCHANGED <<parent, pOwner, pLapsed>>
        /\ UNCHANGED todo
  /\ UNCHANGED <<pAttempt, flag, srow, up, task, queue, seen, requeued, cancel, hist>>

(* insert_shards: one INSERT ... ON CONFLICT DO NOTHING per shard. *)
InsertShard(i) ==
  /\ up[i] # "down" /\ coord[i] = "insert"
  /\ \/ \E s \in todo[i] :
          /\ todo' = [todo EXCEPT ![i] = @ \ {s}]
          /\ shard' = [shard EXCEPT ![s] = IF @ = "none" THEN "pending" ELSE @]
          /\ late' = IF looked /\ shard[s] = "none" THEN late \cup {s} ELSE late
          /\ UNCHANGED <<coord, faults>>
     \/ /\ todo[i] = {}
        /\ coord' = [coord EXCEPT ![i] = "idle"]
        /\ UNCHANGED <<todo, shard, late, faults>>
     \/ /\ todo[i] # {} /\ Fault
        /\ coord' = [coord EXCEPT ![i] = "fail"]
        /\ todo' = [todo EXCEPT ![i] = {}]
        /\ UNCHANGED <<shard, late>>
  /\ UNCHANGED <<prow, flag, sOwner, sLapsed, sAttempt, up, task, queue, seen, requeued,
                 cancel, looked, overrun, callbacks>>

(* finalize_owned, of the failed run. *)
FailParent(i) ==
  IF pOwner = i /\ ~Done
  THEN /\ parent' = "failed" /\ pLapsed' = FALSE /\ Fire
       /\ UNCHANGED <<pOwner, pAttempt, looked, late, overrun>>
  ELSE UNCHANGED <<prow, hist>>

FailRun(i) ==
  /\ up[i] # "down" /\ coord[i] = "fail"
  /\ coord' = [coord EXCEPT ![i] = "idle"]
  /\ \/ FailParent(i) /\ UNCHANGED <<queue, faults>>
     \/ /\ Fault
        /\ queue' = [queue EXCEPT ![i] = @ \cup {[what |-> "run"]}]
        /\ UNCHANGED <<prow, hist>>
  /\ UNCHANGED <<flag, srow, up, todo, task, seen, requeued, cancel>>
-------------------------------------------------------------------------------
(* claim_shards selects the pending rows of runs that are not flagged, whatever the
   status of the run.  Bound: one task per instance and shard. *)
SelectShard(i, s) ==
  /\ up[i] = "up" /\ shard[s] = "pending" /\ ~flag /\ task[i][s].pc = "idle"
  /\ task' = [task EXCEPT ![i][s].pc = "selected"]
  /\ UNCHANGED <<prow, flag, srow, up, coord, todo, queue, seen, requeued, cancel, faults, hist>>

(* The UPDATE asks for a row that is still pending, not for the flag again. *)
ClaimShard(i, s) ==
  /\ up[i] = "up" /\ task[i][s].pc = "selected"
  /\ IF shard[s] = "pending"
     THEN /\ shard' = [shard EXCEPT ![s] = "running"]
          /\ sOwner' = [sOwner EXCEPT ![s] = i]
          /\ sLapsed' = [sLapsed EXCEPT ![s] = FALSE]
          /\ task' = [task EXCEPT ![i][s].pc = "won"]
     ELSE task' = [task EXCEPT ![i][s] = Idle] /\ UNCHANGED <<shard, sOwner, sLapsed>>
  /\ UNCHANGED <<prow, flag, sAttempt, up, coord, todo, queue, seen, requeued, cancel, faults,
                 hist>>

(* claim_loop: what was won is dispatched once the whole batch is back. *)
DispatchShard(i, s) ==
  /\ up[i] = "up" /\ task[i][s].pc = "won"
  /\ task' = [task EXCEPT ![i][s].pc = "load"]
  /\ UNCHANGED <<prow, flag, srow, up, coord, todo, queue, seen, requeued, cancel, faults, hist>>

(* resume_claimed_shard: the config is loaded, and the token registered. *)
LoadShard(i, s) ==
  /\ up[i] # "down" /\ task[i][s].pc = "load"
  /\ \E pc \in {"work", "final"} : task' = [task EXCEPT ![i][s].pc = pc]
  /\ UNCHANGED <<prow, flag, srow, up, coord, todo, queue, seen, requeued, cancel, faults, hist>>

ShardEnds(i, s) ==
  /\ up[i] # "down" /\ task[i][s].pc = "work"
  /\ \E o \in {"completed", "failed"} :
       task' = [task EXCEPT ![i][s] = [pc |-> "final", out |-> o]]
  /\ UNCHANGED <<prow, flag, srow, up, coord, todo, queue, seen, requeued, cancel, faults, hist>>

(* An interrupted shard flushes, and a flush that fails is a failed shard. *)
Interrupted(i, s, pc, out) ==
  \/ task' = [task EXCEPT ![i][s] = [pc |-> pc, out |-> out]]
  \/ task' = [task EXCEPT ![i][s] = [pc |-> "final", out |-> "failed"]]

(* The claim loop fires the token of a running shard it owns whose run is flagged. *)
CancelShard(i, s) ==
  /\ up[i] = "up" /\ task[i][s].pc = "work" /\ Owns(i, s) /\ flag
  /\ Interrupted(i, s, "final", "cancelled")
  /\ UNCHANGED <<prow, flag, srow, up, coord, todo, queue, seen, requeued, cancel, faults, hist>>

(* The shutdown token fires: the shard is to be requeued. *)
ShutdownShard(i, s) ==
  /\ up[i] = "stopping" /\ task[i][s].pc = "work"
  /\ Interrupted(i, s, "requeue", "failed")
  /\ UNCHANGED <<prow, flag, srow, up, coord, todo, queue, seen, requeued, cancel, faults, hist>>

(* The instance fences itself: the shard is to be handed back. *)
FenceShard(i, s) ==
  /\ up[i] # "down" /\ task[i][s].pc = "work" /\ Fault
  /\ Interrupted(i, s, "release", "cancelled")
  /\ UNCHANGED <<prow, flag, srow, up, coord, todo, queue, seen, requeued, cancel, hist>>

(* finalize_shard: WHERE owner = me AND status = 'running'. *)
FinalizeShardRow(i, s, out) ==
  /\ shard' = IF Owns(i, s) THEN [shard EXCEPT ![s] = out] ELSE shard
  /\ UNCHANGED <<sOwner, sLapsed>>

(* release_shard, under the same condition. *)
ReleaseShardRow(i, s) ==
  IF Owns(i, s)
  THEN /\ shard' = [shard EXCEPT ![s] = "pending"]
       /\ sOwner' = [sOwner EXCEPT ![s] = Nobody]
       /\ sLapsed' = [sLapsed EXCEPT ![s] = FALSE]
  ELSE UNCHANGED <<shard, sOwner, sLapsed>>

WriteShard(i, s, write) ==
  IF write = "release" THEN ReleaseShardRow(i, s) ELSE FinalizeShardRow(i, s, write)

(* Mutants: a write the history did not take is forgotten, or kept without what it
   was to write. *)
Forgotten(i, e) == UNCHANGED queue
Unlabelled(i, e) == queue' = [queue EXCEPT ![i] = @ \cup {e.shard}]

QueueFinalize(i, e) == queue' = [queue EXCEPT ![i] = @ \cup {e}]

(* finalize_shard and hand_back: a write the history refuses is queued. *)
FinishShard(i, s) ==
  LET t == task[i][s]
      w == IF t.pc = "release" THEN "release" ELSE t.out
  IN
  /\ up[i] # "down" /\ t.pc \in {"final", "release"}
  /\ task' = [task EXCEPT ![i][s] = Idle]
  /\ \/ WriteShard(i, s, w) /\ UNCHANGED <<queue, faults>>
     \/ /\ Fault /\ QueueFinalize(i, [what |-> "shard", shard |-> s, write |-> w])
        /\ UNCHANGED <<shard, sOwner, sLapsed>>
  /\ UNCHANGED <<prow, flag, sAttempt, up, coord, todo, seen, requeued, cancel, hist>>

(* A shutdown that cannot hand the shard back finalizes it, as failed. *)
RequeueShard(i, s) ==
  /\ up[i] # "down" /\ task[i][s].pc = "requeue"
  /\ \/ /\ Owns(i, s) /\ ReleaseShardRow(i, s)
        /\ task' = [task EXCEPT ![i][s] = Idle]
        /\ UNCHANGED faults
     \/ /\ IF Owns(i, s) THEN Fault ELSE UNCHANGED faults
        /\ task' = [task EXCEPT ![i][s].pc = "final"]
        /\ UNCHANGED <<shard, sOwner, sLapsed>>
  /\ UNCHANGED <<prow, flag, sAttempt, up, coord, todo, queue, seen, requeued, cancel, hist>>

(* retry_pending_finalize. *)
RetryPendingFinalize(i) ==
  /\ up[i] = "up"
  /\ \E e \in queue[i] :
       /\ queue' = [queue EXCEPT ![i] = @ \ {e}]
       /\ IF e.what = "run"
          THEN FailParent(i) /\ UNCHANGED <<shard, sOwner, sLapsed>>
          ELSE WriteShard(i, e.shard, e.write) /\ UNCHANGED <<prow, hist>>
  /\ UNCHANGED <<flag, sAttempt, up, coord, todo, task, seen, requeued, cancel, faults>>
-------------------------------------------------------------------------------
(* Mutant: a run whose shards are all handed out is over. *)
AllTerminalIdle == Rows # {} /\ \A s \in Rows : shard[s] # "pending"

(* ShardProgress::all_terminal and parent_outcome. *)
AllTerminal == Rows # {} /\ \A s \in Rows : shard[s] \in Terminal

ParentOutcome ==
  CASE \E s \in Rows : shard[s] = "cancelled" -> "cancelled"
    [] \E s \in Rows : shard[s] = "failed" -> "failed"
    [] OTHER -> "completed"

(* shard_progress: read by the task that finished a shard, by a cancel of a sharded
   run and by the sweep, whatever the status of the run. *)
Look(i) ==
  /\ up[i] # "down" /\ AllTerminal
  /\ seen' = [seen EXCEPT ![i] = @ \cup {ParentOutcome}]
  /\ looked' = TRUE
  /\ UNCHANGED <<prow, flag, srow, up, coord, todo, task, queue, requeued, cancel, faults, late,
                 overrun, callbacks>>

(* Mutant: the write is not conditional. *)
FinalizableAlways == TRUE

(* finalize_sharded_parent: WHERE status = 'sharded'. *)
Finalizable == parent = "sharded"

(* The winner fires the callback.  A write the history refuses is left to the
   sweep. *)
FinalizeParent(i) ==
  /\ up[i] # "down"
  /\ \E o \in seen[i] :
       /\ seen' = [seen EXCEPT ![i] = @ \ {o}]
       /\ \/ /\ Finalizable
             /\ parent' = o /\ Fire
             /\ UNCHANGED faults
          \/ /\ IF Finalizable THEN Fault ELSE UNCHANGED faults
             /\ UNCHANGED <<parent, callbacks>>
  /\ UNCHANGED <<pOwner, pLapsed, pAttempt, flag, srow, up, coord, todo, task, queue, requeued,
                 cancel, looked, late, overrun>>
-------------------------------------------------------------------------------
(* renew_shard_leases and renew_leases keep the rows of a live owner from lapsing;
   these are the rows whose owner is gone, or shut down, or stalled. *)
Lapses(owner) ==
  \/ owner # Nobody /\ up[owner] = "down" /\ UNCHANGED <<faults, overrun>>
  \/ owner # Nobody /\ up[owner] = "stopping" /\ overrun' = TRUE /\ UNCHANGED faults
  \/ owner # Nobody /\ up[owner] = "up" /\ Fault /\ overrun' = TRUE

LapseShard(s) ==
  /\ shard[s] = "running" /\ ~sLapsed[s]
  /\ Lapses(sOwner[s])
  /\ sLapsed' = [sLapsed EXCEPT ![s] = TRUE]
  /\ UNCHANGED <<prow, flag, shard, sOwner, sAttempt, inst, cancel, looked, late, callbacks>>

LapseRun ==
  /\ parent = "running" /\ ~pLapsed
  /\ Lapses(pOwner)
  /\ pLapsed' = TRUE
  /\ UNCHANGED <<parent, pOwner, pAttempt, flag, srow, inst, cancel, looked, late, callbacks>>

RenewLeases(i) ==
  /\ up[i] = "up"
  /\ sLapsed' = [s \in Shards |-> sLapsed[s] /\ ~Owns(i, s)]
  /\ pLapsed' = (pLapsed /\ ~(pOwner = i /\ parent = "running"))
  /\ <<sLapsed, pLapsed>> # <<sLapsed', pLapsed'>>
  /\ UNCHANGED <<parent, pOwner, pAttempt, flag, shard, sOwner, sAttempt, inst, cancel, faults,
                 hist>>

(* reclaim_orphans, of the run: only while it is running. *)
ReclaimRun(i) ==
  /\ up[i] = "up" /\ parent = "running" /\ pLapsed
  /\ parent' = IF pAttempt < MaxAttempts THEN "pending" ELSE "failed"
  /\ pAttempt' = pAttempt + 1 /\ pOwner' = Nobody /\ pLapsed' = FALSE
  /\ UNCHANGED <<flag, srow, inst, cancel, faults, hist>>

(* reclaim_shards: a requeue, or a poisoned shard ... *)
ReclaimShard(i, s) ==
  /\ up[i] = "up" /\ shard[s] = "running" /\ sLapsed[s]
  /\ sOwner' = [sOwner EXCEPT ![s] = Nobody]
  /\ sLapsed' = [sLapsed EXCEPT ![s] = FALSE]
  /\ IF sAttempt[s] < MaxAttempts
     THEN /\ shard' = [shard EXCEPT ![s] = "pending"]
          /\ sAttempt' = [sAttempt EXCEPT ![s] = @ + 1]
          /\ requeued' = [requeued EXCEPT ![i] = TRUE]
     ELSE /\ shard' = [shard EXCEPT ![s] = "failed"]
          /\ UNCHANGED <<sAttempt, requeued>>
  /\ UNCHANGED <<prow, flag, up, coord, todo, task, queue, seen, cancel, faults, hist>>

CancelledShards == [s \in Shards |-> IF shard[s] = "pending" THEN "cancelled" ELSE shard[s]]

(* ... and, when it requeued some, cancel_requeued_shards. *)
CancelRequeued(i) ==
  /\ up[i] = "up" /\ requeued[i]
  /\ requeued' = [requeued EXCEPT ![i] = FALSE]
  /\ shard' = IF flag THEN CancelledShards ELSE shard
  /\ UNCHANGED <<prow, flag, sOwner, sLapsed, sAttempt, up, coord, todo, task, queue, seen,
                 cancel, faults, hist>>
-------------------------------------------------------------------------------
(* runtime::server::cancel: a pending run is cancelled outright ... *)
CancelRun ==
  /\ cancel = "none" /\ ~Done
  /\ IF parent = "pending"
     THEN /\ parent' = "cancelled" /\ Fire
          /\ cancel' = "done"
     ELSE /\ cancel' = "flag"
          /\ UNCHANGED <<parent, callbacks>>
  /\ UNCHANGED <<pOwner, pLapsed, pAttempt, flag, srow, inst, faults, looked, late, overrun>>

(* ... another is flagged, if it still runs, and then its pending shards are
   cancelled. *)
RequestCancel ==
  /\ cancel \in {"flag", "shards"}
  /\ IF cancel = "flag"
     THEN /\ flag' = (flag \/ parent \in {"running", "sharded"})
          /\ cancel' = "shards" /\ UNCHANGED shard
     ELSE /\ shard' = CancelledShards
          /\ cancel' = "done" /\ UNCHANGED flag
  /\ UNCHANGED <<prow, sOwner, sLapsed, sAttempt, inst, faults, hist>>
-------------------------------------------------------------------------------
(* The world.  Somebody always stays up. *)
Survivor(i) == \E j \in Instances \ {i} : up[j] = "up"

Down(i) ==
  /\ up' = [up EXCEPT ![i] = "down"] /\ coord' = [coord EXCEPT ![i] = "idle"]
  /\ todo' = [todo EXCEPT ![i] = {}]
  /\ task' = [task EXCEPT ![i] = [s \in Shards |-> Idle]]
  /\ queue' = [queue EXCEPT ![i] = {}] /\ seen' = [seen EXCEPT ![i] = {}]
  /\ requeued' = [requeued EXCEPT ![i] = FALSE]
  /\ UNCHANGED <<prow, flag, srow, cancel, hist>>

Crash(i) == up[i] = "up" /\ Survivor(i) /\ Fault /\ Down(i)

(* SIGTERM, and the grace is over.  The claim loop is aborted where it awaits: what it
   has won and not dispatched stays this instance's, without a task. *)
Stop(i) ==
  /\ up[i] = "up" /\ Survivor(i) /\ Fault
  /\ up' = [up EXCEPT ![i] = "stopping"]
  /\ task' = [task EXCEPT ![i] = [s \in Shards |->
       IF @[s].pc \in {"selected", "won"} THEN Idle ELSE @[s]]]
  /\ coord' = [coord EXCEPT ![i] = IF @ = "won" THEN "idle" ELSE @]
  /\ UNCHANGED <<prow, flag, srow, todo, queue, seen, requeued, cancel, hist>>

Exit(i) == up[i] = "stopping" /\ Down(i) /\ UNCHANGED faults

Claim(i, s) == SelectShard(i, s) \/ ClaimShard(i, s) \/ DispatchShard(i, s)
Coordinate(i) == Flip(i) \/ InsertShard(i) \/ FailRun(i)
Work(i, s) ==
  LoadShard(i, s) \/ ShardEnds(i, s) \/ CancelShard(i, s) \/ ShutdownShard(i, s)
    \/ FinishShard(i, s) \/ RequeueShard(i, s)

Next ==
  \/ \E i \in Instances :
       \/ ClaimRun(i) \/ DispatchRun(i) \/ Coordinate(i) \/ ReclaimRun(i) \/ CancelRequeued(i)
       \/ RetryPendingFinalize(i) \/ Look(i) \/ FinalizeParent(i) \/ RenewLeases(i)
       \/ Crash(i) \/ Stop(i) \/ Exit(i)
       \/ \E s \in Shards :
            Claim(i, s) \/ Work(i, s) \/ FenceShard(i, s) \/ ReclaimShard(i, s)
  \/ \E s \in Shards : LapseShard(s)
  \/ LapseRun \/ CancelRun \/ RequestCancel

Spec == Init /\ [][Next]_vars

(* The loops of a live instance and the tasks it spawned go on, the lease of a row
   whose owner is gone lapses, and a shard's work ends. *)
FairSpec ==
  /\ Spec
  /\ \A i \in Instances :
       /\ WF_vars(ClaimRun(i)) /\ WF_vars(DispatchRun(i))
       /\ WF_vars(Coordinate(i)) /\ WF_vars(ReclaimRun(i))
       /\ WF_vars(CancelRequeued(i)) /\ WF_vars(RetryPendingFinalize(i))
       /\ WF_vars(Look(i)) /\ WF_vars(FinalizeParent(i)) /\ WF_vars(Exit(i))
       /\ \A s \in Shards :
            WF_vars(Claim(i, s)) /\ WF_vars(Work(i, s)) /\ WF_vars(ReclaimShard(i, s))
  /\ \A s \in Shards : WF_vars(LapseShard(s) /\ UNCHANGED faults)
  /\ WF_vars(LapseRun /\ UNCHANGED faults) /\ WF_vars(RequestCancel)
-------------------------------------------------------------------------------
(* F27: no shard row exists while the run may still be requeued, or failed by orphan
   recovery: the run is flipped to sharded first, and nothing flips it back, a
   coordinator that was reclaimed and woke up included. *)
NoShardBeforeSharded == Rows # {} => parent \notin {"pending", "running"}

(* The outcome of the run is the outcome of its shards, although it was read before
   it is written: a completed run has no row that failed, was cancelled, was handed
   back or is still running, but for the rows that were inserted too late. *)
OutcomeIsHonest ==
  parent = "completed" => \A s \in Rows \ late : shard[s] = "completed"

(* A finalized run stays finalized and one callback is fired for it, unless a lease
   lapsed under a live owner. *)
ParentIsFinalizedOnce ==
  [][/\ Done => parent' = parent \/ overrun
     /\ callbacks' > 1 => overrun]_vars

(* F11: a run that was expanded ends, although the coordinator, the task that
   finished the last shard, or any statement of theirs failed. *)
ExpandedRunEnds == parent = "sharded" /\ Rows # {} ~> Done \/ cancel # "none"
-------------------------------------------------------------------------------
(* docs/book/src/cookbook/cluster.md:443: "The parent run is marked `sharded` and is
   finalized to `completed`/`failed` once every shard is terminal." *)
CompletedMeansEveryShard == parent = "completed" => \A s \in Shards : shard[s] = "completed"

(* cli/tests/serve_shard_cancel.rs:1: a cancel of a sharded run "cancels the shards
   that have not started and ends the run `cancelled`". *)
CancelEndsTheRun == flag ~> Done
===============================================================================
