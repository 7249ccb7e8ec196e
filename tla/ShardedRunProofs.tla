--------------------------- MODULE ShardedRunProofs ---------------------------
(* The expansion and the end of a sharded run, for any number of instances, shards,
   reclaims and faults. *)
EXTENDS ShardedRun, TLAPS

(* What a write of a shard row, finalize_shard or release_shard, leaves. *)
LEMMA RowWritten ==
  ASSUME TypeOK, NEW i \in Instances, NEW s \in Shards,
         NEW w \in Terminal \cup {"release"}, WriteShard(i, s, w)
  PROVE  /\ shard' \in [Shards -> {"none", "pending", "running"} \cup Terminal]
         /\ sOwner' \in [Shards -> Instances \cup {Nobody}]
         /\ sLapsed' \in [Shards -> BOOLEAN]
  <1> USE DEF TypeOK, RowsOK, FlagsOK
  <1>1. CASE w = "release"
    BY <1>1 DEF WriteShard, ReleaseShardRow
  <1>2. CASE w # "release"
    BY <1>2 DEF WriteShard, FinalizeShardRow
  <1> QED
    BY <1>1, <1>2

(* What a task may become: another one, or itself at another step. *)
LEMMA TaskSet ==
  ASSUME TypeOK, NEW i \in Instances, NEW s \in Shards, NEW t \in Tasks,
         task' = [task EXCEPT ![i][s] = t]
  PROVE  task' \in [Instances -> [Shards -> Tasks]]
  BY DEF TypeOK, InstancesOK

LEMMA TaskMoved ==
  ASSUME TypeOK, NEW i \in Instances, NEW s \in Shards,
         NEW p \in {"idle", "selected", "won", "load", "work", "final", "release", "requeue"},
         task' = [task EXCEPT ![i][s].pc = p]
  PROVE  task' \in [Instances -> [Shards -> Tasks]]
  <1>1. task[i][s] \in Tasks
    BY DEF TypeOK, InstancesOK
  <1>2. [task[i][s] EXCEPT !.pc = p] \in Tasks
    BY <1>1 DEF Tasks
  <1> QED
    BY <1>2 DEF TypeOK, InstancesOK

LEMMA TypeStep ==
  ASSUME TypeOK, [Next]_vars
  PROVE  TypeOK'
  <1> USE ShardedRunAssumption
  <1> USE DEF TypeOK, prow, srow, inst, hist, Terminal, Fault, Fire
  <1>1. ASSUME NEW i \in Instances, ClaimRun(i)
        PROVE  TypeOK'
    <2>1. RowsOK'
      BY <1>1 DEF RowsOK, ClaimRun
    <2>2. InstancesOK'
      BY <1>1 DEF InstancesOK, ClaimRun
    <2>3. FlagsOK'
      BY <1>1 DEF FlagsOK, ClaimRun
    <2>4. CountsOK'
      BY <1>1 DEF CountsOK, ClaimRun
    <2> QED
      BY <2>1, <2>2, <2>3, <2>4
  <1>2. ASSUME NEW i \in Instances, Flip(i)
        PROVE  TypeOK'
    <2>1. RowsOK'
      BY <1>2 DEF RowsOK, Flip, Flipped
    <2>2. InstancesOK'
      <3>1. coord' \in [Instances -> {"idle", "won", "load", "insert", "fail"}]
        BY <1>2 DEF InstancesOK, Flip, Flipped
      <3>2. todo' \in [Instances -> SUBSET Shards]
        BY <1>2 DEF InstancesOK, Flip, Flipped
      <3> QED
        BY <1>2, <3>1, <3>2 DEF InstancesOK, Flip
    <2>3. FlagsOK'
      BY <1>2 DEF FlagsOK, Flip, Flipped
    <2>4. CountsOK'
      BY <1>2 DEF CountsOK, Flip, Flipped
    <2> QED
      BY <2>1, <2>2, <2>3, <2>4
  <1>3. ASSUME NEW i \in Instances, InsertShard(i)
        PROVE  TypeOK'
    <2>1. RowsOK'
      BY <1>3 DEF RowsOK, InsertShard, InstancesOK
    <2>2. InstancesOK'
      <3>1. coord' \in [Instances -> {"idle", "won", "load", "insert", "fail"}]
        BY <1>3 DEF InstancesOK, InsertShard
      <3>2. todo' \in [Instances -> SUBSET Shards]
        BY <1>3 DEF InstancesOK, InsertShard
      <3> QED
        BY <1>3, <3>1, <3>2 DEF InstancesOK, InsertShard
    <2>3. FlagsOK'
      BY <1>3 DEF FlagsOK, InsertShard
    <2>4. CountsOK'
      BY <1>3 DEF CountsOK, InsertShard, InstancesOK
    <2> QED
      BY <2>1, <2>2, <2>3, <2>4
  <1>4. ASSUME NEW i \in Instances, FailRun(i)
        PROVE  TypeOK'
    <2>1. RowsOK'
      BY <1>4 DEF RowsOK, FailRun, FailParent, Done
    <2>2. InstancesOK'
      BY <1>4 DEF InstancesOK, FailRun, FailParent, Done, Entries
    <2>3. FlagsOK'
      BY <1>4 DEF FlagsOK, FailRun, FailParent, Done
    <2>4. CountsOK'
      BY <1>4 DEF CountsOK, FailRun, FailParent, Done
    <2> QED
      BY <2>1, <2>2, <2>3, <2>4
  <1>5. ASSUME NEW i \in Instances, ReclaimRun(i)
        PROVE  TypeOK'
    <2>1. RowsOK'
      BY <1>5 DEF RowsOK, ReclaimRun
    <2>2. InstancesOK'
      BY <1>5 DEF InstancesOK, ReclaimRun
    <2>3. FlagsOK'
      BY <1>5 DEF FlagsOK, ReclaimRun
    <2>4. CountsOK'
      BY <1>5 DEF CountsOK, ReclaimRun
    <2> QED
      BY <2>1, <2>2, <2>3, <2>4
  <1>6. ASSUME NEW i \in Instances, CancelRequeued(i)
        PROVE  TypeOK'
    <2>1. RowsOK'
      BY <1>6 DEF RowsOK, CancelRequeued, CancelledShards
    <2>2. InstancesOK'
      BY <1>6 DEF InstancesOK, CancelRequeued, CancelledShards
    <2>3. FlagsOK'
      BY <1>6 DEF FlagsOK, CancelRequeued, CancelledShards
    <2>4. CountsOK'
      BY <1>6 DEF CountsOK, CancelRequeued, CancelledShards
    <2> QED
      BY <2>1, <2>2, <2>3, <2>4
  <1>7. ASSUME NEW i \in Instances, RetryPendingFinalize(i)
        PROVE  TypeOK'
    <2> PICK e \in queue[i] :
          /\ queue' = [queue EXCEPT ![i] = @ \ {e}]
          /\ IF e.what = "run"
             THEN FailParent(i) /\ UNCHANGED <<shard, sOwner, sLapsed>>
             ELSE WriteShard(i, e.shard, e.write) /\ UNCHANGED <<prow, hist>>
      BY <1>7 DEF RetryPendingFinalize
    <2>1. CASE e.what = "run"
      <3>1. RowsOK'
        BY <1>7, <2>1 DEF RowsOK, RetryPendingFinalize, FailParent
      <3>2. InstancesOK'
        BY <1>7 DEF InstancesOK, RetryPendingFinalize
      <3>3. FlagsOK'
        BY <1>7, <2>1 DEF FlagsOK, RetryPendingFinalize, FailParent
      <3>4. CountsOK'
        BY <1>7, <2>1 DEF CountsOK, RetryPendingFinalize, FailParent
      <3> QED
        BY <3>1, <3>2, <3>3, <3>4
    <2>2. CASE e.what # "run"
      <3> e.shard \in Shards /\ e.write \in Terminal \cup {"release"}
        BY <2>2 DEF InstancesOK, Entries
      <3>1. RowsOK'
        BY <1>7, <2>2, RowWritten DEF RowsOK, RetryPendingFinalize
      <3>2. InstancesOK'
        BY <1>7 DEF InstancesOK, RetryPendingFinalize
      <3>3. FlagsOK'
        BY <1>7, <2>2, RowWritten DEF FlagsOK, RetryPendingFinalize
      <3>4. CountsOK'
        BY <1>7, <2>2 DEF CountsOK, RetryPendingFinalize
      <3> QED
        BY <3>1, <3>2, <3>3, <3>4
    <2> QED
      BY <2>1, <2>2
  <1>8. ASSUME NEW i \in Instances, Look(i)
        PROVE  TypeOK'
    <2>1. RowsOK'
      BY <1>8 DEF RowsOK, Look
    <2>2. InstancesOK'
      BY <1>8 DEF InstancesOK, Look, ParentOutcome
    <2>3. FlagsOK'
      BY <1>8 DEF FlagsOK, Look
    <2>4. CountsOK'
      BY <1>8 DEF CountsOK, Look
    <2> QED
      BY <2>1, <2>2, <2>3, <2>4
  <1>9. ASSUME NEW i \in Instances, FinalizeParent(i)
        PROVE  TypeOK'
    <2>1. RowsOK'
      BY <1>9 DEF RowsOK, FinalizeParent, InstancesOK
    <2>2. InstancesOK'
      BY <1>9 DEF InstancesOK, FinalizeParent
    <2>3. FlagsOK'
      BY <1>9 DEF FlagsOK, FinalizeParent
    <2>4. CountsOK'
      BY <1>9 DEF CountsOK, FinalizeParent
    <2> QED
      BY <2>1, <2>2, <2>3, <2>4
  <1>10. ASSUME NEW i \in Instances, RenewLeases(i)
         PROVE  TypeOK'
    <2>1. RowsOK'
      BY <1>10 DEF RowsOK, RenewLeases
    <2>2. InstancesOK'
      BY <1>10 DEF InstancesOK, RenewLeases
    <2>3. FlagsOK'
      BY <1>10 DEF FlagsOK, RenewLeases
    <2>4. CountsOK'
      BY <1>10 DEF CountsOK, RenewLeases
    <2> QED
      BY <2>1, <2>2, <2>3, <2>4
  <1>11. ASSUME NEW i \in Instances, Crash(i)
         PROVE  TypeOK'
    <2>1. RowsOK'
      BY <1>11 DEF RowsOK, Crash, Down
    <2>2. InstancesOK'
      BY <1>11 DEF InstancesOK, Crash, Down, Tasks, Idle
    <2>3. FlagsOK'
      BY <1>11 DEF FlagsOK, Crash, Down
    <2>4. CountsOK'
      BY <1>11 DEF CountsOK, Crash, Down
    <2> QED
      BY <2>1, <2>2, <2>3, <2>4
  <1>12. ASSUME NEW i \in Instances, Stop(i)
         PROVE  TypeOK'
    <2>1. RowsOK'
      BY <1>12 DEF RowsOK, Stop
    <2>2. InstancesOK'
      <3>1. Idle \in Tasks
        BY DEF Idle, Tasks
      <3>2. task' \in [Instances -> [Shards -> Tasks]]
        BY <1>12, <3>1 DEF InstancesOK, Stop
      <3> QED
        BY <1>12, <3>2 DEF InstancesOK, Stop
    <2>3. FlagsOK'
      BY <1>12 DEF FlagsOK, Stop
    <2>4. CountsOK'
      BY <1>12 DEF CountsOK, Stop
    <2> QED
      BY <2>1, <2>2, <2>3, <2>4
  <1>13. ASSUME NEW i \in Instances, Exit(i)
         PROVE  TypeOK'
    <2>1. RowsOK'
      BY <1>13 DEF RowsOK, Exit, Down
    <2>2. InstancesOK'
      BY <1>13 DEF InstancesOK, Exit, Down, Tasks, Idle
    <2>3. FlagsOK'
      BY <1>13 DEF FlagsOK, Exit, Down
    <2>4. CountsOK'
      BY <1>13 DEF CountsOK, Exit, Down
    <2> QED
      BY <2>1, <2>2, <2>3, <2>4
  <1>14. ASSUME NEW i \in Instances, NEW s \in Shards, ClaimShard(i, s)
         PROVE  TypeOK'
    <2>1. RowsOK'
      BY <1>14 DEF RowsOK, ClaimShard
    <2>2. InstancesOK'
      <3>1. task' \in [Instances -> [Shards -> Tasks]]
        <4>1. \/ task' = [task EXCEPT ![i][s].pc = "won"]
              \/ task' = [task EXCEPT ![i][s] = Idle]
          BY <1>14 DEF ClaimShard
        <4>2. Idle \in Tasks
          BY DEF Idle, Tasks
        <4> QED
          BY <4>1, <4>2, TaskSet, TaskMoved
      <3> QED
        BY <1>14, <3>1 DEF InstancesOK, ClaimShard
    <2>3. FlagsOK'
      BY <1>14 DEF FlagsOK, ClaimShard
    <2>4. CountsOK'
      BY <1>14 DEF CountsOK, ClaimShard
    <2> QED
      BY <2>1, <2>2, <2>3, <2>4
  <1>15. ASSUME NEW i \in Instances, NEW s \in Shards, LoadShard(i, s)
         PROVE  TypeOK'
    <2>1. RowsOK'
      BY <1>15 DEF RowsOK, LoadShard
    <2>2. InstancesOK'
      <3>1. task' \in [Instances -> [Shards -> Tasks]]
        <4> PICK p \in {"work", "final"} : task' = [task EXCEPT ![i][s].pc = p]
          BY <1>15 DEF LoadShard
        <4> QED
          BY TaskMoved
      <3> QED
        BY <1>15, <3>1 DEF InstancesOK, LoadShard
    <2>3. FlagsOK'
      BY <1>15 DEF FlagsOK, LoadShard
    <2>4. CountsOK'
      BY <1>15 DEF CountsOK, LoadShard
    <2> QED
      BY <2>1, <2>2, <2>3, <2>4
  <1>16. ASSUME NEW i \in Instances, NEW s \in Shards, ShardEnds(i, s)
         PROVE  TypeOK'
    <2>1. RowsOK'
      BY <1>16 DEF RowsOK, ShardEnds
    <2>2. InstancesOK'
      BY <1>16 DEF InstancesOK, ShardEnds, Tasks
    <2>3. FlagsOK'
      BY <1>16 DEF FlagsOK, ShardEnds
    <2>4. CountsOK'
      BY <1>16 DEF CountsOK, ShardEnds
    <2> QED
      BY <2>1, <2>2, <2>3, <2>4
  <1>17. ASSUME NEW i \in Instances, NEW s \in Shards, CancelShard(i, s)
         PROVE  TypeOK'
    <2>1. RowsOK'
      BY <1>17 DEF RowsOK, CancelShard
    <2>2. InstancesOK'
      <3>1. task' \in [Instances -> [Shards -> Tasks]]
        <4>1. \/ task' = [task EXCEPT ![i][s] = [pc |-> "final", out |-> "cancelled"]]
              \/ task' = [task EXCEPT ![i][s] = [pc |-> "final", out |-> "failed"]]
          BY <1>17 DEF CancelShard, Interrupted
        <4>2. /\ [pc |-> "final", out |-> "cancelled"] \in Tasks
              /\ [pc |-> "final", out |-> "failed"] \in Tasks
          BY DEF Tasks
        <4> QED
          BY <4>1, <4>2, TaskSet
      <3> QED
        BY <1>17, <3>1 DEF InstancesOK, CancelShard
    <2>3. FlagsOK'
      BY <1>17 DEF FlagsOK, CancelShard
    <2>4. CountsOK'
      BY <1>17 DEF CountsOK, CancelShard
    <2> QED
      BY <2>1, <2>2, <2>3, <2>4
  <1>18. ASSUME NEW i \in Instances, NEW s \in Shards, ShutdownShard(i, s)
         PROVE  TypeOK'
    <2>1. RowsOK'
      BY <1>18 DEF RowsOK, ShutdownShard
    <2>2. InstancesOK'
      <3>1. task' \in [Instances -> [Shards -> Tasks]]
        <4>1. \/ task' = [task EXCEPT ![i][s] = [pc |-> "requeue", out |-> "failed"]]
              \/ task' = [task EXCEPT ![i][s] = [pc |-> "final", out |-> "failed"]]
          BY <1>18 DEF ShutdownShard, Interrupted
        <4>2. /\ [pc |-> "requeue", out |-> "failed"] \in Tasks
              /\ [pc |-> "final", out |-> "failed"] \in Tasks
          BY DEF Tasks
        <4> QED
          BY <4>1, <4>2, TaskSet
      <3> QED
        BY <1>18, <3>1 DEF InstancesOK, ShutdownShard
    <2>3. FlagsOK'
      BY <1>18 DEF FlagsOK, ShutdownShard
    <2>4. CountsOK'
      BY <1>18 DEF CountsOK, ShutdownShard
    <2> QED
      BY <2>1, <2>2, <2>3, <2>4
  <1>19. ASSUME NEW i \in Instances, NEW s \in Shards, FenceShard(i, s)
         PROVE  TypeOK'
    <2>1. RowsOK'
      BY <1>19 DEF RowsOK, FenceShard
    <2>2. InstancesOK'
      <3>1. task' \in [Instances -> [Shards -> Tasks]]
        <4>1. \/ task' = [task EXCEPT ![i][s] = [pc |-> "release", out |-> "cancelled"]]
              \/ task' = [task EXCEPT ![i][s] = [pc |-> "final", out |-> "failed"]]
          BY <1>19 DEF FenceShard, Interrupted
        <4>2. /\ [pc |-> "release", out |-> "cancelled"] \in Tasks
              /\ [pc |-> "final", out |-> "failed"] \in Tasks
          BY DEF Tasks
        <4> QED
          BY <4>1, <4>2, TaskSet
      <3> QED
        BY <1>19, <3>1 DEF InstancesOK, FenceShard
    <2>3. FlagsOK'
      BY <1>19 DEF FlagsOK, FenceShard
    <2>4. CountsOK'
      BY <1>19 DEF CountsOK, FenceShard
    <2> QED
      BY <2>1, <2>2, <2>3, <2>4
  <1>20. ASSUME NEW i \in Instances, NEW s \in Shards, FinishShard(i, s)
         PROVE  TypeOK'
    <2> DEFINE w == IF task[i][s].pc = "release" THEN "release" ELSE task[i][s].out
    <2>0. w \in Terminal \cup {"release"}
      BY DEF InstancesOK, Tasks
    <2>1. \/ WriteShard(i, s, w) /\ UNCHANGED queue
          \/ /\ queue' = [queue EXCEPT ![i] =
                           @ \cup {[what |-> "shard", shard |-> s, write |-> w]}]
             /\ UNCHANGED <<shard, sOwner, sLapsed>>
      BY <1>20 DEF FinishShard, QueueFinalize
    <2> HIDE DEF w
    <2>2. RowsOK'
      BY <1>20, <2>0, <2>1, RowWritten DEF RowsOK, FinishShard
    <2>3. InstancesOK'
      <3>1. [what |-> "shard", shard |-> s, write |-> w] \in Entries
        BY <2>0 DEF Entries
      <3>2. queue' \in [Instances -> SUBSET Entries]
        BY <2>1, <3>1 DEF InstancesOK
      <3>3. task' \in [Instances -> [Shards -> Tasks]]
        BY <1>20 DEF InstancesOK, FinishShard, Tasks, Idle
      <3> QED
        BY <1>20, <3>2, <3>3 DEF InstancesOK, FinishShard
    <2>4. FlagsOK'
      BY <1>20, <2>0, <2>1, RowWritten DEF FlagsOK, FinishShard
    <2>5. CountsOK'
      BY <1>20 DEF CountsOK, FinishShard
    <2> QED
      BY <2>2, <2>3, <2>4, <2>5
  <1>21. ASSUME NEW i \in Instances, NEW s \in Shards, RequeueShard(i, s)
         PROVE  TypeOK'
    <2>1. RowsOK'
      BY <1>21 DEF RowsOK, RequeueShard, ReleaseShardRow, Owns
    <2>2. InstancesOK'
      <3>1. task' \in [Instances -> [Shards -> Tasks]]
        <4>1. \/ task' = [task EXCEPT ![i][s] = Idle]
              \/ task' = [task EXCEPT ![i][s].pc = "final"]
          BY <1>21 DEF RequeueShard
        <4>2. Idle \in Tasks
          BY DEF Idle, Tasks
        <4> QED
          BY <4>1, <4>2, TaskSet, TaskMoved
      <3> QED
        BY <1>21, <3>1 DEF InstancesOK, RequeueShard
    <2>3. FlagsOK'
      BY <1>21 DEF FlagsOK, RequeueShard, ReleaseShardRow
    <2>4. CountsOK'
      BY <1>21 DEF CountsOK, RequeueShard
    <2> QED
      BY <2>1, <2>2, <2>3, <2>4
  <1>22. ASSUME NEW i \in Instances, NEW s \in Shards, ReclaimShard(i, s)
         PROVE  TypeOK'
    <2>1. RowsOK'
      BY <1>22 DEF RowsOK, ReclaimShard
    <2>2. InstancesOK'
      BY <1>22 DEF InstancesOK, ReclaimShard
    <2>3. FlagsOK'
      BY <1>22 DEF FlagsOK, ReclaimShard
    <2>4. CountsOK'
      BY <1>22 DEF CountsOK, ReclaimShard
    <2> QED
      BY <2>1, <2>2, <2>3, <2>4
  <1>23. ASSUME NEW s \in Shards, LapseShard(s)
         PROVE  TypeOK'
    <2>1. RowsOK'
      BY <1>23 DEF RowsOK, LapseShard, Lapses
    <2>2. InstancesOK'
      BY <1>23 DEF InstancesOK, LapseShard, Lapses
    <2>3. FlagsOK'
      BY <1>23 DEF FlagsOK, LapseShard, Lapses
    <2>4. CountsOK'
      BY <1>23 DEF CountsOK, LapseShard, Lapses
    <2> QED
      BY <2>1, <2>2, <2>3, <2>4
  <1>24. CASE LapseRun
    <2>1. RowsOK'
      BY <1>24 DEF RowsOK, LapseRun, Lapses
    <2>2. InstancesOK'
      BY <1>24 DEF InstancesOK, LapseRun, Lapses
    <2>3. FlagsOK'
      BY <1>24 DEF FlagsOK, LapseRun, Lapses
    <2>4. CountsOK'
      BY <1>24 DEF CountsOK, LapseRun, Lapses
    <2> QED
      BY <2>1, <2>2, <2>3, <2>4
  <1>25. CASE CancelRun
    <2>1. RowsOK'
      BY <1>25 DEF RowsOK, CancelRun
    <2>2. InstancesOK'
      BY <1>25 DEF InstancesOK, CancelRun
    <2>3. FlagsOK'
      BY <1>25 DEF FlagsOK, CancelRun
    <2>4. CountsOK'
      BY <1>25 DEF CountsOK, CancelRun
    <2> QED
      BY <2>1, <2>2, <2>3, <2>4
  <1>26. CASE RequestCancel
    <2>1. RowsOK'
      BY <1>26 DEF RowsOK, RequestCancel, CancelledShards
    <2>2. InstancesOK'
      BY <1>26 DEF InstancesOK, RequestCancel, CancelledShards
    <2>3. FlagsOK'
      BY <1>26 DEF FlagsOK, RequestCancel, CancelledShards
    <2>4. CountsOK'
      BY <1>26 DEF CountsOK, RequestCancel, CancelledShards
    <2> QED
      BY <2>1, <2>2, <2>3, <2>4
  <1>27. CASE UNCHANGED vars
    BY <1>27 DEF vars, RowsOK, InstancesOK, FlagsOK, CountsOK
  <1>28. ASSUME NEW i \in Instances, DispatchRun(i)
         PROVE  TypeOK'
    <2>1. RowsOK'
      BY <1>28 DEF RowsOK, DispatchRun
    <2>2. InstancesOK'
      BY <1>28 DEF InstancesOK, DispatchRun
    <2>3. FlagsOK'
      BY <1>28 DEF FlagsOK, DispatchRun
    <2>4. CountsOK'
      BY <1>28 DEF CountsOK, DispatchRun
    <2> QED
      BY <2>1, <2>2, <2>3, <2>4
  <1>29. ASSUME NEW i \in Instances, NEW s \in Shards, SelectShard(i, s)
         PROVE  TypeOK'
    <2>1. RowsOK'
      BY <1>29 DEF RowsOK, SelectShard
    <2>2. InstancesOK'
      <3>1. task' \in [Instances -> [Shards -> Tasks]]
        BY <1>29, TaskMoved DEF SelectShard
      <3> QED
        BY <1>29, <3>1 DEF InstancesOK, SelectShard
    <2>3. FlagsOK'
      BY <1>29 DEF FlagsOK, SelectShard
    <2>4. CountsOK'
      BY <1>29 DEF CountsOK, SelectShard
    <2> QED
      BY <2>1, <2>2, <2>3, <2>4
  <1>30. ASSUME NEW i \in Instances, NEW s \in Shards, DispatchShard(i, s)
         PROVE  TypeOK'
    <2>1. RowsOK'
      BY <1>30 DEF RowsOK, DispatchShard
    <2>2. InstancesOK'
      <3>1. task' \in [Instances -> [Shards -> Tasks]]
        BY <1>30, TaskMoved DEF DispatchShard
      <3> QED
        BY <1>30, <3>1 DEF InstancesOK, DispatchShard
    <2>3. FlagsOK'
      BY <1>30 DEF FlagsOK, DispatchShard
    <2>4. CountsOK'
      BY <1>30 DEF CountsOK, DispatchShard
    <2> QED
      BY <2>1, <2>2, <2>3, <2>4
  <1> QED
    BY <1>1, <1>2, <1>3, <1>4, <1>5, <1>6, <1>7, <1>8, <1>9, <1>10, <1>11, <1>12,
       <1>13, <1>14, <1>15, <1>16, <1>17, <1>18, <1>19, <1>20, <1>21, <1>22, <1>23,
       <1>24, <1>25, <1>26, <1>27, <1>28, <1>29, <1>30
       DEF Next, Claim, Coordinate, Work

LEMMA TypeInit == Init => TypeOK
  <1> SUFFICES ASSUME Init PROVE TypeOK
    OBVIOUS
  <1>1. RowsOK
    BY DEF Init, RowsOK, Terminal
  <1>2. InstancesOK
    BY DEF Init, InstancesOK, Tasks, Idle, Terminal
  <1>3. FlagsOK
    BY DEF Init, FlagsOK
  <1>4. CountsOK
    BY ShardedRunAssumption DEF Init, CountsOK
  <1> QED
    BY <1>1, <1>2, <1>3, <1>4 DEF TypeOK

(* Every variable keeps its type in every behaviour of a sharded run. *)
THEOREM TypeCorrect == Spec => []TypeOK
  <1> QED
    BY TypeInit, TypeStep, PTL DEF Spec
-------------------------------------------------------------------------------
(* A coordinator inserts only once the run is past the statuses that orphan recovery
   requeues. *)
InsertsAfterFlip ==
  \A i \in Instances : coord[i] = "insert" => parent \notin {"pending", "running"}

Expanded == NoShardBeforeSharded /\ InsertsAfterFlip

(* No step takes a row back, and only an insert makes one. *)
RowsStay ==
  \A s \in Shards : shard[s] = "none" => shard'[s] = "none"

(* A terminal row stays as it is. *)
TerminalStays ==
  \A s \in Shards : shard[s] \in Terminal => shard'[s] = shard[s]

(* A write of a shard row finds it running. *)
LEMMA WriteFindsRunning ==
  ASSUME TypeOK, NEW i \in Instances, NEW s \in Shards, NEW w, WriteShard(i, s, w)
  PROVE  RowsStay /\ TerminalStays
  <1> USE DEF TypeOK, RowsOK, Terminal, Owns, RowsStay, TerminalStays
  <1>1. CASE w = "release"
    BY <1>1 DEF WriteShard, ReleaseShardRow
  <1>2. CASE w # "release"
    BY <1>2 DEF WriteShard, FinalizeShardRow
  <1> QED
    BY <1>1, <1>2

LEMMA ShardStep ==
  ASSUME TypeOK, [Next]_vars
  PROVE  /\ TerminalStays
         /\ RowsStay \/ \E i \in Instances : InsertShard(i)
  <1> USE DEF TypeOK, RowsOK, Terminal, prow, srow, RowsStay, TerminalStays
  <1>1. ASSUME NEW i \in Instances, InsertShard(i)
        PROVE  TerminalStays
    BY <1>1 DEF InsertShard
  <1>2. ASSUME NEW i \in Instances, CancelRequeued(i)
        PROVE  RowsStay /\ TerminalStays
    BY <1>2 DEF CancelRequeued, CancelledShards
  <1>3. ASSUME NEW i \in Instances, RetryPendingFinalize(i)
        PROVE  RowsStay /\ TerminalStays
    <2> PICK e \in queue[i] :
          IF e.what = "run" THEN UNCHANGED shard ELSE WriteShard(i, e.shard, e.write)
      BY <1>3 DEF RetryPendingFinalize
    <2>1. e.what # "run" => e.shard \in Shards
      BY DEF InstancesOK, Entries
    <2> QED
      BY <2>1, WriteFindsRunning
  <1>4. ASSUME NEW i \in Instances, NEW s \in Shards,
               ClaimShard(i, s) \/ ReclaimShard(i, s)
        PROVE  RowsStay /\ TerminalStays
    BY <1>4 DEF ClaimShard, ReclaimShard
  <1>5. ASSUME NEW i \in Instances, NEW s \in Shards, FinishShard(i, s)
        PROVE  RowsStay /\ TerminalStays
    BY <1>5, WriteFindsRunning DEF FinishShard
  <1>6. ASSUME NEW i \in Instances, NEW s \in Shards, RequeueShard(i, s)
        PROVE  RowsStay /\ TerminalStays
    BY <1>6 DEF RequeueShard, ReleaseShardRow, Owns
  <1>7. CASE RequestCancel
    BY <1>7 DEF RequestCancel, CancelledShards
  <1>8. ASSUME NEW i \in Instances,
               \/ ClaimRun(i) \/ DispatchRun(i) \/ Flip(i) \/ FailRun(i) \/ ReclaimRun(i)
               \/ Look(i) \/ FinalizeParent(i) \/ RenewLeases(i) \/ Crash(i) \/ Stop(i)
               \/ Exit(i)
        PROVE  UNCHANGED shard
    BY <1>8 DEF ClaimRun, DispatchRun, Flip, FailRun, ReclaimRun, Look, FinalizeParent,
                RenewLeases, Crash, Stop, Exit, Down
  <1>9. ASSUME NEW i \in Instances, NEW s \in Shards,
               \/ SelectShard(i, s) \/ DispatchShard(i, s) \/ LoadShard(i, s)
               \/ ShardEnds(i, s) \/ CancelShard(i, s) \/ ShutdownShard(i, s)
               \/ FenceShard(i, s)
        PROVE  UNCHANGED shard
    BY <1>9 DEF SelectShard, DispatchShard, LoadShard, ShardEnds, CancelShard, ShutdownShard,
                FenceShard
  <1>10. ASSUME \/ \E s \in Shards : LapseShard(s)
                \/ LapseRun \/ CancelRun \/ UNCHANGED vars
         PROVE  UNCHANGED shard
    BY <1>10 DEF LapseShard, LapseRun, CancelRun, vars
  <1> QED
    BY <1>1, <1>2, <1>3, <1>4, <1>5, <1>6, <1>7, <1>8, <1>9, <1>10
       DEF Next, Claim, Coordinate, Work
-------------------------------------------------------------------------------
(* The failure of the run is queued at i. *)
RunQueued(i) == \E e \in queue[i] : e.what = "run"

(* What the steps that are not about the run itself leave alone. *)
Aside ==
  /\ UNCHANGED <<parent, pOwner, coord, up, seen, looked, late, callbacks>>
  /\ pLapsed' => pLapsed
  /\ overrun => overrun'
  /\ \A i \in Instances : RunQueued(i)' => RunQueued(i)

LEMMA Frame ==
  ASSUME TypeOK, [Next]_vars
  PROVE  \/ \E i \in Instances :
              \/ ClaimRun(i) \/ DispatchRun(i) \/ Flip(i) \/ InsertShard(i) \/ FailRun(i)
              \/ RetryPendingFinalize(i) \/ Look(i) \/ FinalizeParent(i) \/ ReclaimRun(i)
              \/ Crash(i) \/ Stop(i) \/ Exit(i)
         \/ LapseRun \/ CancelRun
         \/ Aside
  <1> USE DEF Aside, RunQueued, prow, srow, inst, hist
  <1>1. ASSUME NEW i \in Instances, CancelRequeued(i)
        PROVE  Aside
    BY <1>1 DEF CancelRequeued
  <1>2. ASSUME NEW i \in Instances, RenewLeases(i)
        PROVE  Aside
    BY <1>2 DEF RenewLeases
  <1>3. ASSUME NEW i \in Instances, NEW s \in Shards,
               \/ Claim(i, s) \/ LoadShard(i, s) \/ ShardEnds(i, s) \/ CancelShard(i, s)
               \/ ShutdownShard(i, s) \/ FenceShard(i, s) \/ RequeueShard(i, s)
               \/ ReclaimShard(i, s)
        PROVE  Aside
    BY <1>3 DEF Claim, SelectShard, ClaimShard, DispatchShard, LoadShard, ShardEnds,
                CancelShard, ShutdownShard, FenceShard, RequeueShard, ReclaimShard
  <1>4. ASSUME NEW i \in Instances, NEW s \in Shards, FinishShard(i, s)
        PROVE  Aside
    <2>1. \A j \in Instances : RunQueued(j)' => RunQueued(j)
      BY <1>4 DEF FinishShard, QueueFinalize, TypeOK, InstancesOK
    <2> QED
      BY <1>4, <2>1 DEF FinishShard
  <1>5. ASSUME NEW s \in Shards, LapseShard(s)
        PROVE  Aside
    BY <1>5 DEF LapseShard, Lapses
  <1>6. CASE RequestCancel \/ UNCHANGED vars
    BY <1>6 DEF RequestCancel, vars
  <1> QED
    BY <1>1, <1>2, <1>3, <1>4, <1>5, <1>6 DEF Next, Claim, Coordinate, Work

LEMMA ExpandedStep ==
  ASSUME TypeOK, Expanded, [Next]_vars
  PROVE  Expanded'
  <1> DEFINE Past == parent \notin {"pending", "running"}
  <1> DEFINE Flips == \A i \in Instances :
                        coord'[i] = "insert" => coord[i] = "insert" \/ parent' = "sharded"
  <1>1. Past => Past'
    <2> USE DEF TypeOK, InstancesOK, Terminal, prow
    <2>1. ASSUME NEW i \in Instances, RetryPendingFinalize(i) \/ FailRun(i)
          PROVE  Past => Past'
      BY <2>1 DEF RetryPendingFinalize, FailRun, FailParent
    <2>2. ASSUME NEW i \in Instances,
                 \/ ClaimRun(i) \/ DispatchRun(i) \/ Flip(i) \/ InsertShard(i) \/ Look(i)
                 \/ ReclaimRun(i)
          PROVE  Past => Past'
      BY <2>2 DEF ClaimRun, DispatchRun, Flip, Flipped, InsertShard, Look, ReclaimRun
    <2>3. ASSUME NEW i \in Instances, FinalizeParent(i)
          PROVE  Past => Past'
      BY <2>3 DEF FinalizeParent
    <2>4. ASSUME NEW i \in Instances, Crash(i) \/ Stop(i) \/ Exit(i)
          PROVE  Past => Past'
      BY <2>4 DEF Crash, Stop, Exit, Down
    <2> QED
      BY <2>1, <2>2, <2>3, <2>4, Frame DEF Aside, LapseRun, CancelRun
  <1>2. Flips
    <2> USE DEF TypeOK, InstancesOK, inst
    <2>1. ASSUME NEW j \in Instances, Flip(j)
          PROVE  Flips
      BY <2>1 DEF Flip, Flipped
    <2>2. ASSUME NEW j \in Instances,
                 \/ ClaimRun(j) \/ DispatchRun(j) \/ InsertShard(j) \/ FailRun(j)
                 \/ RetryPendingFinalize(j) \/ Look(j) \/ FinalizeParent(j) \/ ReclaimRun(j)
          PROVE  Flips
      BY <2>2 DEF ClaimRun, DispatchRun, InsertShard, FailRun, RetryPendingFinalize, Look,
                  FinalizeParent, ReclaimRun
    <2>3. ASSUME NEW j \in Instances, Crash(j) \/ Stop(j) \/ Exit(j)
          PROVE  Flips
      BY <2>3 DEF Crash, Stop, Exit, Down
    <2> QED
      BY <2>1, <2>2, <2>3, Frame DEF Aside, LapseRun, CancelRun
  <1>3. NoShardBeforeSharded'
    <2>1. ASSUME NEW i \in Instances, InsertShard(i)
          PROVE  Past'
      BY <2>1, <1>1 DEF InsertShard, Expanded, InsertsAfterFlip
    <2>2. CASE RowsStay
      BY <2>2, <1>1 DEF RowsStay, NoShardBeforeSharded, Rows, Expanded
    <2> QED
      BY <2>1, <2>2, ShardStep DEF NoShardBeforeSharded
  <1>4. InsertsAfterFlip'
    BY <1>1, <1>2 DEF Expanded, InsertsAfterFlip
  <1> QED
    BY <1>3, <1>4 DEF Expanded

(* No shard row exists while orphan recovery may still requeue or fail the run
   (coordinate_sharded_run flips before it inserts). *)
THEOREM FlipBeforeInsert == Spec => []NoShardBeforeSharded
  <1>1. Init => Expanded
    BY DEF Init, Expanded, NoShardBeforeSharded, InsertsAfterFlip, Rows
  <1>2. TypeOK /\ Expanded /\ [Next]_vars => Expanded'
    BY ExpandedStep
  <1>3. Expanded => NoShardBeforeSharded
    BY DEF Expanded
  <1> QED
    BY <1>1, <1>2, <1>3, TypeCorrect, PTL DEF Spec
-------------------------------------------------------------------------------
(* Whoever saw every row terminal saw what the rows still are, but for the late ones;
   and a completed run was seen. *)
Honest ==
  /\ \A i \in Instances : seen[i] # {} => looked
  /\ looked => \A s \in Rows \ late : shard[s] \in Terminal
  /\ \A i \in Instances : "completed" \in seen[i] =>
       \A s \in Rows \ late : shard[s] = "completed"
  /\ parent = "completed" => looked
  /\ OutcomeIsHonest

(* The rows that count grow until somebody has seen them all terminal. *)
LEMMA OldRows ==
  ASSUME TypeOK, [Next]_vars
  PROVE  /\ looked => looked'
         /\ looked => Rows' \ late' \subseteq Rows \ late
         /\ Rows' \ late' \subseteq Rows \ late \/ \E i \in Instances : InsertShard(i)
  <1> USE DEF prow, srow, inst, hist
  <1>1. ASSUME NEW i \in Instances, InsertShard(i)
        PROVE  /\ looked => looked'
               /\ looked => Rows' \ late' \subseteq Rows \ late
    BY <1>1 DEF InsertShard, Rows, TypeOK, RowsOK, InstancesOK
  <1>2. ASSUME NEW i \in Instances,
               \/ ClaimRun(i) \/ DispatchRun(i) \/ Flip(i) \/ Look(i) \/ FinalizeParent(i)
               \/ ReclaimRun(i)
        PROVE  (looked => looked') /\ late' = late
    BY <1>2 DEF ClaimRun, DispatchRun, Flip, Look, FinalizeParent, ReclaimRun
  <1>3. ASSUME NEW i \in Instances, FailRun(i) \/ RetryPendingFinalize(i)
        PROVE  (looked => looked') /\ late' = late
    BY <1>3 DEF FailRun, RetryPendingFinalize, FailParent
  <1>4. ASSUME NEW i \in Instances, Crash(i) \/ Stop(i) \/ Exit(i)
        PROVE  (looked => looked') /\ late' = late
    BY <1>4 DEF Crash, Stop, Exit, Down
  <1>5. ASSUME LapseRun \/ CancelRun \/ Aside
        PROVE  (looked => looked') /\ late' = late
    BY <1>5 DEF LapseRun, CancelRun, Aside
  <1>6. RowsStay => Rows' \subseteq Rows
    BY DEF RowsStay, Rows
  <1> QED
    BY <1>1, <1>2, <1>3, <1>4, <1>5, <1>6, Frame, ShardStep

LEMMA HonestStep ==
  ASSUME TypeOK, Honest, [Next]_vars
  PROVE  Honest'
  <1> USE DEF Honest, OutcomeIsHonest
  <1> DEFINE Settled == \A s \in Rows \ late : shard[s] \in Terminal
             Good == \A s \in Rows \ late : shard[s] = "completed"
  <1>1. looked => looked' /\ (Settled => Settled') /\ (Good => Good')
    BY OldRows, ShardStep DEF TerminalStays, Rows, Terminal
  <1>2. ASSUME \A i \in Instances : seen'[i] \subseteq seen[i],
               parent' = "completed" => parent = "completed",
               looked' = looked
        PROVE  Honest'
    BY <1>1, <1>2
  <1> USE DEF TypeOK, InstancesOK, prow, srow, inst, hist
  <1>3. ASSUME NEW i \in Instances, Look(i)
        PROVE  Honest'
    <2>1. seen' = [seen EXCEPT ![i] = @ \cup {ParentOutcome}] /\ looked'
      BY <1>3 DEF Look
    <2>2. shard' = shard /\ late' = late /\ parent' = parent
      BY <1>3 DEF Look
    <2>3. Settled /\ (ParentOutcome = "completed" => Good)
      BY <1>3 DEF Look, AllTerminal, ParentOutcome, Terminal
    <2> QED
      BY <2>1, <2>2, <2>3 DEF Rows
  <1>4. ASSUME NEW i \in Instances, FinalizeParent(i)
        PROVE  Honest'
    <2> PICK o \in seen[i] :
          /\ seen' = [seen EXCEPT ![i] = @ \ {o}]
          /\ parent' = o \/ parent' = parent
      BY <1>4 DEF FinalizeParent
    <2>1. shard' = shard /\ late' = late /\ looked' = looked
      BY <1>4 DEF FinalizeParent
    <2> QED
      BY <2>1 DEF Rows
  <1>5. ASSUME NEW i \in Instances,
               \/ ClaimRun(i) \/ DispatchRun(i) \/ Flip(i) \/ InsertShard(i) \/ ReclaimRun(i)
        PROVE  Honest'
    BY <1>2, <1>5 DEF ClaimRun, DispatchRun, Flip, Flipped, InsertShard, ReclaimRun
  <1>6. ASSUME NEW i \in Instances, FailRun(i) \/ RetryPendingFinalize(i)
        PROVE  Honest'
    BY <1>2, <1>6 DEF FailRun, RetryPendingFinalize, FailParent
  <1>7. ASSUME NEW i \in Instances, Crash(i) \/ Stop(i) \/ Exit(i)
        PROVE  Honest'
    BY <1>2, <1>7 DEF Crash, Stop, Exit, Down
  <1>8. CASE LapseRun \/ CancelRun \/ Aside
    BY <1>2, <1>8 DEF LapseRun, CancelRun, Aside
  <1> QED
    BY <1>3, <1>4, <1>5, <1>6, <1>7, <1>8, Frame

(* The outcome of a run that completed is that of every row but the late ones, however
   long it takes from the read of the progress to the write
   (finalize_sharded_parent). *)
THEOREM OutcomesAreHonest == Spec => []OutcomeIsHonest
  <1>1. Init => Honest
    BY DEF Init, Honest, OutcomeIsHonest
  <1>2. TypeOK /\ Honest /\ [Next]_vars => Honest'
    BY HonestStep
  <1>3. Honest => OutcomeIsHonest
    BY DEF Honest
  <1> QED
    BY <1>1, <1>2, <1>3, TypeCorrect, PTL DEF Spec
-------------------------------------------------------------------------------
(* i still acts for the run it claimed. *)
Leads(i) == coord[i] # "idle" \/ RunQueued(i)

(* While no lease lapsed under a live owner, whoever leads is the owner of the run, is
   alive and does one thing at a time, and only the lease of a dead owner lapses; and a
   callback was fired only for a run that is over. *)
Lead ==
  ~overrun =>
    /\ \A i \in Instances : Leads(i) => pOwner = i /\ parent # "pending" /\ up[i] # "down"
    /\ \A i \in Instances : coord[i] \in {"won", "load"} => parent = "running"
    /\ \A i \in Instances : coord[i] # "idle" => ~RunQueued(i)
    /\ pLapsed => pOwner \in Instances /\ up[pOwner] = "down"
    /\ callbacks = 0 \/ (callbacks = 1 /\ Done)

LEMMA LeadStep ==
  ASSUME TypeOK, Lead, [Next]_vars
  PROVE  Lead'
  <1> USE ShardedRunAssumption
  <1> USE DEF Lead, Leads, RunQueued, Done, Terminal, TypeOK, RowsOK, InstancesOK, prow, srow,
              inst, hist
  <1>1. ASSUME NEW i \in Instances, ClaimRun(i)
        PROVE  Lead'
    BY <1>1 DEF ClaimRun
  <1>2. ASSUME NEW i \in Instances, Flip(i)
        PROVE  Lead'
    <2> SUFFICES ASSUME ~overrun
                 PROVE  Lead'
      BY <1>2 DEF Flip
    <2>1. /\ pOwner = i /\ parent = "running" /\ up[i] # "down" /\ ~pLapsed
          /\ callbacks = 0 /\ ~RunQueued(i)
          /\ \A j \in Instances \ {i} : ~Leads(j)
      BY <1>2 DEF Flip
    <2>2. /\ pOwner' = i /\ ~pLapsed' /\ parent' \in {"running", "sharded"}
          /\ UNCHANGED <<up, queue, callbacks>>
      BY <1>2, <2>1 DEF Flip, Flipped
    <2>3. \E c \in {"insert", "fail"} : coord' = [coord EXCEPT ![i] = c]
      BY <1>2 DEF Flip
    <2> QED
      BY <2>1, <2>2, <2>3
  <1>3. ASSUME NEW i \in Instances, InsertShard(i)
        PROVE  Lead'
    BY <1>3 DEF InsertShard
  <1>4. ASSUME NEW i \in Instances, FailRun(i)
        PROVE  Lead'
    BY <1>4 DEF FailRun, FailParent, Fire
  <1>5. ASSUME NEW i \in Instances, RetryPendingFinalize(i)
        PROVE  Lead'
    <2> PICK e \in queue[i] :
          /\ queue' = [queue EXCEPT ![i] = @ \ {e}]
          /\ IF e.what = "run" THEN FailParent(i) ELSE UNCHANGED <<prow, hist>>
      BY <1>5 DEF RetryPendingFinalize
    <2>1. UNCHANGED <<coord, up>>
      BY <1>5 DEF RetryPendingFinalize
    <2>2. \A j \in Instances : RunQueued(j)' => RunQueued(j)
      OBVIOUS
    <2>3. CASE e.what = "run"
      BY <2>1, <2>2, <2>3 DEF FailParent, Fire
    <2>4. CASE e.what # "run"
      BY <2>1, <2>2, <2>4
    <2> QED
      BY <2>3, <2>4
  <1>6. ASSUME NEW i \in Instances, Look(i)
        PROVE  Lead'
    BY <1>6 DEF Look
  <1>7. ASSUME NEW i \in Instances, FinalizeParent(i)
        PROVE  Lead'
    <2>1. UNCHANGED <<pOwner, pLapsed, up, coord, queue, overrun>>
      BY <1>7 DEF FinalizeParent
    <2>2. CASE UNCHANGED <<parent, callbacks>>
      BY <2>1, <2>2
    <2>3. CASE Finalizable /\ parent' \in Terminal /\ Fire
      BY <2>1, <2>3 DEF Finalizable, Fire
    <2> QED
      BY <1>7, <2>2, <2>3 DEF FinalizeParent
  <1>8. ASSUME NEW i \in Instances, ReclaimRun(i)
        PROVE  Lead'
    BY <1>8 DEF ReclaimRun
  <1>9. ASSUME NEW i \in Instances, Crash(i) \/ Stop(i) \/ Exit(i)
        PROVE  Lead'
    <2>1. CASE Stop(i)
      BY <2>1 DEF Stop
    <2>2. CASE Down(i)
      <3>1. UNCHANGED <<parent, pOwner, pLapsed, overrun, callbacks>>
        BY <2>2 DEF Down
      <3>2. ~Leads(i)'
        BY <2>2 DEF Down
      <3>3. \A j \in Instances \ {i} :
              coord'[j] = coord[j] /\ queue'[j] = queue[j] /\ up'[j] = up[j]
        BY <2>2 DEF Down
      <3>4. up'[i] = "down"
        BY <2>2 DEF Down
      <3> QED
        BY <3>1, <3>2, <3>3, <3>4
    <2> QED
      BY <1>9, <2>1, <2>2 DEF Crash, Exit
  <1>10. CASE LapseRun
    BY <1>10 DEF LapseRun, Lapses
  <1>11. CASE CancelRun
    BY <1>11 DEF CancelRun, Fire
  <1>12. CASE Aside
    BY <1>12 DEF Aside
  <1>13. ASSUME NEW i \in Instances, DispatchRun(i)
         PROVE  Lead'
    BY <1>13 DEF DispatchRun
  <1> QED
    BY <1>1, <1>2, <1>3, <1>4, <1>5, <1>6, <1>7, <1>8, <1>9, <1>10, <1>11, <1>12, <1>13,
       Frame

LEMMA FinalizedOnceStep ==
  ASSUME TypeOK, Lead, [Next]_vars
  PROVE  /\ Done => parent' = parent \/ overrun
         /\ callbacks' > 1 => overrun
  <1>0. callbacks' <= 1 => ~(callbacks' > 1)
    BY TypeStep DEF TypeOK, CountsOK
  <1> SUFFICES ASSUME ~overrun
               PROVE  /\ Done => parent' = parent
                      /\ callbacks' <= 1
    BY <1>0
  <1> USE DEF Lead, Done, Terminal, Fire, prow, srow, inst, hist
  <1>1. ASSUME NEW i \in Instances,
               \/ ClaimRun(i) \/ DispatchRun(i) \/ ReclaimRun(i) \/ InsertShard(i) \/ Look(i)
        PROVE  (Done => parent' = parent) /\ callbacks' <= 1
    BY <1>1 DEF ClaimRun, DispatchRun, ReclaimRun, InsertShard, Look
  <1>2. ASSUME NEW i \in Instances, Flip(i)
        PROVE  (Done => parent' = parent) /\ callbacks' <= 1
    BY <1>2 DEF Flip
  <1>3. ASSUME NEW i \in Instances, FailRun(i) \/ RetryPendingFinalize(i)
        PROVE  (Done => parent' = parent) /\ callbacks' <= 1
    BY <1>3 DEF FailRun, RetryPendingFinalize, FailParent
  <1>4. ASSUME NEW i \in Instances, FinalizeParent(i)
        PROVE  (Done => parent' = parent) /\ callbacks' <= 1
    BY <1>4 DEF FinalizeParent, Finalizable
  <1>5. ASSUME NEW i \in Instances, Crash(i) \/ Stop(i) \/ Exit(i)
        PROVE  (Done => parent' = parent) /\ callbacks' <= 1
    BY <1>5 DEF Crash, Stop, Exit, Down
  <1>6. CASE LapseRun \/ CancelRun \/ Aside
    BY <1>6 DEF LapseRun, CancelRun, Aside
  <1> QED
    BY <1>1, <1>2, <1>3, <1>4, <1>5, <1>6, Frame

(* A run that was finalized stays so and has one callback, unless a lease lapsed under
   a live owner: neither the reclaim of a dead coordinator nor two workers that see the
   last shards end can make it two. *)
THEOREM FinalizedOnce == Spec => ParentIsFinalizedOnce
  <1>1. Init => Lead
    BY DEF Init, Lead, Leads, RunQueued, Done, Terminal
  <1>2. TypeOK /\ Lead /\ [Next]_vars => Lead'
    BY LeadStep
  <1>3. TypeOK /\ Lead /\ [Next]_vars =>
          [/\ Done => parent' = parent \/ overrun
           /\ callbacks' > 1 => overrun]_vars
    BY FinalizedOnceStep
  <1> QED
    BY <1>1, <1>2, <1>3, TypeCorrect, PTL DEF Spec, ParentIsFinalizedOnce
===============================================================================
