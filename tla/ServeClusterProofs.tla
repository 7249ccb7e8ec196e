-------------------------- MODULE ServeClusterProofs --------------------------
(* Whole runs on a cluster, for any number of instances, runs, permits, reclaims and
   faults. *)
EXTENDS ServeCluster, SequenceTheorems, TLAPS

LEMMA FreeTask == Free \in Tasks
  BY ServeClusterAssumption DEF Free, Tasks, Outcomes

(* What a task may become: another one, or itself at another step. *)
LEMMA TaskSet ==
  ASSUME TypeOK, NEW i \in Instances, NEW k \in Permits, NEW t \in Tasks,
         task' = [task EXCEPT ![i][k] = t]
  PROVE  task' \in [Instances -> [Permits -> Tasks]]
  BY DEF TypeOK, InstancesOK

Steps == {"free", "won", "load", "start", "work", "flush", "final", "release", "requeue", "close"}

LEMMA TaskMoved ==
  ASSUME TypeOK, NEW i \in Instances, NEW k \in Permits, NEW p \in Steps,
         task' = [task EXCEPT ![i][k].pc = p]
  PROVE  task' \in [Instances -> [Permits -> Tasks]]
  <1>1. task[i][k] \in Tasks
    BY DEF TypeOK, InstancesOK
  <1>2. [task[i][k] EXCEPT !.pc = p] \in Tasks
    BY <1>1 DEF Tasks, Steps
  <1> QED
    BY <1>2 DEF TypeOK, InstancesOK

LEMMA TokenSet ==
  ASSUME TypeOK, NEW i \in Instances, NEW r \in Runs, NEW k \in Permits \cup {0},
         token' = [token EXCEPT ![i][r] = k]
  PROVE  token' \in [Instances -> [Runs -> Permits \cup {0}]]
  BY DEF TypeOK, InstancesOK

LEMMA CancelledTasks ==
  ASSUME TypeOK, NEW i \in Instances, NEW rs, task' = Cancelled(i, rs)
  PROVE  task' \in [Instances -> [Permits -> Tasks]]
  <1>1. ASSUME NEW t \in Tasks
        PROVE  [t EXCEPT !.cancelled = TRUE] \in Tasks
    BY DEF Tasks
  <1> QED
    BY <1>1 DEF Cancelled, TypeOK, InstancesOK

LEMMA TaskStep ==
  ASSUME TypeOK, [Next]_vars
  PROVE  task' \in [Instances -> [Permits -> Tasks]]
  <1> DEFINE Good == task' \in [Instances -> [Permits -> Tasks]]
  <1> USE DEF row, loop, hist, cancels
  <1>1. ASSUME NEW i \in Instances, NEW r \in Runs, Claim(i, r)
        PROVE  Good
    <2>1. PICK k \in Permits :
            task' = [task EXCEPT ![i][k] = [Free EXCEPT !.pc = "won", !.run = r]]
      BY <1>1 DEF Claim
    <2>2. [Free EXCEPT !.pc = "won", !.run = r] \in Tasks
      BY FreeTask DEF Tasks
    <2> QED
      BY <2>1, <2>2, TaskSet
  <1>2. ASSUME NEW i \in Instances, NEW k \in Permits,
               Load(i, k) \/ Start(i, k) \/ Requeue(i, k)
        PROVE  Good
    <2>1. \E p \in Steps : task' = [task EXCEPT ![i][k].pc = p]
      BY <1>2 DEF Load, Start, Requeue, Steps
    <2> QED
      BY <2>1, TaskMoved
  <1>3. ASSUME NEW i \in Instances, NEW k \in Permits,
               \/ WorkEnds(i, k) \/ Interrupt(i, k) \/ FlushEnds(i, k)
               \/ WriteOutcome(i, k) \/ Close(i, k)
        PROVE  Good
    <2>1. task[i][k] \in Tasks /\ fenced[i] \in BOOLEAN
      BY DEF TypeOK, InstancesOK, FlagsOK
    <2>2. CASE WorkEnds(i, k)
      <3>1. PICK o \in {"completed", "failed"} :
              task' = [task EXCEPT ![i][k] = [@ EXCEPT !.pc = "final", !.out = o,
                                                       !.cancelled = FALSE]]
        BY <2>2 DEF WorkEnds
      <3>2. [task[i][k] EXCEPT !.pc = "final", !.out = o, !.cancelled = FALSE] \in Tasks
        BY <2>1 DEF Tasks, Outcomes
      <3> QED
        BY <3>1, <3>2, TaskSet
    <2>3. CASE Interrupt(i, k)
      <3>1. /\ [task[i][k] EXCEPT !.pc = "flush", !.fence = fenced[i], !.out = "cancelled",
                                  !.cancelled = FALSE] \in Tasks
            /\ [task[i][k] EXCEPT !.pc = "flush", !.out = "failed",
                                  !.cancelled = FALSE] \in Tasks
        BY <2>1 DEF Tasks, Outcomes
      <3> QED
        BY <2>3, <3>1, TaskSet DEF Interrupt
    <2>4. CASE FlushEnds(i, k)
      <3>1. AfterFlush(task[i][k]) \in Steps
        BY DEF AfterFlush, Steps
      <3>2. /\ [task[i][k] EXCEPT !.pc = AfterFlush(task[i][k]), !.fence = FALSE] \in Tasks
            /\ [task[i][k] EXCEPT !.pc = "final", !.out = "failed", !.fence = FALSE] \in Tasks
        BY <2>1, <3>1 DEF Tasks, Outcomes, Steps
      <3> QED
        BY <2>4, <3>2, TaskSet DEF FlushEnds
    <2>5. CASE WriteOutcome(i, k)
      <3>1. [task[i][k] EXCEPT !.pc = "close", !.out = "failed"] \in Tasks
        BY <2>1 DEF Tasks, Outcomes
      <3> QED
        BY <2>5, <3>1, TaskSet DEF WriteOutcome
    <2>6. CASE Close(i, k)
      BY <2>6, FreeTask, TaskSet DEF Close
    <2> QED
      BY <1>3, <2>2, <2>3, <2>4, <2>5, <2>6
  <1>4. ASSUME NEW i \in Instances, RenewLeases(i) \/ CancelPoll(i)
        PROVE  Good
    BY <1>4, CancelledTasks DEF RenewLeases, CancelPoll
  <1>5. ASSUME NEW i \in Instances, RenewFails(i)
        PROVE  Good
    BY <1>5, CancelledTasks DEF RenewFails, TypeOK, InstancesOK
  <1>6. ASSUME NEW i \in Instances, NEW r \in Runs, CancelHere(i, r)
        PROVE  Good
    BY <1>6, CancelledTasks DEF CancelHere
  <1>7. ASSUME NEW i \in Instances, Crash(i) \/ Exit(i)
        PROVE  Good
    <2>1. task' = [task EXCEPT ![i] = [k \in Permits |-> Free]]
      BY <1>7 DEF Crash, Exit, Gone
    <2> QED
      BY <2>1, FreeTask DEF TypeOK, InstancesOK
  <1>8. ASSUME NEW i \in Instances, NEW r \in Runs,
               Submit(i, r) \/ ReclaimOrphan(i, r) \/ CancelPending(i, r)
        PROVE  Good
    BY <1>8 DEF Submit, ReclaimOrphan, CancelPending, TypeOK, InstancesOK
  <1>9. ASSUME NEW i \in Instances,
               RetryPendingFinalize(i) \/ Stop(i) \/ Disconnect(i) \/ Reconnect(i)
        PROVE  Good
    BY <1>9 DEF RetryPendingFinalize, Stop, Disconnect, Reconnect, TypeOK, InstancesOK
  <1>10. ASSUME \/ \E r \in Runs : RequestCancel(r) \/ Lapse(r)
                \/ UNCHANGED vars
         PROVE  Good
    BY <1>10 DEF RequestCancel, Lapse, vars, TypeOK, InstancesOK
  <1>11. ASSUME NEW i \in Instances, Dispatch(i) \/ Drain(i)
         PROVE  Good
    <2>1. \A t \in Tasks : [t EXCEPT !.pc = "load"] \in Tasks
      BY DEF Tasks
    <2>2. CASE Dispatch(i)
      BY <2>1, <2>2 DEF Dispatch, TypeOK, InstancesOK
    <2>3. CASE Drain(i)
      BY <2>3, FreeTask DEF Drain, TypeOK, InstancesOK
    <2> QED
      BY <1>11, <2>2, <2>3
  <1> QED
    BY <1>1, <1>2, <1>3, <1>4, <1>5, <1>6, <1>7, <1>8, <1>9, <1>10, <1>11 DEF Next, Step

(* What a terminal write or a hand-back, at once or from the queue, leaves. *)
LEMMA PendingWritten ==
  ASSUME TypeOK, NEW i \in Instances, NEW r \in Runs, NEW w \in Outcomes \cup {"release"},
         WritePending(i, r, w)
  PROVE  /\ status' \in [Runs -> Statuses]
         /\ owner' \in [Runs -> Instances \cup {Nobody}]
         /\ lapsed' \in [Runs -> BOOLEAN]
         /\ callbacks' \in [Runs -> 0..2]
  <1> USE DEF TypeOK, RowsOK, FlagsOK, CountsOK, WritePending, Released, Fire, Statuses, Terminal,
              Outcomes
  <1>1. CASE w = "release"
    BY <1>1
  <1>2. CASE w # "release" /\ Finalizes(i, r)
    <2>1. status' \in [Runs -> Statuses]
      BY <1>2
    <2>2. lapsed' \in [Runs -> BOOLEAN]
      BY <1>2
    <2>3. callbacks' \in [Runs -> 0..2]
      BY <1>2
    <2> QED
      BY <1>2, <2>1, <2>2, <2>3
  <1>3. CASE w # "release" /\ ~Finalizes(i, r)
    BY <1>3
  <1> QED
    BY <1>1, <1>2, <1>3

(* What the task at k is to write. *)
LEMMA OutcomeTyped ==
  ASSUME TypeOK, NEW i \in Instances, NEW k \in Permits
  PROVE  /\ task[i][k].run \in Runs
         /\ (IF task[i][k].pc = "release" THEN "release" ELSE task[i][k].out)
              \in Outcomes \cup {"release"}
  BY DEF TypeOK, InstancesOK, Tasks

LEMMA TypeStep ==
  ASSUME TypeOK, [Next]_vars
  PROVE  TypeOK'
  <1> USE ServeClusterAssumption
  <1> USE DEF TypeOK, row, loop, hist, cancels, Statuses, Terminal, Outcomes
  <1>1. ASSUME NEW i \in Instances, NEW r \in Runs, Submit(i, r)
        PROVE  TypeOK'
    <2>1. RowsOK'
      BY <1>1 DEF RowsOK, Submit
    <2>2. InstancesOK'
      BY <1>1, TaskStep DEF InstancesOK, Submit
    <2>3. FlagsOK'
      BY <1>1 DEF FlagsOK, Submit
    <2>4. CountsOK'
      BY <1>1 DEF CountsOK, Submit
    <2> QED
      BY <2>1, <2>2, <2>3, <2>4
  <1>2. ASSUME NEW i \in Instances, NEW r \in Runs, Claim(i, r)
        PROVE  TypeOK'
    <2>1. RowsOK'
      BY <1>2 DEF RowsOK, Claim
    <2>2. InstancesOK'
      BY <1>2, TaskStep DEF InstancesOK, Claim
    <2>3. FlagsOK'
      BY <1>2 DEF FlagsOK, Claim
    <2>4. CountsOK'
      BY <1>2 DEF CountsOK, Claim
    <2> QED
      BY <2>1, <2>2, <2>3, <2>4
  <1>3. ASSUME NEW i \in Instances, NEW r \in Runs, ReclaimOrphan(i, r)
        PROVE  TypeOK'
    <2>1. RowsOK'
      BY <1>3 DEF RowsOK, ReclaimOrphan
    <2>2. InstancesOK'
      BY <1>3, TaskStep DEF InstancesOK, ReclaimOrphan
    <2>3. FlagsOK'
      BY <1>3 DEF FlagsOK, ReclaimOrphan
    <2>4. CountsOK'
      BY <1>3 DEF CountsOK, ReclaimOrphan
    <2> QED
      BY <2>1, <2>2, <2>3, <2>4
  <1>4. ASSUME NEW i \in Instances, NEW r \in Runs, CancelHere(i, r)
        PROVE  TypeOK'
    <2>1. RowsOK'
      BY <1>4 DEF RowsOK, CancelHere
    <2>2. InstancesOK'
      BY <1>4, TaskStep DEF InstancesOK, CancelHere
    <2>3. FlagsOK'
      BY <1>4 DEF FlagsOK, CancelHere
    <2>4. CountsOK'
      BY <1>4 DEF CountsOK, CancelHere
    <2> QED
      BY <2>1, <2>2, <2>3, <2>4
  <1>5. ASSUME NEW i \in Instances, NEW r \in Runs, CancelPending(i, r)
        PROVE  TypeOK'
    <2>1. RowsOK'
      BY <1>5 DEF RowsOK, CancelPending, Fire
    <2>2. InstancesOK'
      BY <1>5, TaskStep DEF InstancesOK, CancelPending
    <2>3. FlagsOK'
      BY <1>5 DEF FlagsOK, CancelPending
    <2>4. CountsOK'
      BY <1>5 DEF CountsOK, CancelPending, Fire
    <2> QED
      BY <2>1, <2>2, <2>3, <2>4
  <1>6. ASSUME NEW i \in Instances, NEW k \in Permits, Load(i, k)
        PROVE  TypeOK'
    <2>1. RowsOK'
      BY <1>6 DEF RowsOK, Load
    <2>2. InstancesOK'
      <3>1. task[i][k].run \in Runs
        BY DEF InstancesOK, Tasks
      <3>2. token' \in [Instances -> [Runs -> Permits \cup {0}]]
        <4>1. UNCHANGED token \/ token' = [token EXCEPT ![i][task[i][k].run] = k]
          BY <1>6 DEF Load
        <4> QED
          BY <3>1, <4>1, TokenSet DEF InstancesOK
      <3> QED
        BY <1>6, <3>2, TaskStep DEF InstancesOK, Load
    <2>3. FlagsOK'
      BY <1>6 DEF FlagsOK, Load
    <2>4. CountsOK'
      BY <1>6 DEF CountsOK, Load
    <2> QED
      BY <2>1, <2>2, <2>3, <2>4
  <1>7. ASSUME NEW i \in Instances, NEW k \in Permits, Start(i, k)
        PROVE  TypeOK'
    <2>1. RowsOK'
      BY <1>7 DEF RowsOK, Start, InstancesOK, Tasks
    <2>2. InstancesOK'
      BY <1>7, TaskStep DEF InstancesOK, Start
    <2>3. FlagsOK'
      BY <1>7 DEF FlagsOK, Start, InstancesOK, Tasks
    <2>4. CountsOK'
      BY <1>7 DEF CountsOK, Start
    <2> QED
      BY <2>1, <2>2, <2>3, <2>4
  <1>8. ASSUME NEW i \in Instances, NEW k \in Permits, WorkEnds(i, k)
        PROVE  TypeOK'
    <2>1. RowsOK'
      BY <1>8 DEF RowsOK, WorkEnds
    <2>2. InstancesOK'
      BY <1>8, TaskStep DEF InstancesOK, WorkEnds
    <2>3. FlagsOK'
      BY <1>8 DEF FlagsOK, WorkEnds
    <2>4. CountsOK'
      BY <1>8 DEF CountsOK, WorkEnds
    <2> QED
      BY <2>1, <2>2, <2>3, <2>4
  <1>9. ASSUME NEW i \in Instances, NEW k \in Permits, Interrupt(i, k)
        PROVE  TypeOK'
    <2>1. RowsOK'
      BY <1>9 DEF RowsOK, Interrupt
    <2>2. InstancesOK'
      BY <1>9, TaskStep DEF InstancesOK, Interrupt
    <2>3. FlagsOK'
      BY <1>9 DEF FlagsOK, Interrupt
    <2>4. CountsOK'
      BY <1>9 DEF CountsOK, Interrupt
    <2> QED
      BY <2>1, <2>2, <2>3, <2>4
  <1>10. ASSUME NEW i \in Instances, NEW k \in Permits, FlushEnds(i, k)
         PROVE  TypeOK'
    <2>1. RowsOK'
      BY <1>10 DEF RowsOK, FlushEnds
    <2>2. InstancesOK'
      BY <1>10, TaskStep DEF InstancesOK, FlushEnds
    <2>3. FlagsOK'
      BY <1>10 DEF FlagsOK, FlushEnds
    <2>4. CountsOK'
      BY <1>10 DEF CountsOK, FlushEnds
    <2> QED
      BY <2>1, <2>2, <2>3, <2>4
  <1>11. ASSUME NEW i \in Instances, NEW k \in Permits, WriteOutcome(i, k)
         PROVE  TypeOK'
    <2> DEFINE w == IF task[i][k].pc = "release" THEN "release" ELSE task[i][k].out
               u == task[i][k].run
    <2>0. u \in Runs /\ w \in Outcomes \cup {"release"}
      BY OutcomeTyped
    <2>1. \/ WritePending(i, u, w) /\ UNCHANGED queue
          \/ /\ queue' = [queue EXCEPT ![i] = Append(@, [run |-> u, write |-> w])]
             /\ UNCHANGED <<status, owner, lapsed, callbacks>>
      BY <1>11 DEF WriteOutcome, QueueFinalize
    <2> HIDE DEF w, u
    <2>2. RowsOK'
      BY <1>11, <2>0, <2>1, PendingWritten DEF RowsOK, WriteOutcome
    <2>3. InstancesOK'
      <3>1. [run |-> u, write |-> w] \in Entries
        BY <2>0 DEF Entries
      <3>2. queue' \in [Instances -> Seq(Entries)]
        <4>1. Append(queue[i], [run |-> u, write |-> w]) \in Seq(Entries)
          BY <3>1 DEF InstancesOK
        <4>2. \/ UNCHANGED queue
              \/ queue' = [queue EXCEPT ![i] = Append(queue[i], [run |-> u, write |-> w])]
          BY <2>1 DEF InstancesOK
        <4> QED
          BY <4>1, <4>2 DEF InstancesOK
      <3> QED
        BY <1>11, <3>2, TaskStep DEF InstancesOK, WriteOutcome
    <2>4. FlagsOK'
      BY <1>11, <2>0, <2>1, PendingWritten DEF FlagsOK, WriteOutcome
    <2>5. CountsOK'
      BY <1>11, <2>0, <2>1, PendingWritten DEF CountsOK, WriteOutcome
    <2> QED
      BY <2>2, <2>3, <2>4, <2>5
  <1>12. ASSUME NEW i \in Instances, NEW k \in Permits, Requeue(i, k)
         PROVE  TypeOK'
    <2>1. RowsOK'
      BY <1>12 DEF RowsOK, Requeue, Released, InstancesOK, Tasks
    <2>2. InstancesOK'
      BY <1>12, TaskStep DEF InstancesOK, Requeue
    <2>3. FlagsOK'
      BY <1>12 DEF FlagsOK, Requeue, Released, InstancesOK, Tasks
    <2>4. CountsOK'
      BY <1>12 DEF CountsOK, Requeue
    <2> QED
      BY <2>1, <2>2, <2>3, <2>4
  <1>13. ASSUME NEW i \in Instances, NEW k \in Permits, Close(i, k)
         PROVE  TypeOK'
    <2>1. RowsOK'
      BY <1>13 DEF RowsOK, Close
    <2>2. InstancesOK'
      BY <1>13, TaskStep DEF InstancesOK, Close, Tasks
    <2>3. FlagsOK'
      BY <1>13 DEF FlagsOK, Close
    <2>4. CountsOK'
      BY <1>13 DEF CountsOK, Close
    <2> QED
      BY <2>1, <2>2, <2>3, <2>4
  <1>14. ASSUME NEW i \in Instances, CancelPoll(i)
         PROVE  TypeOK'
    <2>1. RowsOK'
      BY <1>14 DEF RowsOK, CancelPoll
    <2>2. InstancesOK'
      BY <1>14, TaskStep DEF InstancesOK, CancelPoll
    <2>3. FlagsOK'
      BY <1>14 DEF FlagsOK, CancelPoll
    <2>4. CountsOK'
      BY <1>14 DEF CountsOK, CancelPoll
    <2> QED
      BY <2>1, <2>2, <2>3, <2>4
  <1>15. ASSUME NEW i \in Instances, RetryPendingFinalize(i)
         PROVE  TypeOK'
    <2>1. queue[i] \in Seq(Entries) /\ queue[i] # <<>>
      BY <1>15 DEF InstancesOK, RetryPendingFinalize
    <2>2. Head(queue[i]) \in Entries /\ Tail(queue[i]) \in Seq(Entries)
      BY <2>1
    <2>3. Head(queue[i]).run \in Runs /\ Head(queue[i]).write \in Outcomes \cup {"release"}
      BY <2>2 DEF Entries
    <2>4. WritePending(i, Head(queue[i]).run, Head(queue[i]).write)
      BY <1>15 DEF RetryPendingFinalize
    <2>5. RowsOK'
      BY <1>15, <2>3, <2>4, PendingWritten DEF RowsOK, RetryPendingFinalize
    <2>6. InstancesOK'
      BY <1>15, <2>2, TaskStep DEF InstancesOK, RetryPendingFinalize
    <2>7. FlagsOK'
      BY <1>15, <2>3, <2>4, PendingWritten DEF FlagsOK, RetryPendingFinalize
    <2>8. CountsOK'
      BY <1>15, <2>3, <2>4, PendingWritten DEF CountsOK, RetryPendingFinalize
    <2> QED
      BY <2>5, <2>6, <2>7, <2>8
  <1>16. ASSUME NEW i \in Instances, RenewLeases(i)
         PROVE  TypeOK'
    <2>1. RowsOK'
      BY <1>16 DEF RowsOK, RenewLeases
    <2>2. InstancesOK'
      BY <1>16, TaskStep DEF InstancesOK, RenewLeases
    <2>3. FlagsOK'
      BY <1>16 DEF FlagsOK, RenewLeases
    <2>4. CountsOK'
      BY <1>16 DEF CountsOK, RenewLeases
    <2> QED
      BY <2>1, <2>2, <2>3, <2>4
  <1>17. ASSUME NEW i \in Instances, RenewFails(i)
         PROVE  TypeOK'
    <2>1. RowsOK'
      BY <1>17 DEF RowsOK, RenewFails
    <2>2. InstancesOK'
      BY <1>17, TaskStep DEF InstancesOK, RenewFails
    <2>3. FlagsOK'
      BY <1>17 DEF FlagsOK, RenewFails
    <2>4. CountsOK'
      BY <1>17 DEF CountsOK, RenewFails
    <2> QED
      BY <2>1, <2>2, <2>3, <2>4
  <1>18. ASSUME NEW i \in Instances, Crash(i)
         PROVE  TypeOK'
    <2>1. RowsOK'
      BY <1>18 DEF RowsOK, Crash, Gone
    <2>2. InstancesOK'
      BY <1>18, TaskStep DEF InstancesOK, Crash, Gone
    <2>3. FlagsOK'
      BY <1>18 DEF FlagsOK, Crash, Gone
    <2>4. CountsOK'
      BY <1>18 DEF CountsOK, Crash, Gone
    <2> QED
      BY <2>1, <2>2, <2>3, <2>4
  <1>19. ASSUME NEW i \in Instances, Drain(i)
         PROVE  TypeOK'
    <2>1. RowsOK'
      BY <1>19 DEF RowsOK, Drain
    <2>2. InstancesOK'
      BY <1>19, TaskStep DEF InstancesOK, Drain
    <2>3. FlagsOK'
      <3>1. dropped' \in [Instances -> [Runs -> BOOLEAN]]
        BY <1>19 DEF FlagsOK, Drain, Won
      <3> QED
        BY <1>19, <3>1 DEF FlagsOK, Drain
    <2>4. CountsOK'
      BY <1>19 DEF CountsOK, Drain
    <2> QED
      BY <2>1, <2>2, <2>3, <2>4
  <1>20. ASSUME NEW i \in Instances, Stop(i)
         PROVE  TypeOK'
    <2>1. RowsOK'
      BY <1>20 DEF RowsOK, Stop
    <2>2. InstancesOK'
      BY <1>20, TaskStep DEF InstancesOK, Stop
    <2>3. FlagsOK'
      BY <1>20 DEF FlagsOK, Stop
    <2>4. CountsOK'
      BY <1>20 DEF CountsOK, Stop
    <2> QED
      BY <2>1, <2>2, <2>3, <2>4
  <1>21. ASSUME NEW i \in Instances, Exit(i)
         PROVE  TypeOK'
    <2>1. RowsOK'
      BY <1>21 DEF RowsOK, Exit, Gone
    <2>2. InstancesOK'
      BY <1>21, TaskStep DEF InstancesOK, Exit, Gone
    <2>3. FlagsOK'
      BY <1>21 DEF FlagsOK, Exit, Gone
    <2>4. CountsOK'
      BY <1>21 DEF CountsOK, Exit, Gone
    <2> QED
      BY <2>1, <2>2, <2>3, <2>4
  <1>22. ASSUME NEW i \in Instances, Disconnect(i)
         PROVE  TypeOK'
    <2>1. RowsOK'
      BY <1>22 DEF RowsOK, Disconnect
    <2>2. InstancesOK'
      BY <1>22, TaskStep DEF InstancesOK, Disconnect
    <2>3. FlagsOK'
      BY <1>22 DEF FlagsOK, Disconnect
    <2>4. CountsOK'
      BY <1>22 DEF CountsOK, Disconnect
    <2> QED
      BY <2>1, <2>2, <2>3, <2>4
  <1>23. ASSUME NEW i \in Instances, Reconnect(i)
         PROVE  TypeOK'
    <2>1. RowsOK'
      BY <1>23 DEF RowsOK, Reconnect
    <2>2. InstancesOK'
      BY <1>23, TaskStep DEF InstancesOK, Reconnect
    <2>3. FlagsOK'
      BY <1>23 DEF FlagsOK, Reconnect
    <2>4. CountsOK'
      BY <1>23 DEF CountsOK, Reconnect
    <2> QED
      BY <2>1, <2>2, <2>3, <2>4
  <1>24. ASSUME NEW r \in Runs, RequestCancel(r)
         PROVE  TypeOK'
    <2>1. RowsOK'
      BY <1>24 DEF RowsOK, RequestCancel
    <2>2. InstancesOK'
      BY <1>24, TaskStep DEF InstancesOK, RequestCancel
    <2>3. FlagsOK'
      BY <1>24 DEF FlagsOK, RequestCancel
    <2>4. CountsOK'
      BY <1>24 DEF CountsOK, RequestCancel
    <2> QED
      BY <2>1, <2>2, <2>3, <2>4
  <1>25. ASSUME NEW r \in Runs, Lapse(r)
         PROVE  TypeOK'
    <2>1. RowsOK'
      BY <1>25 DEF RowsOK, Lapse
    <2>2. InstancesOK'
      BY <1>25, TaskStep DEF InstancesOK, Lapse
    <2>3. FlagsOK'
      BY <1>25 DEF FlagsOK, Lapse
    <2>4. CountsOK'
      BY <1>25 DEF CountsOK, Lapse
    <2> QED
      BY <2>1, <2>2, <2>3, <2>4
  <1>26. CASE UNCHANGED vars
    BY <1>26 DEF vars, RowsOK, InstancesOK, FlagsOK, CountsOK
  <1>27. ASSUME NEW i \in Instances, Dispatch(i)
         PROVE  TypeOK'
    <2>1. RowsOK'
      BY <1>27 DEF RowsOK, Dispatch
    <2>2. InstancesOK'
      BY <1>27, TaskStep DEF InstancesOK, Dispatch
    <2>3. FlagsOK'
      BY <1>27 DEF FlagsOK, Dispatch
    <2>4. CountsOK'
      BY <1>27 DEF CountsOK, Dispatch
    <2> QED
      BY <2>1, <2>2, <2>3, <2>4
  <1> QED
    BY <1>1, <1>2, <1>3, <1>4, <1>5, <1>6, <1>7, <1>8, <1>9, <1>10, <1>11, <1>12,
       <1>13, <1>14, <1>15, <1>16, <1>17, <1>18, <1>19, <1>20, <1>21, <1>22, <1>23,
       <1>24, <1>25, <1>26, <1>27
       DEF Next, Step

LEMMA TypeInit == Init => TypeOK
  <1> SUFFICES ASSUME Init PROVE TypeOK
    OBVIOUS
  <1>1. RowsOK
    BY DEF Init, RowsOK, Statuses
  <1>2. InstancesOK
    BY FreeTask DEF Init, InstancesOK
  <1>3. FlagsOK
    BY DEF Init, FlagsOK
  <1>4. CountsOK
    BY ServeClusterAssumption DEF Init, CountsOK
  <1> QED
    BY <1>1, <1>2, <1>3, <1>4 DEF TypeOK

(* Every variable keeps its type in every behaviour of the cluster. *)
THEOREM TypeCorrect == Spec => []TypeOK
  <1> QED
    BY TypeInit, TypeStep, PTL DEF Spec
-------------------------------------------------------------------------------
(* A write for r waits at i. *)
Queued(i, r) == \E n \in DOMAIN queue[i] : queue[i][n].run = r

(* While the lease of r has not lapsed under a live owner: who has a task or a queued
   write for r is the owner of the row and is alive, and has one of them; only the lease
   of a dead owner is lapsed; and a callback was fired only for a run that is over. *)
Sole(r) ==
  ~overrun[r] =>
    /\ \A i \in Instances : \A k \in Permits :
         Holds(task[i][k], r) => Owns(i, r) /\ up[i] # "down" /\ ~Queued(i, r)
    /\ \A i \in Instances : \A k, l \in Permits :
         Holds(task[i][k], r) /\ Holds(task[i][l], r) => k = l
    /\ \A i \in Instances : Queued(i, r) => Owns(i, r) /\ up[i] # "down"
    /\ \A i \in Instances : \A m, n \in DOMAIN queue[i] :
         queue[i][m].run = r /\ queue[i][n].run = r => m = n
    /\ lapsed[r] /\ status[r] = "running" => owner[r] \in Instances /\ up[owner[r]] = "down"
    /\ callbacks[r] = 0 \/ (callbacks[r] = 1 /\ Done(r))

Soleness == \A r \in Runs : Sole(r)

(* The steps that neither write a row nor end a task. *)
SameHolds ==
  \A i \in Instances : \A k \in Permits : \A r \in Runs :
    Holds(task'[i][k], r) <=> Holds(task[i][k], r)

Quiet ==
  /\ UNCHANGED <<status, owner, lapsed, queue, overrun, callbacks, dropped>>
  /\ \A i \in Instances : (up'[i] = "down" <=> up[i] = "down") /\ (up'[i] = "up" => up[i] = "up")
  /\ SameHolds

LEMMA CancelKeepsHolds ==
  ASSUME TypeOK, NEW i \in Instances, NEW rs, task' = Cancelled(i, rs)
  PROVE  SameHolds
  <1>1. ASSUME NEW t \in Tasks, NEW r \in Runs
        PROVE  Holds([t EXCEPT !.cancelled = TRUE], r) <=> Holds(t, r)
    BY DEF Tasks, Holds
  <1>2. ASSUME NEW j \in Instances, NEW k \in Permits
        PROVE  task'[j][k] \in {task[j][k], [task[j][k] EXCEPT !.cancelled = TRUE]}
    BY DEF Cancelled, TypeOK, InstancesOK
  <1>3. \A j \in Instances : \A k \in Permits : task[j][k] \in Tasks
    BY DEF TypeOK, InstancesOK
  <1> QED
    BY <1>1, <1>2, <1>3 DEF SameHolds

(* A task that changes, and holds its run before and after, or neither. *)
LEMMA MoveKeepsHolds ==
  ASSUME TypeOK, NEW i \in Instances, NEW k \in Permits, NEW t,
         task' = [task EXCEPT ![i][k] = t],
         \A r \in Runs : Holds(t, r) <=> Holds(task[i][k], r)
  PROVE  SameHolds
  BY DEF SameHolds, TypeOK, InstancesOK

LEMMA Frame ==
  ASSUME TypeOK, [Next]_vars
  PROVE  \/ Quiet
         \/ \E i \in Instances :
              \/ \E r \in Runs :
                   Submit(i, r) \/ Claim(i, r) \/ ReclaimOrphan(i, r) \/ CancelPending(i, r)
              \/ \E k \in Permits : Start(i, k) \/ WriteOutcome(i, k) \/ Requeue(i, k)
              \/ RetryPendingFinalize(i) \/ RenewLeases(i) \/ Crash(i) \/ Drain(i) \/ Exit(i)
         \/ \E r \in Runs : Lapse(r)
  <1> USE DEF Quiet, row, loop, hist, cancels
  <1>1. ASSUME NEW i \in Instances, NEW r \in Runs, CancelHere(i, r)
        PROVE  Quiet
    BY <1>1, CancelKeepsHolds DEF CancelHere
  <1>2. ASSUME NEW i \in Instances, CancelPoll(i)
        PROVE  Quiet
    BY <1>2, CancelKeepsHolds DEF CancelPoll
  <1>3. ASSUME NEW i \in Instances, RenewFails(i)
        PROVE  Quiet
    BY <1>3, CancelKeepsHolds DEF RenewFails, SameHolds
  <1>4. ASSUME NEW i \in Instances, NEW k \in Permits,
               \/ Load(i, k) \/ WorkEnds(i, k) \/ Interrupt(i, k) \/ FlushEnds(i, k)
               \/ Close(i, k)
        PROVE  Quiet
    <2>1. task[i][k] \in Tasks
      BY DEF TypeOK, InstancesOK
    <2>2. SameHolds
      <3>1. CASE Load(i, k)
        <4>1. \E p \in {"start", "final"} :
                task' = [task EXCEPT ![i][k] = [task[i][k] EXCEPT !.pc = p]]
          BY <3>1 DEF Load, TypeOK, InstancesOK
        <4>2. \A p \in {"start", "final"} : \A r \in Runs :
                Holds([task[i][k] EXCEPT !.pc = p], r) <=> Holds(task[i][k], r)
          BY <2>1, <3>1 DEF Load, Holds, Tasks
        <4> QED
          BY <4>1, <4>2, MoveKeepsHolds
      <3>2. CASE WorkEnds(i, k)
        BY <2>1, <3>2 DEF WorkEnds, SameHolds, Holds, TypeOK, InstancesOK, Tasks
      <3>3. CASE Interrupt(i, k)
        <4> DEFINE t1 == [task[i][k] EXCEPT !.pc = "flush", !.fence = fenced[i],
                                            !.out = "cancelled", !.cancelled = FALSE]
                   t2 == [task[i][k] EXCEPT !.pc = "flush", !.out = "failed",
                                            !.cancelled = FALSE]
        <4>1. task' = [task EXCEPT ![i][k] = t1] \/ task' = [task EXCEPT ![i][k] = t2]
          BY <3>3 DEF Interrupt, TypeOK, InstancesOK
        <4>2. \A r \in Runs : /\ Holds(t1, r) <=> Holds(task[i][k], r)
                              /\ Holds(t2, r) <=> Holds(task[i][k], r)
          BY <2>1, <3>3 DEF Interrupt, Holds, Tasks
        <4> QED
          BY <4>1, <4>2, MoveKeepsHolds
      <3>4. CASE FlushEnds(i, k)
        <4> DEFINE a == AfterFlush(task[i][k])
                   t1 == [task[i][k] EXCEPT !.pc = a, !.fence = FALSE]
                   t2 == [task[i][k] EXCEPT !.pc = "final", !.out = "failed", !.fence = FALSE]
        <4>1. task' = [task EXCEPT ![i][k] = t1] \/ task' = [task EXCEPT ![i][k] = t2]
          BY <3>4 DEF FlushEnds, TypeOK, InstancesOK
        <4>2. a \in {"requeue", "release", "final"}
          BY DEF AfterFlush
        <4> HIDE DEF a
        <4>3. \A r \in Runs : /\ Holds(t1, r) <=> Holds(task[i][k], r)
                              /\ Holds(t2, r) <=> Holds(task[i][k], r)
          BY <2>1, <3>4, <4>2 DEF FlushEnds, Holds, Tasks
        <4> QED
          BY <4>1, <4>3, MoveKeepsHolds
      <3>5. CASE Close(i, k)
        BY <2>1, <3>5 DEF Close, Free, SameHolds, Holds, TypeOK, InstancesOK, Tasks
      <3> QED
        BY <1>4, <3>1, <3>2, <3>3, <3>4, <3>5
    <2> QED
      BY <1>4, <2>2 DEF Load, WorkEnds, Interrupt, FlushEnds, Close
  <1>5. ASSUME NEW i \in Instances, Stop(i) \/ Disconnect(i) \/ Reconnect(i)
        PROVE  Quiet
    BY <1>5 DEF Stop, Disconnect, Reconnect, SameHolds, TypeOK, InstancesOK
  <1>6. ASSUME NEW r \in Runs, RequestCancel(r)
        PROVE  Quiet
    BY <1>6 DEF RequestCancel, SameHolds
  <1>7. CASE UNCHANGED vars
    BY <1>7 DEF vars, SameHolds
  <1>8. ASSUME NEW i \in Instances, Dispatch(i)
        PROVE  Quiet
    <2>1. ASSUME NEW j \in Instances, NEW k \in Permits
          PROVE  \/ task'[j][k] = task[j][k]
                 \/ task[j][k].pc = "won" /\ task'[j][k] = [task[j][k] EXCEPT !.pc = "load"]
      BY <1>8 DEF Dispatch, TypeOK, InstancesOK
    <2>2. ASSUME NEW t \in Tasks, t.pc = "won", NEW r \in Runs
          PROVE  Holds([t EXCEPT !.pc = "load"], r) <=> Holds(t, r)
      BY <2>2 DEF Holds, Tasks
    <2>3. \A j \in Instances : \A k \in Permits : task[j][k] \in Tasks
      BY DEF TypeOK, InstancesOK
    <2>4. ASSUME NEW j \in Instances, NEW k \in Permits, NEW r \in Runs
          PROVE  Holds(task'[j][k], r) <=> Holds(task[j][k], r)
      <3>1. CASE task'[j][k] = task[j][k]
        BY <3>1
      <3>2. CASE task[j][k].pc = "won" /\ task'[j][k] = [task[j][k] EXCEPT !.pc = "load"]
        BY <2>2, <2>3, <3>2
      <3> QED
        BY <2>1, <3>1, <3>2
    <2>5. SameHolds
      BY <2>4 DEF SameHolds
    <2> QED
      BY <1>8, <2>5 DEF Dispatch
  <1> QED
    BY <1>1, <1>2, <1>3, <1>4, <1>5, <1>6, <1>7, <1>8 DEF Next, Step
-------------------------------------------------------------------------------
(* What a terminal write or a hand-back of i does to the row: it is not i's running row
   any more, nobody else's row is touched, and a callback goes with a row that ends. *)
Settles(i, r) ==
  /\ ~(owner'[r] = i /\ status'[r] = "running")
  /\ \A j \in Instances \ {i} :
       (owner'[r] = j /\ status'[r] = "running") <=> (owner[r] = j /\ status[r] = "running")
  /\ \A q \in Runs \ {r} :
       /\ status'[q] = status[q] /\ owner'[q] = owner[q]
       /\ lapsed'[q] = lapsed[q] /\ callbacks'[q] = callbacks[q]
  /\ Done(r) => status'[r] = status[r]
  /\ \/ callbacks'[r] = callbacks[r]
     \/ ~Done(r) /\ status'[r] \in Terminal /\ callbacks'[r] \in {callbacks[r], callbacks[r] + 1}
  /\ lapsed'[r] => lapsed[r] /\ status'[r] = status[r] /\ owner'[r] = owner[r]

LEMMA WritePendingSettles ==
  ASSUME TypeOK, NEW i \in Instances, NEW r \in Runs, NEW w \in Outcomes \cup {"release"},
         WritePending(i, r, w)
  PROVE  Settles(i, r)
  <1> USE ServeClusterAssumption
  <1> USE DEF TypeOK, RowsOK, FlagsOK, CountsOK, WritePending, Settles, Done, Terminal, Outcomes
  <1>1. CASE w = "release"
    BY <1>1 DEF Released, Owns
  <1>2. CASE w # "release" /\ Finalizes(i, r)
    BY <1>2 DEF Finalizes, Fire
  <1>3. CASE w # "release" /\ ~Finalizes(i, r)
    BY <1>3 DEF Finalizes
  <1> QED
    BY <1>1, <1>2, <1>3

(* The task at i and k writes its outcome, or queues it. *)
LEMMA WriteOutcomeEffect ==
  ASSUME TypeOK, NEW i \in Instances, NEW k \in Permits, WriteOutcome(i, k)
  PROVE  /\ Holds(task[i][k], task[i][k].run)
         /\ \/ Settles(i, task[i][k].run) /\ UNCHANGED queue
            \/ /\ \E e \in Entries : e.run = task[i][k].run /\ QueueFinalize(i, e)
               /\ UNCHANGED <<status, owner, lapsed, callbacks>>
         /\ UNCHANGED <<up, overrun, dropped>>
         /\ \A r \in Runs : ~Holds(task'[i][k], r)
         /\ \A j \in Instances : \A l \in Permits :
              <<j, l>> # <<i, k>> => task'[j][l] = task[j][l]
  <1> USE DEF TypeOK, InstancesOK
  <1> DEFINE w == IF task[i][k].pc = "release" THEN "release" ELSE task[i][k].out
  <1>1. task[i][k].run \in Runs /\ w \in Outcomes \cup {"release"}
    BY OutcomeTyped
  <1>2. Holds(task[i][k], task[i][k].run)
    BY DEF WriteOutcome, Holds
  <1>3. \/ WritePending(i, task[i][k].run, w) /\ UNCHANGED queue
        \/ /\ QueueFinalize(i, [run |-> task[i][k].run, write |-> w])
           /\ UNCHANGED <<status, owner, lapsed, callbacks>>
    BY DEF WriteOutcome
  <1>4. UNCHANGED <<up, overrun, dropped>>
    BY DEF WriteOutcome
  <1>5. task' = [task EXCEPT ![i][k] = [task[i][k] EXCEPT !.pc = "close", !.out = "failed"]]
    BY DEF WriteOutcome
  <1>6. \A r \in Runs : ~Holds(task'[i][k], r)
    <2>1. task[i][k] \in Tasks
      OBVIOUS
    <2> QED
      BY <1>5, <2>1 DEF Holds, Tasks
  <1>7. \A j \in Instances : \A l \in Permits :
          <<j, l>> # <<i, k>> => task'[j][l] = task[j][l]
    BY <1>5
  <1> HIDE DEF w
  <1>8. /\ [run |-> task[i][k].run, write |-> w] \in Entries
        /\ [run |-> task[i][k].run, write |-> w].run = task[i][k].run
    BY <1>1 DEF Entries
  <1> QED
    BY <1>1, <1>2, <1>3, <1>4, <1>6, <1>7, <1>8, WritePendingSettles

(* A shutdown hands the run of its task back, or leaves it to be finalized. *)
LEMMA RequeueEffect ==
  ASSUME TypeOK, NEW i \in Instances, NEW k \in Permits, Requeue(i, k)
  PROVE  /\ \/ /\ Settles(i, task[i][k].run) /\ \A r \in Runs : ~Holds(task'[i][k], r)
               /\ \A j \in Instances : \A l \in Permits :
                    <<j, l>> # <<i, k>> => task'[j][l] = task[j][l]
            \/ SameHolds /\ UNCHANGED <<status, owner, lapsed, callbacks>>
         /\ Holds(task[i][k], task[i][k].run)
         /\ UNCHANGED <<up, overrun, queue, dropped>>
  <1> USE ServeClusterAssumption
  <1> USE DEF TypeOK, InstancesOK, hist
  <1>1. task[i][k] \in Tasks /\ task[i][k].run \in Runs /\ task[i][k].pc = "requeue"
    BY DEF Requeue, Tasks
  <1>2. CASE reach[i] /\ Owns(i, task[i][k].run)
    <2>1. Released(i, task[i][k].run)
      BY <1>2 DEF Requeue
    <2>2. Settles(i, task[i][k].run)
      BY <1>1, <1>2, <2>1 DEF Released, Settles, Requeue, Owns, Done, Terminal, Outcomes, RowsOK,
                              FlagsOK
    <2>3. task' = [task EXCEPT ![i][k] = [task[i][k] EXCEPT !.pc = "close"]]
      BY <1>2 DEF Requeue
    <2>4. \A r \in Runs : ~Holds(task'[i][k], r)
      BY <1>1, <2>3 DEF Holds, Tasks
    <2> QED
      BY <1>1, <2>2, <2>3, <2>4 DEF Requeue, Holds
  <1>3. CASE ~(reach[i] /\ Owns(i, task[i][k].run))
    <2>1. task' = [task EXCEPT ![i][k] = [task[i][k] EXCEPT !.pc = "final"]]
      BY <1>3 DEF Requeue
    <2>2. \A r \in Runs : Holds([task[i][k] EXCEPT !.pc = "final"], r) <=> Holds(task[i][k], r)
      BY <1>1 DEF Holds, Tasks
    <2>3. SameHolds
      BY <2>1, <2>2, MoveKeepsHolds
    <2> QED
      BY <1>1, <1>3, <2>3 DEF Requeue, Holds
  <1> QED
    BY <1>2, <1>3

(* A claim gives a free permit to the run. *)
LEMMA ClaimEffect ==
  ASSUME TypeOK, NEW i \in Instances, NEW r \in Runs, Claim(i, r)
  PROVE  /\ status[r] = "pending" /\ up[i] # "down"
         /\ status' = [status EXCEPT ![r] = "running"]
         /\ owner' = [owner EXCEPT ![r] = i]
         /\ lapsed' = [lapsed EXCEPT ![r] = FALSE]
         /\ UNCHANGED <<up, queue, overrun, callbacks, dropped>>
         /\ \E k \in Permits :
              /\ \A q \in Runs : ~Holds(task[i][k], q)
              /\ \A q \in Runs : Holds(task'[i][k], q) <=> q = r
              /\ \A j \in Instances : \A l \in Permits :
                   <<j, l>> # <<i, k>> => task'[j][l] = task[j][l]
  <1> USE DEF TypeOK, InstancesOK
  <1>1. PICK k \in Permits :
          /\ task[i][k].pc = "free"
          /\ task' = [task EXCEPT ![i][k] = [Free EXCEPT !.pc = "won", !.run = r]]
    BY DEF Claim
  <1>2. \A q \in Runs : Holds(task'[i][k], q) <=> q = r
    BY <1>1, FreeTask DEF Holds, Tasks
  <1>3. \A q \in Runs : ~Holds(task[i][k], q)
    BY <1>1 DEF Holds
  <1>4. \A j \in Instances : \A l \in Permits :
          <<j, l>> # <<i, k>> => task'[j][l] = task[j][l]
    BY <1>1
  <1> QED
    BY <1>2, <1>3, <1>4 DEF Claim, Claimable, hist

(* A start stamps the row, if it can, and its task goes on. *)
LEMMA StartEffect ==
  ASSUME TypeOK, NEW i \in Instances, NEW k \in Permits, Start(i, k)
  PROVE  /\ Holds(task[i][k], task[i][k].run) /\ task[i][k].run \in Runs
         /\ SameHolds
         /\ \/ UNCHANGED <<status, owner, lapsed>>
            \/ /\ status' = [status EXCEPT ![task[i][k].run] = "running"]
               /\ owner' = [owner EXCEPT ![task[i][k].run] = i]
               /\ lapsed' = [lapsed EXCEPT ![task[i][k].run] = FALSE]
         /\ UNCHANGED <<up, queue, overrun, callbacks, dropped>>
  <1> USE DEF TypeOK, InstancesOK
  <1>1. task[i][k] \in Tasks /\ task[i][k].run \in Runs /\ task[i][k].pc = "start"
    BY DEF Start, Tasks
  <1>2. task' = [task EXCEPT ![i][k] = [task[i][k] EXCEPT !.pc = "work"]]
    BY DEF Start
  <1>3. \A r \in Runs : Holds([task[i][k] EXCEPT !.pc = "work"], r) <=> Holds(task[i][k], r)
    BY <1>1 DEF Holds, Tasks
  <1>4. SameHolds
    BY <1>2, <1>3, MoveKeepsHolds
  <1> QED
    BY <1>1, <1>4 DEF Start, Holds, hist

(* The first queued write is made. *)
LEMMA RetryEffect ==
  ASSUME TypeOK, NEW i \in Instances, RetryPendingFinalize(i)
  PROVE  /\ queue[i] \in Seq(Entries) /\ queue[i] # <<>>
         /\ Head(queue[i]).run \in Runs
         /\ Settles(i, Head(queue[i]).run)
         /\ queue' = [queue EXCEPT ![i] = Tail(queue[i])]
         /\ UNCHANGED <<up, task, overrun, dropped>>
  <1>1. queue[i] \in Seq(Entries) /\ queue[i] # <<>>
    BY DEF TypeOK, InstancesOK, RetryPendingFinalize
  <1>2. Head(queue[i]) \in Entries
    BY <1>1
  <1>3. Head(queue[i]).run \in Runs /\ Head(queue[i]).write \in Outcomes \cup {"release"}
    BY <1>2 DEF Entries
  <1>4. Settles(i, Head(queue[i]).run)
    BY <1>3, WritePendingSettles DEF RetryPendingFinalize
  <1> QED
    BY <1>1, <1>3, <1>4 DEF RetryPendingFinalize

(* Who waits in a queue that grows at its end, or loses its head. *)
LEMMA AppendQueued ==
  ASSUME TypeOK, NEW i \in Instances, NEW e \in Entries, QueueFinalize(i, e)
  PROVE  /\ \A j \in Instances, r \in Runs :
              Queued(j, r)' <=> Queued(j, r) \/ (j = i /\ e.run = r)
         /\ \A m, n \in DOMAIN queue'[i] :
              \/ m \in DOMAIN queue[i] /\ n \in DOMAIN queue[i]
                   /\ queue'[i][m] = queue[i][m] /\ queue'[i][n] = queue[i][n]
              \/ m \in DOMAIN queue[i] /\ queue'[i][m] = queue[i][m] /\ queue'[i][n] = e
              \/ n \in DOMAIN queue[i] /\ queue'[i][n] = queue[i][n] /\ queue'[i][m] = e
              \/ m = n
  <1>1. queue[i] \in Seq(Entries)
    BY DEF TypeOK, InstancesOK
  <1>2. /\ queue'[i] = Append(queue[i], e)
        /\ \A j \in Instances \ {i} : queue'[j] = queue[j]
    BY DEF QueueFinalize, TypeOK, InstancesOK
  <1>3. /\ DOMAIN queue'[i] = 1 .. (Len(queue[i]) + 1) /\ DOMAIN queue[i] = 1 .. Len(queue[i])
        /\ \A n \in 1 .. Len(queue[i]) : queue'[i][n] = queue[i][n]
        /\ queue'[i][Len(queue[i]) + 1] = e
        /\ Len(queue[i]) \in Nat
    BY <1>1, <1>2
  <1>4. \A n \in DOMAIN queue'[i] : n \in DOMAIN queue[i] \/ n = Len(queue[i]) + 1
    BY <1>3
  <1>5. DOMAIN queue[i] \subseteq DOMAIN queue'[i] /\ Len(queue[i]) + 1 \in DOMAIN queue'[i]
    BY <1>3
  <1>6. \A r \in Runs : Queued(i, r)' <=> Queued(i, r) \/ e.run = r
    BY <1>3, <1>4, <1>5 DEF Queued
  <1>7. \A j \in Instances \ {i}, r \in Runs : Queued(j, r)' <=> Queued(j, r)
    BY <1>2 DEF Queued
  <1> QED
    BY <1>3, <1>4, <1>6, <1>7

LEMMA TailQueued ==
  ASSUME TypeOK, NEW i \in Instances, queue[i] # <<>>,
         queue' = [queue EXCEPT ![i] = Tail(queue[i])]
  PROVE  /\ Queued(i, Head(queue[i]).run)
         /\ \A j \in Instances, r \in Runs : Queued(j, r)' => Queued(j, r)
         /\ \A j \in Instances, r \in Runs :
              Queued(j, r) => Queued(j, r)' \/ (j = i /\ Head(queue[i]).run = r)
         /\ \A m \in DOMAIN queue'[i] :
              m + 1 \in DOMAIN queue[i] /\ m + 1 # 1 /\ queue'[i][m] = queue[i][m + 1]
         /\ 1 \in DOMAIN queue[i] /\ queue[i][1] = Head(queue[i])
  <1>1. queue[i] \in Seq(Entries)
    BY DEF TypeOK, InstancesOK
  <1>2. /\ queue'[i] = Tail(queue[i])
        /\ \A j \in Instances \ {i} : queue'[j] = queue[j]
    BY DEF TypeOK, InstancesOK
  <1>3. /\ DOMAIN queue'[i] = 1 .. (Len(queue[i]) - 1) /\ DOMAIN queue[i] = 1 .. Len(queue[i])
        /\ \A n \in 1 .. (Len(queue[i]) - 1) : queue'[i][n] = queue[i][n + 1]
        /\ queue[i][1] = Head(queue[i])
        /\ Len(queue[i]) \in Nat /\ Len(queue[i]) > 0
    <2> DEFINE s == queue[i]
    <2>0. s = queue[i] /\ queue'[i] = Tail(s)
      BY <1>2
    <2>1. s \in Seq(Entries) /\ s # <<>>
      BY <1>1
    <2> HIDE DEF s
    <2>2. Len(s) \in Nat /\ Len(s) # 0 /\ DOMAIN s = 1 .. Len(s) /\ s[1] = Head(s)
      BY <2>1, EmptySeq
    <2>3. /\ Tail(s) \in Seq(Entries) /\ Len(Tail(s)) = Len(s) - 1
          /\ \A n \in 1 .. (Len(s) - 1) : Tail(s)[n] = s[n + 1]
      BY <2>1, <2>2, HeadTailProperties
    <2>4. DOMAIN Tail(s) = 1 .. (Len(s) - 1)
      BY <2>3
    <2>5. Len(s) > 0
      BY <2>2
    <2> QED
      BY <2>0, <2>2, <2>3, <2>4, <2>5, Zenon
  <1>4. \A m \in DOMAIN queue'[i] :
          m + 1 \in DOMAIN queue[i] /\ m + 1 # 1 /\ queue'[i][m] = queue[i][m + 1]
    BY <1>3
  <1>5. \A n \in DOMAIN queue[i] :
          n = 1 \/ (n - 1 \in DOMAIN queue'[i] /\ queue'[i][n - 1] = queue[i][n])
    BY <1>3
  <1>6. 1 \in DOMAIN queue[i]
    BY <1>3
  <1>7. \A r \in Runs : /\ Queued(i, r)' => Queued(i, r)
                        /\ Queued(i, r) => Queued(i, r)' \/ Head(queue[i]).run = r
    <2> TAKE r \in Runs
    <2>1. Queued(i, r)' => Queued(i, r)
      BY <1>4 DEF Queued
    <2>2. ASSUME NEW n \in DOMAIN queue[i], queue[i][n].run = r
          PROVE  Queued(i, r)' \/ Head(queue[i]).run = r
      BY <1>3, <1>5, <2>2 DEF Queued
    <2> QED
      BY <2>1, <2>2 DEF Queued
  <1>8. \A j \in Instances \ {i}, r \in Runs : Queued(j, r)' <=> Queued(j, r)
    BY <1>2 DEF Queued
  <1>9. Queued(i, Head(queue[i]).run)
    BY <1>3, <1>6 DEF Queued
  <1> QED
    BY <1>3, <1>4, <1>6, <1>7, <1>8, <1>9

(* A process that is gone has no tasks and no queue. *)
LEMMA GoneEffect ==
  ASSUME TypeOK, NEW i \in Instances, Crash(i) \/ Exit(i)
  PROVE  /\ UNCHANGED <<status, owner, lapsed, overrun, callbacks, dropped>>
         /\ up'[i] = "down" /\ queue'[i] = <<>>
         /\ \A k \in Permits, r \in Runs : ~Holds(task'[i][k], r)
         /\ \A j \in Instances \ {i} :
              up'[j] = up[j] /\ queue'[j] = queue[j] /\ task'[j] = task[j]
  <1> USE DEF TypeOK, InstancesOK, row, hist
  <1>1. Gone(i)
    BY DEF Crash, Exit
  <1>2. \A k \in Permits, r \in Runs : ~Holds(task'[i][k], r)
    BY <1>1 DEF Gone, Holds, Free
  <1> QED
    BY <1>1, <1>2 DEF Gone

(* A drain drops the rows of the batch under way, and notes them. *)
LEMMA DrainEffect ==
  ASSUME TypeOK, NEW i \in Instances, Drain(i)
  PROVE  /\ UNCHANGED <<status, owner, lapsed, queue, overrun, callbacks>>
         /\ up'[i] = "draining" /\ up[i] = "up"
         /\ \A k \in Permits, r \in Runs :
              /\ Holds(task'[i][k], r) => Holds(task[i][k], r)
              /\ Holds(task[i][k], r) => Holds(task'[i][k], r) \/ dropped'[i][r]
         /\ \A j \in Instances \ {i} :
              up'[j] = up[j] /\ task'[j] = task[j] /\ dropped'[j] = dropped[j]
  <1> USE DEF TypeOK, InstancesOK, FlagsOK, row
  <1>1. ASSUME NEW k \in Permits
        PROVE  task'[i][k] = IF task[i][k].pc = "won" THEN Free ELSE task[i][k]
    BY DEF Drain
  <1>2. \A r \in Runs : dropped'[i][r] = Won(i, r)
    BY DEF Drain
  <1>3. ASSUME NEW k \in Permits, NEW r \in Runs
        PROVE  /\ Holds(task'[i][k], r) => Holds(task[i][k], r)
               /\ Holds(task[i][k], r) => Holds(task'[i][k], r) \/ dropped'[i][r]
    <2>1. CASE task[i][k].pc = "won"
      <3>1. Free.pc = "free"
        BY DEF Free
      <3>2. ~Holds(task'[i][k], r)
        BY <1>1, <2>1, <3>1 DEF Holds
      <3>3. Holds(task[i][k], r) => Won(i, r)
        BY <2>1 DEF Holds, Won
      <3> QED
        BY <1>2, <3>2, <3>3
    <2>2. CASE task[i][k].pc # "won"
      BY <1>1, <2>2
    <2> QED
      BY <2>1, <2>2
  <1> QED
    BY <1>3 DEF Drain
-------------------------------------------------------------------------------
LEMMA WorkedOnStep ==
  ASSUME TypeOK, OwnedRunsAreWorkedOn, [Next]_vars
  PROVE  OwnedRunsAreWorkedOn'
  <1> DEFINE Worked(j, q) == \/ \E k \in Permits : Holds(task[j][k], q)
                             \/ Queued(j, q)
                             \/ up[j] # "up" /\ dropped[j][q]
  <1> SUFFICES ASSUME NEW j \in Instances, NEW q \in Runs,
                      owner'[q] = j /\ status'[q] = "running", up'[j] # "down"
               PROVE  Worked(j, q)'
    BY DEF OwnedRunsAreWorkedOn, Owns, Queued
  <1>0. Owns(j, q) /\ up[j] # "down" => Worked(j, q)
    BY DEF OwnedRunsAreWorkedOn, Queued
  <1> USE ServeClusterAssumption
  <1> USE DEF Owns
  <1>1. CASE Quiet
    BY <1>0, <1>1 DEF Quiet, SameHolds, Queued
  <1>2. ASSUME NEW i \in Instances, NEW r \in Runs,
               Submit(i, r) \/ ReclaimOrphan(i, r) \/ CancelPending(i, r)
        PROVE  Worked(j, q)'
    BY <1>0, <1>2 DEF Submit, ReclaimOrphan, CancelPending, TypeOK, RowsOK, Queued, hist
  <1>3. ASSUME NEW i \in Instances, NEW r \in Runs, Claim(i, r)
        PROVE  Worked(j, q)'
    BY <1>0, <1>3, ClaimEffect DEF TypeOK, RowsOK, Queued
  <1>4. ASSUME NEW i \in Instances, NEW k \in Permits, Start(i, k)
        PROVE  Worked(j, q)'
    BY <1>0, <1>4, StartEffect DEF TypeOK, RowsOK, SameHolds, Queued
  <1>5. ASSUME NEW i \in Instances, NEW k \in Permits, WriteOutcome(i, k)
        PROVE  Worked(j, q)'
    <2> DEFINE u == task[i][k].run
    <2>1. u \in Runs /\ \A r \in Runs : Holds(task[i][k], r) => r = u
      BY OutcomeTyped DEF Holds
    <2>2. /\ up'[j] = up[j] /\ dropped' = dropped
          /\ \A l \in Permits : <<j, l>> # <<i, k>> => task'[j][l] = task[j][l]
      BY <1>5, WriteOutcomeEffect
    <2>3. CASE Settles(i, u) /\ UNCHANGED queue
      <3>1. <<j, q>> # <<i, u>> /\ Owns(j, q)
        BY <2>1, <2>3 DEF Settles
      <3>2. Queued(j, q)' <=> Queued(j, q)
        BY <2>2, <2>3 DEF Queued
      <3> QED
        BY <1>0, <2>1, <2>2, <2>3, <3>1, <3>2
    <2>4. CASE /\ \E e \in Entries : e.run = u /\ QueueFinalize(i, e)
               /\ UNCHANGED <<status, owner>>
      <3>1. PICK e \in Entries : e.run = u /\ QueueFinalize(i, e)
        BY <2>4
      <3>2. Queued(j, q)' <=> Queued(j, q) \/ (j = i /\ e.run = q)
        BY <3>1, AppendQueued
      <3>3. Queued(j, q)' <=> Queued(j, q) \/ (j = i /\ u = q)
        BY <3>1, <3>2
      <3> QED
        BY <1>0, <2>1, <2>2, <2>4, <3>3
    <2> QED
      BY <1>5, <2>3, <2>4, WriteOutcomeEffect
  <1>6. ASSUME NEW i \in Instances, NEW k \in Permits, Requeue(i, k)
        PROVE  Worked(j, q)'
    <2> DEFINE u == task[i][k].run
    <2>1. u \in Runs /\ \A r \in Runs : Holds(task[i][k], r) => r = u
      BY OutcomeTyped DEF Holds
    <2>2. UNCHANGED <<up, queue, dropped>>
      BY <1>6, RequeueEffect
    <2>3. CASE Settles(i, u) /\ \A l \in Permits : <<j, l>> # <<i, k>> => task'[j][l] = task[j][l]
      <3>1. <<j, q>> # <<i, u>> /\ Owns(j, q)
        BY <2>1, <2>3 DEF Settles
      <3>2. Queued(j, q)' <=> Queued(j, q)
        BY <2>2, <2>3 DEF Queued
      <3> QED
        BY <1>0, <2>1, <2>2, <2>3, <3>1, <3>2
    <2>4. CASE SameHolds /\ UNCHANGED <<status, owner>>
      BY <1>0, <2>2, <2>4 DEF SameHolds, Queued
    <2> QED
      BY <1>6, <2>3, <2>4, RequeueEffect
  <1>7. ASSUME NEW i \in Instances, RetryPendingFinalize(i)
        PROVE  Worked(j, q)'
    <2> DEFINE u == Head(queue[i]).run
    <2>1. u \in Runs /\ Settles(i, u) /\ UNCHANGED <<up, task, dropped>>
      BY <1>7, RetryEffect
    <2>2. <<j, q>> # <<i, u>> /\ Owns(j, q)
      BY <2>1 DEF Settles
    <2>3. Queued(j, q) => Queued(j, q)' \/ (j = i /\ q = u)
      BY <1>7, RetryEffect, TailQueued
    <2> QED
      BY <1>0, <2>1, <2>2, <2>3
  <1>8. ASSUME NEW i \in Instances, RenewLeases(i)
        PROVE  Worked(j, q)'
    BY <1>0, <1>8, CancelKeepsHolds DEF RenewLeases, SameHolds, Queued, hist
  <1>9. ASSUME NEW i \in Instances, Crash(i) \/ Exit(i)
        PROVE  Worked(j, q)'
    BY <1>0, <1>9, GoneEffect DEF Queued
  <1>10. ASSUME NEW r \in Runs, Lapse(r)
         PROVE  Worked(j, q)'
    BY <1>0, <1>10 DEF Lapse, Queued
  <1>11. ASSUME NEW i \in Instances, Drain(i)
         PROVE  Worked(j, q)'
    <2>1. Owns(j, q) /\ (up[j] # "down") /\ (Queued(j, q)' <=> Queued(j, q))
      BY <1>11, DrainEffect DEF Queued
    <2>2. CASE j # i
      BY <1>0, <1>11, <2>1, <2>2, DrainEffect
    <2>3. CASE j = i
      BY <1>0, <1>11, <2>1, <2>3, DrainEffect
    <2> QED
      BY <2>2, <2>3
  <1> QED
    BY <1>1, <1>2, <1>3, <1>4, <1>5, <1>6, <1>7, <1>8, <1>9, <1>10, <1>11, Frame

(* A running row's owner, unless its process is gone, has a task for it, is about to
   dispatch it, or has a queued write for it; only an instance that is shutting down may
   own a row that nobody works on, one of those the SIGTERM cut out of a claim. *)
THEOREM OwnedRunsWorkedOn == Spec => []OwnedRunsAreWorkedOn
  <1>1. Init => OwnedRunsAreWorkedOn
    BY DEF Init, OwnedRunsAreWorkedOn, Owns
  <1> QED
    BY <1>1, WorkedOnStep, TypeCorrect, PTL DEF Spec
-------------------------------------------------------------------------------
(* A step that takes nothing for q that was not there. *)
Keeps(q) ==
  /\ status'[q] = status[q] /\ owner'[q] = owner[q] /\ callbacks'[q] = callbacks[q]
  /\ lapsed'[q] => lapsed[q]
  /\ \A i \in Instances : \A k \in Permits : Holds(task'[i][k], q) => Holds(task[i][k], q)
  /\ \A i \in Instances : Queued(i, q)' => Queued(i, q)
  /\ \A i \in Instances : \A m, n \in DOMAIN queue'[i] :
       queue'[i][m].run = q /\ queue'[i][n].run = q => m = n
  /\ \A i \in Instances :
       /\ up[i] = "down" => up'[i] = "down"
       /\ up'[i] = "down" /\ up[i] # "down" =>
            ~Queued(i, q)' /\ \A k \in Permits : ~Holds(task'[i][k], q)

LEMMA KeepsSole ==
  ASSUME NEW q \in Runs, Sole(q), ~overrun[q], Keeps(q)
  PROVE  Sole(q)'
  <1>1. \A i \in Instances : \A k \in Permits :
          Holds(task'[i][k], q) => Owns(i, q)' /\ up'[i] # "down" /\ ~Queued(i, q)'
    BY DEF Sole, Keeps, Owns
  <1>2. \A i \in Instances : \A k, l \in Permits :
          Holds(task'[i][k], q) /\ Holds(task'[i][l], q) => k = l
    BY DEF Sole, Keeps
  <1>3. \A i \in Instances : Queued(i, q)' => Owns(i, q)' /\ up'[i] # "down"
    BY DEF Sole, Keeps, Owns
  <1>4. lapsed'[q] /\ status'[q] = "running" => owner'[q] \in Instances /\ up'[owner'[q]] = "down"
    BY DEF Sole, Keeps
  <1>5. callbacks'[q] = 0 \/ (callbacks'[q] = 1 /\ Done(q)')
    BY DEF Sole, Keeps, Done
  <1> QED
    BY <1>1, <1>2, <1>3, <1>4, <1>5 DEF Sole, Keeps

(* Nobody has a task or a queued write for q any more. *)
LEMMA VacantSole ==
  ASSUME NEW q \in Runs,
         \A i \in Instances : \A k \in Permits : ~Holds(task'[i][k], q),
         \A i \in Instances : ~Queued(i, q)',
         lapsed'[q] /\ status'[q] = "running" =>
           owner'[q] \in Instances /\ up'[owner'[q]] = "down",
         callbacks'[q] = 0 \/ (callbacks'[q] = 1 /\ Done(q)')
  PROVE  Sole(q)'
  <1>1. \A i \in Instances : \A m \in DOMAIN queue'[i] : queue'[i][m].run # q
    BY DEF Queued
  <1> QED
    BY <1>1 DEF Sole

(* A run that is not running is in nobody's hands. *)
LEMMA NotRunning ==
  ASSUME NEW q \in Runs, Sole(q), ~overrun[q], status[q] # "running"
  PROVE  /\ \A i \in Instances : \A k \in Permits : ~Holds(task[i][k], q)
         /\ \A i \in Instances : ~Queued(i, q)
  BY DEF Sole, Owns

(* The only task or queued write for q is settled. *)
LEMMA SettledSole ==
  ASSUME TypeOK, NEW q \in Runs, Sole(q), ~overrun[q], NEW i \in Instances, Settles(i, q),
         UNCHANGED up,
         \A j \in Instances : \A k \in Permits : ~Holds(task'[j][k], q),
         \A j \in Instances : ~Queued(j, q)'
  PROVE  Sole(q)'
  <1>1. lapsed'[q] /\ status'[q] = "running" =>
          owner'[q] \in Instances /\ up'[owner'[q]] = "down"
    BY DEF Settles, Sole
  <1>2. callbacks'[q] = 0 \/ (callbacks'[q] = 1 /\ Done(q)')
    <2>1. CASE callbacks'[q] = callbacks[q]
      BY <2>1 DEF Settles, Sole, Done
    <2>2. CASE /\ ~Done(q) /\ status'[q] \in Terminal
               /\ callbacks'[q] \in {callbacks[q], callbacks[q] + 1}
      BY <2>2 DEF Sole, Done
    <2> QED
      BY <2>1, <2>2 DEF Settles
  <1> QED
    BY <1>1, <1>2, VacantSole

LEMMA SoleStep ==
  ASSUME TypeOK, Soleness, [Next]_vars
  PROVE  Soleness'
  <1> SUFFICES ASSUME NEW q \in Runs, ~overrun'[q]
               PROVE  Sole(q)'
    BY DEF Soleness, Sole
  <1>0. Sole(q)
    BY DEF Soleness
  <1>u. \A i \in Instances : \A m, n \in DOMAIN queue[i] :
          ~overrun[q] /\ queue[i][m].run = q /\ queue[i][n].run = q => m = n
    BY <1>0 DEF Sole
  <1>1. CASE Quiet
    <2>1. Keeps(q)
      BY <1>u, <1>1 DEF Quiet, SameHolds, Keeps, Queued
    <2> QED
      BY <1>0, <1>1, <2>1, KeepsSole DEF Quiet
  <1>2. ASSUME NEW i \in Instances, NEW r \in Runs, Submit(i, r) \/ CancelPending(i, r)
        PROVE  Sole(q)'
    <2>1. UNCHANGED <<up, task, queue, lapsed, overrun>>
      BY <1>2 DEF Submit, CancelPending, hist
    <2>2. CASE status'[q] = status[q] /\ owner'[q] = owner[q] /\ callbacks'[q] = callbacks[q]
      <3>1. Keeps(q)
        BY <1>u, <2>1, <2>2 DEF Keeps, Queued
      <3> QED
        BY <1>0, <2>1, <3>1, KeepsSole
    <2>3. CASE q = r /\ status[q] = "absent" /\ status'[q] = "pending" /\ UNCHANGED callbacks
      <3>1. callbacks'[q] = 0
        BY <1>0, <2>1, <2>3 DEF Sole, Done, Terminal, Outcomes
      <3> QED
        BY <1>0, <2>1, <2>3, <3>1, NotRunning, VacantSole DEF Queued
    <2>4. CASE q = r /\ status[q] = "pending" /\ status'[q] = "cancelled" /\ Fire(q)
      <3>1. callbacks[q] = 0
        BY <1>0, <2>1, <2>4 DEF Sole, Done, Terminal, Outcomes
      <3>2. callbacks'[q] = 1
        BY <2>4, <3>1 DEF Fire, TypeOK, CountsOK
      <3>3. Done(q)'
        BY <2>4 DEF Done, Terminal, Outcomes
      <3> QED
        BY <1>0, <2>1, <2>4, <3>2, <3>3, NotRunning, VacantSole DEF Queued
    <2> QED
      BY <1>2, <2>2, <2>3, <2>4 DEF Submit, CancelPending, hist, TypeOK, RowsOK, CountsOK, Fire
  <1>3. ASSUME NEW i \in Instances, NEW r \in Runs, ReclaimOrphan(i, r)
        PROVE  Sole(q)'
    <2>1. UNCHANGED <<up, task, queue, overrun, callbacks>>
      BY <1>3 DEF ReclaimOrphan, hist
    <2>2. CASE q # r
      <3>1. Keeps(q)
        BY <1>3, <1>u, <2>1, <2>2 DEF Keeps, Queued, ReclaimOrphan, TypeOK, RowsOK, FlagsOK
      <3> QED
        BY <1>0, <2>1, <3>1, KeepsSole
    <2>3. CASE q = r
      <3>1. up[owner[q]] = "down" /\ callbacks'[q] = 0 /\ status[q] = "running"
        BY <1>0, <1>3, <2>1, <2>3 DEF ReclaimOrphan, Sole, Done, Terminal, Outcomes
      <3>2. \A j \in Instances : ~Queued(j, q) /\ \A k \in Permits : ~Holds(task[j][k], q)
        BY <1>0, <2>1, <3>1 DEF Sole, Owns
      <3>3. ~lapsed'[q]
        BY <1>3, <2>3 DEF ReclaimOrphan, TypeOK, FlagsOK
      <3> QED
        BY <2>1, <3>1, <3>2, <3>3, VacantSole DEF Queued
    <2> QED
      BY <2>2, <2>3
  <1>4. ASSUME NEW i \in Instances, NEW r \in Runs, Claim(i, r)
        PROVE  Sole(q)'
    <2>1. /\ UNCHANGED <<up, queue, overrun, callbacks>>
          /\ status[r] = "pending" /\ up[i] # "down"
          /\ status' = [status EXCEPT ![r] = "running"]
          /\ owner' = [owner EXCEPT ![r] = i]
          /\ lapsed' = [lapsed EXCEPT ![r] = FALSE]
      BY <1>4, ClaimEffect
    <2>2. PICK k \in Permits :
              /\ \A p \in Runs : ~Holds(task[i][k], p)
              /\ \A p \in Runs : Holds(task'[i][k], p) <=> p = r
              /\ \A j \in Instances : \A l \in Permits :
                   <<j, l>> # <<i, k>> => task'[j][l] = task[j][l]
      BY <1>4, ClaimEffect
    <2>3. CASE q # r
      <3>1. Keeps(q)
        BY <1>u, <2>1, <2>2, <2>3 DEF Keeps, Queued, TypeOK, RowsOK, FlagsOK
      <3> QED
        BY <1>0, <2>1, <3>1, KeepsSole
    <2>4. CASE q = r
      <3>1. /\ status'[q] = "running" /\ owner'[q] = i /\ ~lapsed'[q] /\ callbacks'[q] = 0
        BY <1>0, <2>1, <2>4 DEF TypeOK, RowsOK, FlagsOK, Sole, Done, Terminal, Outcomes
      <3>2. \A j \in Instances : ~Queued(j, q) /\ \A l \in Permits : ~Holds(task[j][l], q)
        BY <1>0, <2>1, <2>4, NotRunning
      <3>3. \A j \in Instances : \A l \in Permits : Holds(task'[j][l], q) => j = i /\ l = k
        BY <2>2, <3>2
      <3>4. \A j \in Instances : ~Queued(j, q)'
        BY <2>1, <3>2 DEF Queued
      <3>5. \A j \in Instances : \A m \in DOMAIN queue'[j] : queue'[j][m].run # q
        BY <3>4 DEF Queued
      <3> QED
        BY <2>1, <3>1, <3>3, <3>4, <3>5 DEF Sole, Owns
    <2> QED
      BY <2>3, <2>4
  <1>5. ASSUME NEW i \in Instances, NEW k \in Permits, Start(i, k)
        PROVE  Sole(q)'
    <2>1. UNCHANGED <<up, queue, overrun, callbacks>> /\ SameHolds
      BY <1>5, StartEffect
    <2>2. Holds(task[i][k], q) => Owns(i, q)
      BY <1>0, <2>1 DEF Sole
    <2>3. status'[q] = status[q] /\ owner'[q] = owner[q] /\ (lapsed'[q] => lapsed[q])
      BY <1>5, <2>2, StartEffect DEF Owns, TypeOK, RowsOK, FlagsOK
    <2>4. Keeps(q)
      BY <1>u, <2>1, <2>3 DEF SameHolds, Keeps, Queued
    <2> QED
      BY <1>0, <2>1, <2>4, KeepsSole
  <1>6. ASSUME NEW i \in Instances, NEW k \in Permits, WriteOutcome(i, k)
        PROVE  Sole(q)'
    <2> DEFINE u == task[i][k].run
    <2>1. /\ u \in Runs /\ Holds(task[i][k], u) /\ UNCHANGED <<up, overrun>>
          /\ \A r \in Runs : ~Holds(task'[i][k], r)
          /\ \A j \in Instances : \A l \in Permits :
               <<j, l>> # <<i, k>> => task'[j][l] = task[j][l]
      BY <1>6, OutcomeTyped, WriteOutcomeEffect
    <2>2. \A j \in Instances : \A l \in Permits :
            Holds(task'[j][l], q) => Holds(task[j][l], q) /\ <<j, l>> # <<i, k>>
      BY <2>1
    <2>3. q = u => /\ \A j \in Instances : \A l \in Permits : ~Holds(task'[j][l], q)
                   /\ \A j \in Instances : ~Queued(j, q)
                   /\ Owns(i, q) /\ up[i] # "down"
      BY <1>0, <2>1, <2>2 DEF Sole, Owns
    <2>4. CASE Settles(i, u) /\ UNCHANGED queue
      <3>1. CASE q # u
        <4>1. Keeps(q)
          BY <1>u, <2>1, <2>2, <2>4, <3>1 DEF Settles, Keeps, Queued
        <4> QED
          BY <1>0, <2>1, <4>1, KeepsSole
      <3>2. CASE q = u
        BY <1>0, <2>1, <2>3, <2>4, <3>2, SettledSole DEF Queued
      <3> QED
        BY <3>1, <3>2
    <2>5. CASE /\ \E e \in Entries : e.run = u /\ QueueFinalize(i, e)
               /\ UNCHANGED <<status, owner, lapsed, callbacks>>
      <3>1. PICK e \in Entries : e.run = u /\ QueueFinalize(i, e)
        BY <2>5
      <3>2. \A j \in Instances : Queued(j, q)' <=> Queued(j, q) \/ (j = i /\ e.run = q)
        BY <3>1, AppendQueued
      <3>3. \A m, n \in DOMAIN queue'[i] :
              \/ m \in DOMAIN queue[i] /\ n \in DOMAIN queue[i]
                   /\ queue'[i][m] = queue[i][m] /\ queue'[i][n] = queue[i][n]
              \/ m \in DOMAIN queue[i] /\ queue'[i][m] = queue[i][m] /\ queue'[i][n] = e
              \/ n \in DOMAIN queue[i] /\ queue'[i][n] = queue[i][n] /\ queue'[i][m] = e
              \/ m = n
        BY <3>1, AppendQueued
      <3>4. \A j \in Instances \ {i} : queue'[j] = queue[j]
        BY <3>1 DEF QueueFinalize, TypeOK, InstancesOK
      <3>5. ASSUME NEW j \in Instances, NEW m \in DOMAIN queue'[j], NEW n \in DOMAIN queue'[j],
                   queue'[j][m].run = q, queue'[j][n].run = q
            PROVE  m = n
        <4>1. CASE j # i
          BY <1>u, <2>1, <3>4, <3>5, <4>1
        <4>2. CASE j = i /\ q # u
          BY <1>u, <2>1, <3>1, <3>3, <3>5, <4>2
        <4>3. CASE j = i /\ q = u
          <5>1. \A p \in DOMAIN queue[i] : queue[i][p].run # q
            BY <2>3, <4>3 DEF Queued
          <5> QED
            BY <3>3, <3>5, <4>3, <5>1
        <4> QED
          BY <4>1, <4>2, <4>3
      <3>6. CASE q # u
        <4>1. Keeps(q)
          BY <2>1, <2>2, <2>5, <3>1, <3>2, <3>5, <3>6 DEF Keeps
        <4> QED
          BY <1>0, <2>1, <4>1, KeepsSole
      <3>7. CASE q = u
        <4>1. Owns(i, q)' /\ up'[i] # "down"
          BY <2>1, <2>3, <2>5, <3>7 DEF Owns
        <4>2. \A j \in Instances : Queued(j, q)' => j = i
          BY <2>3, <3>2, <3>7
        <4>3. lapsed'[q] /\ status'[q] = "running" =>
                owner'[q] \in Instances /\ up'[owner'[q]] = "down"
          BY <1>0, <2>1, <2>5 DEF Sole
        <4>4. callbacks'[q] = 0 \/ (callbacks'[q] = 1 /\ Done(q)')
          BY <1>0, <2>1, <2>5 DEF Sole, Done
        <4> QED
          BY <2>3, <3>5, <3>7, <4>1, <4>2, <4>3, <4>4 DEF Sole
      <3> QED
        BY <3>6, <3>7
    <2> QED
      BY <1>6, <2>4, <2>5, WriteOutcomeEffect
  <1>7. ASSUME NEW i \in Instances, NEW k \in Permits, Requeue(i, k)
        PROVE  Sole(q)'
    <2> DEFINE u == task[i][k].run
    <2>1. u \in Runs /\ Holds(task[i][k], u) /\ UNCHANGED <<up, overrun, queue>>
      BY <1>7, OutcomeTyped, RequeueEffect
    <2>2. CASE SameHolds /\ UNCHANGED <<status, owner, lapsed, callbacks>>
      <3>1. Keeps(q)
        BY <1>u, <2>1, <2>2 DEF SameHolds, Keeps, Queued
      <3> QED
        BY <1>0, <2>1, <3>1, KeepsSole
    <2>3. CASE /\ Settles(i, u) /\ \A r \in Runs : ~Holds(task'[i][k], r)
               /\ \A j \in Instances : \A l \in Permits :
                    <<j, l>> # <<i, k>> => task'[j][l] = task[j][l]
      <3>1. \A j \in Instances : \A l \in Permits :
              Holds(task'[j][l], q) => Holds(task[j][l], q) /\ <<j, l>> # <<i, k>>
        BY <2>3
      <3>2. CASE q # u
        <4>1. Keeps(q)
          BY <1>u, <2>1, <2>3, <3>1, <3>2 DEF Settles, Keeps, Queued
        <4> QED
          BY <1>0, <2>1, <4>1, KeepsSole
      <3>3. CASE q = u
        <4>1. /\ \A j \in Instances : \A l \in Permits : ~Holds(task'[j][l], q)
              /\ \A j \in Instances : ~Queued(j, q)
          BY <1>0, <2>1, <3>1, <3>3 DEF Sole, Owns
        <4> QED
          BY <1>0, <2>1, <2>3, <3>3, <4>1, SettledSole DEF Queued
      <3> QED
        BY <3>2, <3>3
    <2> QED
      BY <1>7, <2>2, <2>3, RequeueEffect
  <1>8. ASSUME NEW i \in Instances, RetryPendingFinalize(i)
        PROVE  Sole(q)'
    <2> DEFINE u == Head(queue[i]).run
    <2>1. /\ u \in Runs /\ Settles(i, u) /\ UNCHANGED <<up, task, overrun>>
          /\ queue[i] # <<>> /\ queue' = [queue EXCEPT ![i] = Tail(queue[i])]
      BY <1>8, RetryEffect
    <2>2. /\ Queued(i, u)
          /\ \A j \in Instances, r \in Runs : Queued(j, r)' => Queued(j, r)
          /\ \A m \in DOMAIN queue'[i] :
               m + 1 \in DOMAIN queue[i] /\ m + 1 # 1 /\ queue'[i][m] = queue[i][m + 1]
          /\ 1 \in DOMAIN queue[i] /\ queue[i][1] = Head(queue[i])
      BY <2>1, TailQueued
    <2>3. \A j \in Instances \ {i} : queue'[j] = queue[j]
      BY <2>1 DEF TypeOK, InstancesOK
    <2>4. DOMAIN queue'[i] \subseteq Nat
      <3>1. queue'[i] = Tail(queue[i]) /\ Tail(queue[i]) \in Seq(Entries)
        BY <2>1 DEF TypeOK, InstancesOK
      <3> QED
        BY <3>1
    <2>5. CASE q # u
      <3>1. ASSUME NEW j \in Instances, NEW m \in DOMAIN queue'[j], NEW n \in DOMAIN queue'[j],
                   queue'[j][m].run = q, queue'[j][n].run = q
            PROVE  m = n
        <4>1. CASE j # i
          BY <1>u, <2>1, <2>3, <3>1, <4>1
        <4>2. CASE j = i
          <5>1. m + 1 = n + 1
            BY <1>u, <2>1, <2>2, <3>1, <4>2
          <5> QED
            BY <2>4, <4>2, <5>1
        <4> QED
          BY <4>1, <4>2
      <3>2. Keeps(q)
        BY <2>1, <2>2, <2>5, <3>1 DEF Settles, Keeps
      <3> QED
        BY <1>0, <2>1, <3>2, KeepsSole
    <2>6. CASE q = u
      <3>1. /\ \A j \in Instances : \A k \in Permits : ~Holds(task'[j][k], q)
            /\ \A j \in Instances : Queued(j, q) => j = i
        BY <1>0, <2>1, <2>2, <2>6 DEF Sole, Owns
      <3>2. \A m \in DOMAIN queue'[i] : queue'[i][m].run # q
        BY <1>u, <2>1, <2>2, <2>6
      <3>3. \A j \in Instances : ~Queued(j, q)'
        <4>1. ~Queued(i, q)'
          BY <3>2 DEF Queued
        <4> QED
          BY <2>2, <3>1, <4>1
      <3> QED
        BY <1>0, <2>1, <2>6, <3>1, <3>3, SettledSole
    <2> QED
      BY <2>5, <2>6
  <1>9. ASSUME NEW i \in Instances, RenewLeases(i)
        PROVE  Sole(q)'
    <2>1. /\ UNCHANGED <<status, owner, up, queue, overrun, callbacks>>
          /\ lapsed'[q] => lapsed[q]
      BY <1>9 DEF RenewLeases, hist
    <2>2. SameHolds
      BY <1>9, CancelKeepsHolds DEF RenewLeases
    <2>3. Keeps(q)
      BY <1>u, <2>1, <2>2 DEF SameHolds, Keeps, Queued
    <2> QED
      BY <1>0, <2>1, <2>3, KeepsSole
  <1>10. ASSUME NEW i \in Instances, Crash(i) \/ Exit(i)
         PROVE  Sole(q)'
    <2>1. Keeps(q) /\ UNCHANGED overrun
      BY <1>10, <1>u, GoneEffect DEF Keeps, Queued
    <2> QED
      BY <1>0, <2>1, KeepsSole
  <1>11. ASSUME NEW r \in Runs, Lapse(r)
         PROVE  Sole(q)'
    <2>1. UNCHANGED <<status, owner, up, task, queue, callbacks>>
      BY <1>11 DEF Lapse
    <2>2. overrun[q] = overrun'[q]
      BY <1>11 DEF Lapse, TypeOK, FlagsOK
    <2>3. lapsed'[q] => lapsed[q] \/ (owner[q] \in Instances /\ up[owner[q]] = "down")
      BY <1>11 DEF Lapse, TypeOK, FlagsOK, RowsOK
    <2> QED
      BY <1>0, <2>1, <2>2, <2>3 DEF Sole, Queued, Owns, Done
  <1>12. ASSUME NEW i \in Instances, Drain(i)
         PROVE  Sole(q)'
    <2>1. Keeps(q) /\ UNCHANGED overrun
      <3>1. \A j \in Instances : \A k \in Permits : Holds(task'[j][k], q) => Holds(task[j][k], q)
        BY <1>12, DrainEffect
      <3>2. \A j \in Instances : up'[j] = "down" <=> up[j] = "down"
        BY <1>12, DrainEffect
      <3> QED
        BY <1>12, <1>u, <3>1, <3>2, DrainEffect DEF Keeps, Queued
    <2> QED
      BY <1>0, <2>1, KeepsSole
  <1> QED
    BY <1>1, <1>2, <1>3, <1>4, <1>5, <1>6, <1>7, <1>8, <1>9, <1>10, <1>11, <1>12, Frame

LEMMA SoleInit == Init => Soleness
  <1> SUFFICES ASSUME Init, NEW r \in Runs PROVE Sole(r)
    BY DEF Soleness
  <1>1. \A i \in Instances : \A k \in Permits : ~Holds(task[i][k], r)
    BY DEF Init, Free, Holds
  <1>2. \A i \in Instances : \A n \in DOMAIN queue[i] : queue[i][n].run # r
    BY DEF Init
  <1> QED
    BY <1>1, <1>2 DEF Init, Sole, Queued

LEMMA SoleAlways == Spec => []Soleness
  <1> QED
    BY SoleInit, SoleStep, TypeCorrect, PTL DEF Spec

(* Two tasks execute a run at the same time only after its lease lapsed under a live
   owner: a task's run belongs to the task's instance, and the instance has no other
   task for it. *)
THEOREM ClaimsExclusive == Spec => []OverlapNeedsAnOverrun
  <1>1. Soleness => OverlapNeedsAnOverrun
    <2> SUFFICES ASSUME Soleness, NEW r \in Runs, NEW i \in Instances, NEW j \in Instances,
                        NEW k \in Permits, NEW l \in Permits, ~overrun[r],
                        Executing(task[i][k], r), Executing(task[j][l], r)
                 PROVE  i = j /\ k = l
      BY DEF OverlapNeedsAnOverrun
    <2>1. Holds(task[i][k], r) /\ Holds(task[j][l], r)
      BY DEF Executing, Holds
    <2> QED
      BY <2>1 DEF Soleness, Sole, Owns
  <1> QED
    BY <1>1, SoleAlways, PTL

LEMMA DoneStep ==
  ASSUME TypeOK, Soleness, [Next]_vars, NEW q \in Runs, Done(q)
  PROVE  status'[q] = status[q] \/ (overrun[q] /\ status'[q] = "running")
  <1> USE DEF Done, Terminal, Outcomes
  <1>1. CASE Quiet
    BY <1>1 DEF Quiet
  <1>2. ASSUME NEW i \in Instances, NEW r \in Runs,
               \/ Submit(i, r) \/ Claim(i, r) \/ ReclaimOrphan(i, r) \/ CancelPending(i, r)
        PROVE  status'[q] = status[q]
    BY <1>2 DEF Submit, Claim, Claimable, ReclaimOrphan, CancelPending, TypeOK, RowsOK
  <1>3. ASSUME NEW i \in Instances, NEW k \in Permits, Start(i, k)
        PROVE  status'[q] = status[q] \/ (overrun[q] /\ status'[q] = "running")
    <2>1. overrun[q] \/ ~Holds(task[i][k], q)
      BY DEF Soleness, Sole, Owns
    <2> QED
      BY <1>3, <2>1, StartEffect DEF TypeOK, RowsOK
  <1>4. ASSUME NEW i \in Instances, NEW k \in Permits, WriteOutcome(i, k) \/ Requeue(i, k)
        PROVE  status'[q] = status[q]
    <2>1. Settles(i, task[i][k].run) \/ UNCHANGED status
      BY <1>4, WriteOutcomeEffect, RequeueEffect
    <2> QED
      BY <2>1 DEF Settles
  <1>5. ASSUME NEW i \in Instances, RetryPendingFinalize(i)
        PROVE  status'[q] = status[q]
    BY <1>5, RetryEffect DEF Settles
  <1>6. ASSUME NEW i \in Instances, RenewLeases(i) \/ Crash(i) \/ Drain(i) \/ Exit(i)
        PROVE  status'[q] = status[q]
    BY <1>6, GoneEffect, DrainEffect DEF RenewLeases
  <1>7. ASSUME NEW r \in Runs, Lapse(r)
        PROVE  status'[q] = status[q]
    BY <1>7 DEF Lapse
  <1> QED
    BY <1>1, <1>2, <1>3, <1>4, <1>5, <1>6, <1>7, Frame

(* Only a lapse marks a lease as overrun. *)
LEMMA OverrunStep ==
  ASSUME TypeOK, [Next]_vars
  PROVE  UNCHANGED overrun \/ UNCHANGED callbacks
  <1> USE DEF hist
  <1>1. CASE Quiet
    BY <1>1 DEF Quiet
  <1>2. ASSUME NEW i \in Instances, NEW r \in Runs,
               \/ Submit(i, r) \/ Claim(i, r) \/ ReclaimOrphan(i, r) \/ CancelPending(i, r)
        PROVE  UNCHANGED overrun
    BY <1>2 DEF Submit, Claim, ReclaimOrphan, CancelPending
  <1>3. ASSUME NEW i \in Instances, NEW k \in Permits,
               Start(i, k) \/ WriteOutcome(i, k) \/ Requeue(i, k)
        PROVE  UNCHANGED overrun
    BY <1>3 DEF Start, WriteOutcome, Requeue
  <1>4. ASSUME NEW i \in Instances,
               \/ RetryPendingFinalize(i) \/ RenewLeases(i) \/ Crash(i) \/ Drain(i)
               \/ Exit(i)
        PROVE  UNCHANGED overrun
    BY <1>4, GoneEffect, DrainEffect DEF RetryPendingFinalize, RenewLeases
  <1>5. ASSUME NEW r \in Runs, Lapse(r)
        PROVE  UNCHANGED callbacks
    BY <1>5 DEF Lapse
  <1> QED
    BY <1>1, <1>2, <1>3, <1>4, <1>5, Frame

(* No finalizer overwrites another; and while the lease never lapsed under a live owner
   a terminal record is final and the completion callback fires at most once. *)
THEOREM OutcomeIsFinal == Spec => OneOutcome
  <1>1. ASSUME TypeOK, Soleness, [Next]_vars
        PROVE  [\A r \in Runs :
                  /\ Done(r) => status'[r] = status[r] \/ (overrun[r] /\ status'[r] = "running")
                  /\ callbacks'[r] > 1 => overrun[r]]_vars
    <2> SUFFICES ASSUME NEW r \in Runs, ~overrun[r]
                 PROVE  ~(callbacks'[r] > 1)
      BY <1>1, DoneStep
    <2>1. Soleness'
      BY <1>1, SoleStep
    <2>2. CASE UNCHANGED overrun
      <3>1. callbacks'[r] = 0 \/ callbacks'[r] = 1
        BY <2>1, <2>2 DEF Soleness, Sole
      <3> QED
        BY <3>1
    <2>3. CASE UNCHANGED callbacks
      <3>1. callbacks[r] = 0 \/ callbacks[r] = 1
        BY <1>1 DEF Soleness, Sole
      <3> QED
        BY <2>3, <3>1
    <2> QED
      BY <1>1, <2>2, <2>3, OverrunStep
  <1> QED
    BY <1>1, TypeCorrect, SoleAlways, PTL DEF Spec, OneOutcome
===============================================================================
