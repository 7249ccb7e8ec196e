----------------------------- MODULE ServeCluster -----------------------------
(***************************************************************************)
(* faucet serve --cluster, whole runs (cli/src/serve/cluster.rs,           *)
(* cli/src/serve/runner.rs, the lease loop of cli/src/serve/server.rs and  *)
(* the run rows of cli/src/serve/history/sql.rs).                          *)
(*                                                                         *)
(* A run is a row of the shared history.  Every instance polls for pending *)
(* rows and claims them, one by one, up to its free permits, executes what *)
(* it claimed, renews the leases of the rows it owns, requeues the rows    *)
(* whose lease lapsed, and fences itself (cancels what it executes, to     *)
(* hand it back) when it cannot renew.  A conditional UPDATE is one step,  *)
(* guarded by its WHERE clause; a read and the write that follows it are   *)
(* two, and so are winning a row and spawning its task.                    *)
(***************************************************************************)
EXTENDS Naturals, Sequences

CONSTANTS
  Instances,
  Runs,
  Nobody,         \* owner IS NULL
  Capacity,       \* max_concurrent: the permits of an instance
  MaxAttempts,    \* --cluster-max-attempts
  MaxFaults,      \* crashes, outages and stalls in a behaviour (bound)
  Stalls          \* a live, connected instance may stall past its leases

ASSUME ServeClusterAssumption ==
  /\ Runs # {}
  /\ Nobody \notin Instances
  /\ Capacity \in Nat \ {0}
  /\ MaxAttempts \in Nat
  /\ MaxFaults \in Nat
  /\ Stalls \in BOOLEAN

VARIABLES
  \* faucet_serve_runs, shared.
  status, owner,
  lapsed,         \* lease_expires_at is in the past
  flag,           \* cancel_requested
  attempt,
  \* An instance.
  up,             \* "up", "draining" (SIGTERM), "stopping" (grace over), "down"
  reach,          \* the history answers it
  fenced,         \* ClusterHandle::is_fenced
  health,         \* LeaseHealth: "ok", "missed" a renewal, or "fenced" once
  task,           \* the task that holds each permit
  token,          \* Registry::tokens: the permit whose token a run id has, or 0
  queue,          \* pending_finalize
  cancelling,     \* a cancel request that is between its two statements
  asked,          \* a cancel was asked for: once per run (bound)
  faults,
  \* History, read by properties only.
  overrun,        \* the lease lapsed under an owner that was up
  callbacks,      \* completion callbacks fired, 2 for more than one
  dropped         \* the rows a SIGTERM cut out of the claim that had won them

row == <<status, owner, lapsed, flag, attempt>>
loop == <<fenced, health>>
hist == <<overrun, callbacks, dropped>>
cancels == <<cancelling, asked>>
vars == <<row, up, reach, loop, task, token, queue, cancels, faults, hist>>

Permits == 1..Capacity
Outcomes == {"completed", "failed", "cancelled"}
Terminal == Outcomes
Statuses == {"absent", "pending", "running"} \cup Terminal

Entries == [run : Runs, write : Outcomes \cup {"release"}]

Tasks ==
  [pc : {"free", "won", "load", "start", "work", "flush", "final", "release", "requeue",
         "close"},
   run : Runs,
   cancelled : BOOLEAN,    \* its token was fired
   fence : BOOLEAN,        \* the instance was fenced when it was interrupted
   out : Outcomes]

RowsOK ==
  /\ status \in [Runs -> Statuses]
  /\ owner \in [Runs -> Instances \cup {Nobody}]
  /\ attempt \in [Runs -> Nat]

InstancesOK ==
  /\ up \in [Instances -> {"up", "draining", "stopping", "down"}]
  /\ health \in [Instances -> {"ok", "missed", "fenced"}]
  /\ task \in [Instances -> [Permits -> Tasks]]
  /\ token \in [Instances -> [Runs -> Permits \cup {0}]]
  /\ queue \in [Instances -> Seq(Entries)]

FlagsOK ==
  /\ lapsed \in [Runs -> BOOLEAN] /\ flag \in [Runs -> BOOLEAN]
  /\ reach \in [Instances -> BOOLEAN] /\ fenced \in [Instances -> BOOLEAN]
  /\ cancelling \in [Runs -> BOOLEAN] /\ asked \in [Runs -> BOOLEAN]
  /\ overrun \in [Runs -> BOOLEAN] /\ dropped \in [Instances -> [Runs -> BOOLEAN]]

CountsOK == faults \in 0..MaxFaults /\ callbacks \in [Runs -> 0..2]

TypeOK == RowsOK /\ InstancesOK /\ FlagsOK /\ CountsOK

Done(r) == status[r] \in Terminal
Owns(i, r) == owner[r] = i /\ status[r] = "running"
Free == [pc |-> "free", run |-> CHOOSE r \in Runs : TRUE, cancelled |-> FALSE,
         fence |-> FALSE, out |-> "failed"]
Executing(t, r) == t.run = r /\ t.pc \in {"work", "flush"}
Holds(t, r) == t.run = r /\ t.pc \notin {"free", "close"}
Won(i, r) == \E k \in Permits : task[i][k].pc = "won" /\ task[i][k].run = r

Fire(r) == callbacks' = [callbacks EXCEPT ![r] = IF @ < 2 THEN @ + 1 ELSE @]

(* Fire the token registered for each run of rs.  A task looks at its token until
   it is interrupted. *)
Cancelled(i, rs) ==
  [task EXCEPT ![i] = [k \in Permits |->
     IF @[k].pc \in {"start", "work"} /\ \E r \in rs : token[i][r] = k
     THEN [@[k] EXCEPT !.cancelled = TRUE] ELSE @[k]]]
-------------------------------------------------------------------------------
Init ==
  /\ status = [r \in Runs |-> "absent"] /\ owner = [r \in Runs |-> Nobody]
  /\ lapsed = [r \in Runs |-> FALSE] /\ flag = [r \in Runs |-> FALSE]
  /\ attempt = [r \in Runs |-> 0]
  /\ up = [i \in Instances |-> "up"] /\ reach = [i \in Instances |-> TRUE]
  /\ fenced = [i \in Instances |-> FALSE]
  /\ health = [i \in Instances |-> "ok"]
  /\ task = [i \in Instances |-> [k \in Permits |-> Free]]
  /\ token = [i \in Instances |-> [r \in Runs |-> 0]]
  /\ queue = [i \in Instances |-> <<>>]
  /\ cancelling = [r \in Runs |-> FALSE]
  /\ faults = 0
  /\ asked = [r \in Runs |-> FALSE] /\ overrun = [r \in Runs |-> FALSE]
  /\ callbacks = [r \in Runs |-> 0]
  /\ dropped = [i \in Instances |-> [r \in Runs |-> FALSE]]

(* enqueue: the run is recorded pending, stamped with the submitting instance and
   a lease that nothing reads while it is pending. *)
Submit(i, r) ==
  /\ up[i] = "up" /\ reach[i] /\ status[r] = "absent"
  /\ status' = [status EXCEPT ![r] = "pending"]
  /\ owner' = [owner EXCEPT ![r] = i]
  /\ UNCHANGED <<lapsed, flag, attempt, up, reach, loop, task, token, queue, cancels,
                 faults, hist>>
-------------------------------------------------------------------------------
(* claim_loop: pending_cancellations fires the local token of every owned run
   that was flagged.  The loop does this between two claims, not within one. *)
Flagged(i) == {r \in Runs : Owns(i, r) /\ flag[r]}

CancelPoll(i) ==
  /\ up[i] = "up" /\ reach[i]
  /\ \A r \in Runs : ~Won(i, r)
  /\ Flagged(i) # {}
  /\ task' = Cancelled(i, Flagged(i))
  /\ UNCHANGED <<row, up, reach, loop, token, queue, cancels, faults, hist>>

(* Mutants: the claim is not conditional on the status, or wants a row that has no
   owner. *)
ClaimableAnyLive(r) == status[r] \in {"pending", "running"}
ClaimableUnowned(r) == status[r] = "pending" /\ owner[r] = Nobody

Claimable(r) == status[r] = "pending"

(* claim_pending: the permits are taken first, then a conditional UPDATE makes each
   row this instance's.  The batch goes on with the next row, or ends there. *)
Claim(i, r) ==
  /\ up[i] = "up" /\ reach[i] /\ Claimable(r)
  /\ \E k \in Permits :
       /\ task[i][k].pc = "free"
       /\ \A j \in Permits : j < k => task[i][j].pc # "free"
       /\ task' = [task EXCEPT ![i][k] = [Free EXCEPT !.pc = "won", !.run = r]]
  /\ status' = [status EXCEPT ![r] = "running"]
  /\ owner' = [owner EXCEPT ![r] = i]
  /\ lapsed' = [lapsed EXCEPT ![r] = FALSE]
  /\ UNCHANGED <<flag, attempt, up, reach, loop, token, queue, cancels, faults, hist>>

(* claim_loop, after the batch: resume_claimed puts every row that was won in flight
   and spawns its task, with no await between two of them. *)
Dispatch(i) ==
  /\ up[i] = "up" /\ \E r \in Runs : Won(i, r)
  /\ task' = [task EXCEPT ![i] = [k \in Permits |->
       IF @[k].pc = "won" THEN [@[k] EXCEPT !.pc = "load"] ELSE @[k]]]
  /\ UNCHANGED <<row, up, reach, loop, token, queue, cancels, faults, hist>>

(* resume_claimed: the stored config is loaded again, and only then is the run's
   token registered; a run that does not load is finalized as failed. *)
Load(i, k) ==
  LET t == task[i][k] IN
  /\ up[i] # "down" /\ t.pc = "load"
  /\ \/ /\ task' = [task EXCEPT ![i][k].pc = "start"]
        /\ token' = [token EXCEPT ![i][t.run] = k]
     \/ /\ task' = [task EXCEPT ![i][k].pc = "final"]
        /\ UNCHANGED token
  /\ UNCHANGED <<row, up, reach, loop, queue, cancels, faults, hist>>

(* execute_run reads the record and writes it back as running: an upsert, which
   stamps this instance as the owner whatever the row has become.  An error of
   either is ignored. *)
Start(i, k) ==
  LET r == task[i][k].run IN
  /\ up[i] # "down" /\ task[i][k].pc = "start"
  /\ task' = [task EXCEPT ![i][k].pc = "work"]
  /\ IF reach[i]
     THEN /\ status' = [status EXCEPT ![r] = "running"]
          /\ owner' = [owner EXCEPT ![r] = i]
          /\ lapsed' = [lapsed EXCEPT ![r] = FALSE]
     ELSE UNCHANGED <<status, owner, lapsed>>
  /\ UNCHANGED <<flag, attempt, up, reach, loop, token, queue, cancels, faults, hist>>

(* The work ends by itself: it completes, or it fails (a timeout, which stops it
   at a page boundary first, is recorded as a failure too). *)
WorkEnds(i, k) ==
  /\ up[i] # "down" /\ task[i][k].pc = "work"
  /\ \E o \in {"completed", "failed"} :
       task' = [task EXCEPT ![i][k] = [@ EXCEPT !.pc = "final", !.out = o,
                                                !.cancelled = FALSE]]
  /\ UNCHANGED <<row, up, reach, loop, token, queue, cancels, faults, hist>>

(* A cancel trigger: the token, or the shutdown. *)
Interrupt(i, k) ==
  LET t == task[i][k] IN
  /\ up[i] # "down" /\ t.pc = "work"
  /\ \/ /\ t.cancelled
        /\ task' = [task EXCEPT ![i][k] = [@ EXCEPT !.pc = "flush", !.fence = fenced[i],
                                                    !.out = "cancelled",
                                                    !.cancelled = FALSE]]
     \/ /\ up[i] = "stopping"
        /\ task' = [task EXCEPT ![i][k] = [@ EXCEPT !.pc = "flush", !.out = "failed",
                                                    !.cancelled = FALSE]]
  /\ UNCHANGED <<row, up, reach, loop, token, queue, cancels, faults, hist>>

(* What follows the flush of an interrupted run: one this instance's fence
   stopped goes back to the cluster, one the shutdown stopped too, one somebody
   cancelled is cancelled. *)
AfterFlush(t) ==
  CASE t.out = "failed" -> "requeue"
    [] t.out = "cancelled" /\ t.fence -> "release"
    [] OTHER -> "final"

(* The flush ends within the grace; its own failure is the outcome. *)
FlushEnds(i, k) ==
  LET t == task[i][k] IN
  /\ up[i] # "down" /\ t.pc = "flush"
  /\ \/ task' = [task EXCEPT ![i][k] = [@ EXCEPT !.pc = AfterFlush(t), !.fence = FALSE]]
     \/ task' = [task EXCEPT ![i][k] = [@ EXCEPT !.pc = "final", !.out = "failed",
                                                 !.fence = FALSE]]
  /\ UNCHANGED <<row, up, reach, loop, token, queue, cancels, faults, hist>>
-------------------------------------------------------------------------------
(* Mutant: the finalize is fenced by the owner only. *)
FinalizesOwned(i, r) == owner[r] = i

(* finalize_owned: WHERE owner = me AND status is not terminal.  First finalizer
   wins. *)
Finalizes(i, r) == owner[r] = i /\ ~Done(r)

(* release_owned: WHERE owner = me AND status = 'running'. *)
Released(i, r) ==
  IF Owns(i, r)
  THEN /\ status' = [status EXCEPT ![r] = "pending"]
       /\ owner' = [owner EXCEPT ![r] = Nobody]
       /\ lapsed' = [lapsed EXCEPT ![r] = FALSE]
  ELSE UNCHANGED <<status, owner, lapsed>>

(* write_pending: the winner of the finalize runs the completion effects, and a
   write that is not this instance's any more is discarded. *)
WritePending(i, r, write) ==
  IF write = "release"
  THEN Released(i, r) /\ UNCHANGED callbacks
  ELSE IF Finalizes(i, r)
       THEN /\ status' = [status EXCEPT ![r] = write]
            /\ lapsed' = [lapsed EXCEPT ![r] = FALSE]
            /\ Fire(r)
            /\ UNCHANGED owner
       ELSE UNCHANGED <<status, owner, lapsed, callbacks>>

(* Mutants: a write the history did not take is forgotten, or kept without what it
   was to write. *)
Forgotten(i, e) == UNCHANGED queue
Unlabelled(i, e) == queue' = [queue EXCEPT ![i] = Append(@, e.run)]

QueueFinalize(i, e) == queue' = [queue EXCEPT ![i] = Append(@, e)]

(* finalize and hand_back: a write the history does not take is queued for the
   lease loop. *)
WriteOutcome(i, k) ==
  LET t == task[i][k]
      w == IF t.pc = "release" THEN "release" ELSE t.out
  IN
  /\ up[i] # "down" /\ t.pc \in {"final", "release"}
  /\ task' = [task EXCEPT ![i][k] = [@ EXCEPT !.pc = "close", !.out = "failed"]]
  /\ IF reach[i]
     THEN WritePending(i, t.run, w) /\ UNCHANGED queue
     ELSE /\ QueueFinalize(i, [run |-> t.run, write |-> w])
          /\ UNCHANGED <<status, owner, lapsed, callbacks>>
  /\ UNCHANGED <<flag, attempt, up, reach, loop, token, cancels, faults, overrun,
                 dropped>>

(* A shutdown hands the run back; one it cannot hand back it finalizes, as
   failed. *)
Requeue(i, k) ==
  LET r == task[i][k].run IN
  /\ up[i] # "down" /\ task[i][k].pc = "requeue"
  /\ IF reach[i] /\ Owns(i, r)
     THEN task' = [task EXCEPT ![i][k].pc = "close"] /\ Released(i, r)
     ELSE /\ task' = [task EXCEPT ![i][k].pc = "final"]
          /\ UNCHANGED <<status, owner, lapsed>>
  /\ UNCHANGED <<flag, attempt, up, reach, loop, token, queue, cancels, faults, hist>>

(* The in-flight guard and the permit go with the task; the guard removes the
   token of the run id, whoever registered it. *)
Close(i, k) ==
  /\ up[i] # "down" /\ task[i][k].pc = "close"
  /\ token' = [token EXCEPT ![i][task[i][k].run] = 0]
  /\ task' = [task EXCEPT ![i][k] = Free]
  /\ UNCHANGED <<row, up, reach, loop, queue, cancels, faults, hist>>
-------------------------------------------------------------------------------
(* The lease loop runs until the shutdown token fires.  A reclaim follows every
   renewal, the failed ones too, so their order promises nothing and the model
   keeps none. *)
Beating(i) == up[i] \in {"up", "draining"}

(* maintain_leases: queued writes first ... *)
RetryPendingFinalize(i) ==
  /\ Beating(i) /\ reach[i] /\ queue[i] # <<>>
  /\ WritePending(i, Head(queue[i]).run, Head(queue[i]).write)
  /\ queue' = [queue EXCEPT ![i] = Tail(@)]
  /\ UNCHANGED <<flag, attempt, up, reach, loop, task, token, cancels, faults, overrun,
                 dropped>>

(* A run the row says is live and not ours is cancelled here. *)
Lost(i) == {r \in Runs : token[i][r] # 0 /\ ~Done(r) /\ owner[r] # i}

(* ... then the renewal of every row this instance owns, an expired lease that
   nobody reclaimed included.  It ends the fence; LeaseHealth hears of it only if
   no run was lost.  A task that waits for its trigger when the fence fires sees
   it before the next renewal. *)
RenewLeases(i) ==
  /\ Beating(i) /\ reach[i]
  /\ fenced[i] => \A k \in Permits : ~(task[i][k].pc = "work" /\ task[i][k].cancelled)
  /\ lapsed' = [r \in Runs |-> lapsed[r] /\ ~Owns(i, r)]
  /\ fenced' = [fenced EXCEPT ![i] = FALSE]
  /\ task' = Cancelled(i, Lost(i))
  /\ health' = IF Lost(i) = {} THEN [health EXCEPT ![i] = "ok"] ELSE health
  /\ UNCHANGED <<status, owner, flag, attempt, up, reach, token, queue, cancels, faults,
                 hist>>

(* A failed renewal; the second in a row fences the instance, once in an outage:
   every registered token is fired. *)
RenewFails(i) ==
  /\ Beating(i) /\ ~reach[i] /\ health[i] # "fenced"
  /\ IF health[i] = "missed"
     THEN /\ health' = [health EXCEPT ![i] = "fenced"]
          /\ fenced' = [fenced EXCEPT ![i] = TRUE]
          /\ task' = Cancelled(i, Runs)
     ELSE /\ health' = [health EXCEPT ![i] = "missed"]
          /\ UNCHANGED <<fenced, task>>
  /\ UNCHANGED <<row, up, reach, token, queue, cancels, faults, hist>>

(* reclaim_orphans: a lapsed run is requeued, its cancel flag kept, or failed once
   it was reclaimed max_attempts times; one row at a time, each conditional. *)
ReclaimOrphan(i, r) ==
  /\ Beating(i) /\ reach[i] /\ status[r] = "running" /\ lapsed[r]
  /\ status' = [status EXCEPT ![r] = IF attempt[r] < MaxAttempts THEN "pending" ELSE "failed"]
  /\ attempt' = [attempt EXCEPT ![r] = @ + 1]
  /\ owner' = [owner EXCEPT ![r] = Nobody]
  /\ lapsed' = [lapsed EXCEPT ![r] = FALSE]
  /\ UNCHANGED <<flag, up, reach, loop, task, token, queue, cancels, faults, hist>>
-------------------------------------------------------------------------------
(* runtime::server::cancel, at an instance that runs it: its token, and nothing
   is stored. *)
CancelHere(i, r) ==
  /\ up[i] = "up" /\ ~asked[r] /\ token[i][r] # 0
  /\ task' = Cancelled(i, {r})
  /\ asked' = [asked EXCEPT ![r] = TRUE]
  /\ UNCHANGED <<row, up, reach, loop, token, queue, cancelling, faults, hist>>

(* At another: a pending run is cancelled outright ... *)
CancelPending(i, r) ==
  /\ up[i] = "up" /\ reach[i] /\ ~asked[r] /\ token[i][r] = 0
  /\ status[r] \in {"pending", "running"}
  /\ asked' = [asked EXCEPT ![r] = TRUE]
  /\ IF status[r] = "pending"
     THEN /\ status' = [status EXCEPT ![r] = "cancelled"]
          /\ Fire(r)
          /\ UNCHANGED cancelling
     ELSE /\ cancelling' = [cancelling EXCEPT ![r] = TRUE]
          /\ UNCHANGED <<status, callbacks>>
  /\ UNCHANGED <<owner, lapsed, flag, attempt, up, reach, loop, task, token, queue, faults,
                 overrun, dropped>>

(* ... and a running one is flagged, by a second statement that finds what the
   row has become. *)
RequestCancel(r) ==
  /\ cancelling[r]
  /\ cancelling' = [cancelling EXCEPT ![r] = FALSE]
  /\ flag' = [flag EXCEPT ![r] = flag[r] \/ status[r] = "running"]
  /\ UNCHANGED <<status, owner, lapsed, attempt, up, reach, loop, task, token, queue, asked,
                 faults, hist>>
-------------------------------------------------------------------------------
(* The world.  Somebody always stays up. *)
Survivor(i) == \E j \in Instances \ {i} : up[j] = "up"

(* The process is gone, with everything it kept in memory. *)
Gone(i) ==
  /\ up' = [up EXCEPT ![i] = "down"] /\ reach' = [reach EXCEPT ![i] = TRUE]
  /\ fenced' = [fenced EXCEPT ![i] = FALSE]
  /\ health' = [health EXCEPT ![i] = "ok"]
  /\ task' = [task EXCEPT ![i] = [k \in Permits |-> Free]]
  /\ token' = [token EXCEPT ![i] = [r \in Runs |-> 0]]
  /\ queue' = [queue EXCEPT ![i] = <<>>]
  /\ UNCHANGED <<row, cancels, hist>>

Crash(i) ==
  /\ up[i] = "up" /\ Survivor(i) /\ faults < MaxFaults
  /\ faults' = faults + 1
  /\ Gone(i)

(* SIGTERM: the claim loop is aborted where it awaits.  The rows of an unfinished
   batch stay this instance's and nobody runs them ... *)
Drain(i) ==
  /\ up[i] = "up" /\ Survivor(i) /\ faults < MaxFaults
  /\ faults' = faults + 1
  /\ up' = [up EXCEPT ![i] = "draining"]
  /\ task' = [task EXCEPT ![i] = [k \in Permits |->
       IF @[k].pc = "won" THEN Free ELSE @[k]]]
  /\ dropped' = [dropped EXCEPT ![i] = [r \in Runs |-> Won(i, r)]]
  /\ UNCHANGED <<row, reach, loop, token, queue, cancels, overrun, callbacks>>

(* ... the shutdown token fires when the grace is over, which stops the lease
   loop too ... *)
Stop(i) ==
  /\ up[i] = "draining"
  /\ up' = [up EXCEPT ![i] = "stopping"]
  /\ UNCHANGED <<row, reach, loop, task, token, queue, cancels, faults, hist>>

(* ... and the process exits when it is drained, or when the flush grace is over. *)
Exit(i) ==
  /\ \/ up[i] = "stopping"
     \/ up[i] = "draining" /\ \A k \in Permits : task[i][k].pc = "free"
  /\ Gone(i)
  /\ UNCHANGED faults

Disconnect(i) ==
  /\ up[i] # "down" /\ reach[i] /\ faults < MaxFaults
  /\ faults' = faults + 1
  /\ reach' = [reach EXCEPT ![i] = FALSE]
  /\ UNCHANGED <<row, up, loop, task, token, queue, cancels, hist>>

Reconnect(i) ==
  /\ ~reach[i]
  /\ reach' = [reach EXCEPT ![i] = TRUE]
  /\ UNCHANGED <<row, up, loop, task, token, queue, cancels, faults, hist>>

(* The lease of a run ends: its owner is gone; or does not renew it any more, being
   shut down; or has not reached the history for so long that it fenced itself and
   what the fence interrupted has had its grace; or has stalled. *)
Lapse(r) ==
  LET i == owner[r] IN
  /\ status[r] = "running" /\ ~lapsed[r] /\ i # Nobody
  /\ lapsed' = [lapsed EXCEPT ![r] = TRUE]
  /\ \/ up[i] = "down" /\ UNCHANGED <<faults, overrun>>
     \/ /\ \/ up[i] = "stopping"
           \/ /\ up[i] # "down" /\ ~reach[i] /\ health[i] = "fenced"
              /\ \A k \in Permits : Executing(task[i][k], r) =>
                   ~task[i][k].cancelled /\ ~task[i][k].fence
        /\ overrun' = [overrun EXCEPT ![r] = TRUE]
        /\ UNCHANGED faults
     \/ /\ Stalls /\ up[i] \in {"up", "draining"} /\ faults < MaxFaults
        /\ overrun' = [overrun EXCEPT ![r] = TRUE]
        /\ faults' = faults + 1
  /\ UNCHANGED <<status, owner, flag, attempt, up, reach, loop, task, token, queue,
                 cancels, callbacks, dropped>>

Step(i, k) ==
  \/ Load(i, k) \/ Start(i, k) \/ Interrupt(i, k) \/ FlushEnds(i, k)
  \/ WriteOutcome(i, k) \/ Requeue(i, k) \/ Close(i, k)

Next ==
  \/ \E i \in Instances :
       \/ \E r \in Runs :
            \/ Submit(i, r) \/ Claim(i, r) \/ ReclaimOrphan(i, r)
            \/ CancelHere(i, r) \/ CancelPending(i, r)
       \/ \E k \in Permits : Step(i, k) \/ WorkEnds(i, k)
       \/ CancelPoll(i) \/ Dispatch(i) \/ RetryPendingFinalize(i)
       \/ RenewLeases(i) \/ RenewFails(i)
       \/ Crash(i) \/ Drain(i) \/ Stop(i) \/ Exit(i) \/ Disconnect(i) \/ Reconnect(i)
  \/ \E r \in Runs : RequestCancel(r) \/ Lapse(r)

Spec == Init /\ [][Next]_vars

(* The loops of a live instance and the tasks it spawned go on, and the database
   comes back.  Nothing says that a run's work ends, or that anything fails. *)
FairSpec ==
  /\ Spec
  /\ \A i \in Instances :
       /\ WF_vars(RetryPendingFinalize(i)) /\ SF_vars(RenewLeases(i))
       /\ WF_vars(RenewFails(i)) /\ WF_vars(CancelPoll(i)) /\ WF_vars(Dispatch(i))
       /\ WF_vars(Reconnect(i)) /\ WF_vars(Stop(i)) /\ WF_vars(Exit(i))
       /\ \A r \in Runs : WF_vars(Claim(i, r)) /\ WF_vars(ReclaimOrphan(i, r))
       /\ \A k \in Permits : WF_vars(Step(i, k))
  /\ \A r \in Runs : WF_vars(Lapse(r)) /\ WF_vars(RequestCancel(r))
-------------------------------------------------------------------------------
(* A live instance renews whatever row it owns, so a row nobody works on is not
   reclaimed while the instance lives: a running row of a live owner has a task there
   (or is in the batch its claim loop is about to dispatch), or a write that is queued
   for it.  The exception is a row whose claim a SIGTERM cut off: the instance that
   won it renews it until it exits, and it exits, for it is draining.  (An UPDATE
   whose answer is lost would be another; statements here are not lost that way.) *)
OwnedRunsAreWorkedOn ==
  \A r \in Runs : \A i \in Instances :
    Owns(i, r) /\ up[i] # "down" =>
      \/ \E k \in Permits : Holds(task[i][k], r)
      \/ \E n \in DOMAIN queue[i] : queue[i][n].run = r
      \/ up[i] # "up" /\ dropped[i][r]

(* Claims are exclusive: two tasks execute a run at the same time only after its
   lease lapsed under an owner that was up, never because of a race of claims,
   reclaims and hand-backs. *)
OverlapNeedsAnOverrun ==
  \A r \in Runs : \A i, j \in Instances : \A k, l \in Permits :
    Executing(task[i][k], r) /\ Executing(task[j][l], r) /\ <<i, k>> # <<j, l>>
      => overrun[r]

(* Finalizers do not overwrite each other, the zombies of an overrun lease and a
   second execution by the same instance included; and while no lease lapsed under
   a live owner, a terminal record is final and the completion callback fires at
   most once, whatever crashed, was handed back or was reclaimed. *)
OneOutcome ==
  [][\A r \in Runs :
       /\ Done(r) => status'[r] = status[r] \/ (overrun[r] /\ status'[r] = "running")
       /\ callbacks'[r] > 1 => overrun[r]]_vars

(* A pending run is executed, or ends. *)
PendingIsPickedUp ==
  \A r \in Runs :
    status[r] = "pending" ~>
      Done(r) \/ \E i \in Instances : \E k \in Permits : Executing(task[i][k], r)

-------------------------------------------------------------------------------
(* cli/src/serve/history/sql.rs:1641: a stale execution "can never overwrite the
   terminal record written by the live execution.  First finalizer wins." *)
FirstFinalizerWins == [][\A r \in Runs : Done(r) => status'[r] = status[r]]_vars
===============================================================================
