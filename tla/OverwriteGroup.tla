---------------------------- MODULE OverwriteGroup ----------------------------
(***************************************************************************)
(* write_mode: overwrite across a fan-out: one level of the executor       *)
(* (cli/src/executor.rs), whose invocations are grouped by destination,    *)
(* and the staging of the SQL sinks (crates/common/sql/src/driver.rs,      *)
(* crates/sink/postgres/src/sink.rs, crates/core/src/idempotency.rs).      *)
(*                                                                         *)
(* The executor begins each group once, runs the invocations as concurrent *)
(* tasks that write to the staging table of the run, joins them, and swaps *)
(* or discards the staging of each group.  Several runs of one config may  *)
(* overlap: each has a token, and so a staging table, of its own.          *)
(***************************************************************************)
EXTENDS Naturals, FiniteSets

CONSTANTS
  Runs,           \* executions of one config, by their overwrite run token
  Units,          \* the overwriting invocations of a level
  Dests,
  Configs,        \* the configs and flags to consider: the destination each unit
                  \* resolves to, execution.on_error, whether --limit is given,
                  \* and whether the destinations are there at first
  Pages,          \* pages each unit has to write
  Nobody,         \* whoever filled a destination before
  MaxFaults       \* crashes and failed calls (bound)

ASSUME OverwriteGroupAssumption ==
  /\ IsFiniteSet(Units)
  /\ Configs \subseteq [plan : [Units -> Dests], onError : {"stop", "continue"},
                        limited : BOOLEAN, there : BOOLEAN]
  /\ Pages \in Nat \ {0}
  /\ Nobody \notin Runs
  /\ MaxFaults \in Nat

VARIABLES
  plan, onError, limited,      \* the config and the flags of every run
  \* The database.
  target,         \* each destination: whether it exists, who filled it, its rows
  staging,        \* the staging table of each run and destination
  \* A run.
  phase,
  cancel,         \* the token of its caller
  level,          \* level_cancel
  stopping,       \* stop_deadline is set
  todo,           \* the groups the begin or the finalize loop has yet to visit
  beginFailed, failed, unswapped,   \* groups
  aged,           \* the token is older than ABANDONED_OVERWRITE_STAGING
  \* An invocation of a run.
  task,
  written,        \* pages it has written
  faults,
  \* History, read by properties only.
  swapped         \* the destinations a run has swapped

config == <<plan, onError, limited>>
db == <<target, staging>>
flow == <<cancel, level, stopping, todo, beginFailed, failed, unswapped, aged>>
units == <<task, written>>
vars == <<config, db, phase, flow, units, faults, swapped>>

Rows == Units \X (1..Pages)
Ended == {"done", "dead"}
Live(r) == phase[r] \notin Ended \cup {"idle"}
Cancelled(r) == cancel[r] \/ level[r]

TypeOK ==
  /\ plan \in [Units -> Dests] /\ onError \in {"stop", "continue"} /\ limited \in BOOLEAN
  /\ target \in [Dests -> [there : BOOLEAN, by : Runs \cup {Nobody}, rows : SUBSET Rows]]
  /\ staging \in [Runs -> [Dests -> [there : BOOLEAN, rows : SUBSET Rows]]]
  /\ phase \in [Runs -> {"idle", "begin", "join", "finalize"} \cup Ended]
  /\ cancel \in [Runs -> BOOLEAN] /\ level \in [Runs -> BOOLEAN]
  /\ stopping \in [Runs -> BOOLEAN] /\ aged \in [Runs -> BOOLEAN]
  /\ todo \in [Runs -> SUBSET Dests] /\ beginFailed \in [Runs -> SUBSET Dests]
  /\ failed \in [Runs -> SUBSET Dests] /\ unswapped \in [Runs -> SUBSET Dests]
  /\ task \in [Runs -> [Units -> {"planned", "unresolved", "running", "ended", "broke",
                                  "ok", "error", "skipped"}]]
  /\ written \in [Runs -> [Units -> 0..Pages]]
  /\ faults \in 0..MaxFaults
  /\ swapped \in [Runs -> SUBSET Dests]

Absent == [there |-> FALSE, rows |-> {}]
Empty == [there |-> TRUE, rows |-> {}]

Fault == faults < MaxFaults /\ faults' = faults + 1
Maybe == faults' = faults \/ Fault
-------------------------------------------------------------------------------
Init ==
  /\ \E c \in Configs :
       /\ plan = c.plan /\ onError = c.onError /\ limited = c.limited
       /\ target = [d \in Dests |-> [there |-> c.there, by |-> Nobody, rows |-> {}]]
  /\ staging = [r \in Runs |-> [d \in Dests |-> Absent]]
  /\ phase = [r \in Runs |-> "idle"]
  /\ cancel = [r \in Runs |-> FALSE] /\ level = [r \in Runs |-> FALSE]
  /\ stopping = [r \in Runs |-> FALSE] /\ aged = [r \in Runs |-> FALSE]
  /\ todo = [r \in Runs |-> {}] /\ beginFailed = [r \in Runs |-> {}]
  /\ failed = [r \in Runs |-> {}] /\ unswapped = [r \in Runs |-> {}]
  /\ task = [r \in Runs |-> [u \in Units |-> "planned"]]
  /\ written = [r \in Runs |-> [u \in Units |-> 0]]
  /\ faults = 0
  /\ swapped = [r \in Runs |-> {}]

Members(r, d) == {u \in Units : plan[u] = d /\ task[r][u] # "unresolved"}
Groups(r) == {d \in Dests : Members(r, d) # {}}

(* plan_overwrite_units: a unit whose destination does not resolve is a failure
   of that invocation, which under on_error: stop cancels the level. *)
Plan(r) ==
  /\ phase[r] = "idle"
  /\ \E lost \in SUBSET Units :
       /\ IF lost = {} THEN UNCHANGED faults ELSE Fault
       /\ task' = [task EXCEPT ![r] = [u \in Units |-> IF u \in lost THEN "unresolved"
                                                                   ELSE "planned"]]
       /\ level' = [level EXCEPT ![r] = lost # {} /\ onError = "stop"]
       /\ todo' = [todo EXCEPT ![r] = {plan[u] : u \in Units \ lost}]
       /\ phase' = [phase EXCEPT ![r] = IF lost = Units THEN "join" ELSE "begin"]
  /\ UNCHANGED <<config, db, cancel, stopping, beginFailed, failed, unswapped, aged, written,
                 swapped>>

(* overwrite_run_abandoned: the age of the token alone tells. *)
Abandoned(r, s) == s # r /\ aged[s]

(* begin_overwrite of a SQL sink: drop this run's staging and what others have
   abandoned, then clone the destination; with none, the first write creates the
   staging.  A call that fails may have done all of it. *)
Staged(r, d) ==
  [s \in Runs |->
     IF s = r THEN [staging[s] EXCEPT ![d] = IF target[d].there THEN Empty ELSE Absent]
     ELSE IF Abandoned(r, s) THEN [staging[s] EXCEPT ![d] = Absent]
     ELSE staging[s]]

Begin(r, d) ==
  /\ phase[r] = "begin" /\ d \in todo[r]
  /\ todo' = [todo EXCEPT ![r] = @ \ {d}]
  /\ \/ /\ staging' = Staged(r, d)
        /\ UNCHANGED <<beginFailed, failed, faults>>
     \/ /\ Fault
        /\ staging' \in {staging, Staged(r, d)}
        /\ beginFailed' = [beginFailed EXCEPT ![r] = @ \cup {d}]
        /\ failed' = [failed EXCEPT ![r] = @ \cup {d}]
  /\ UNCHANGED <<config, target, phase, cancel, level, stopping, unswapped, aged, units, swapped>>

(* The spawn loop skips a unit once the level is stopped, and reports a unit whose
   group did not begin. *)
Spawn(r, u) ==
  /\ phase[r] = "begin" /\ todo[r] = {} /\ task[r][u] = "planned"
  /\ task' = [task EXCEPT ![r][u] =
                IF Cancelled(r) /\ onError = "stop" THEN "skipped"
                ELSE IF plan[u] \in beginFailed[r] THEN "error"
                ELSE "running"]
  /\ phase' = [phase EXCEPT ![r] = IF \A w \in Units \ {u} : task[r][w] # "planned"
                                   THEN "join" ELSE @]
  /\ UNCHANGED <<config, db, flow, written, faults, swapped>>
-------------------------------------------------------------------------------
(* Mutant: a sink that finds no staging makes one. *)
RecreatesAlways(r, u) == written[r][u] = 0

(* ensure_table_ready, at the first write of a sink: a staging that is missing is
   made from the page on a first run, and refused once the destination exists. *)
Recreates(r, u) == written[r][u] = 0 /\ ~target[plan[u]].there

(* Mutant: one page too many. *)
OneMorePage(r, u) == written[r][u] <= Pages

HasPage(r, u) == written[r][u] < Pages

(* run_unit, its overwrite lifecycle suppressed: a page is written to the staging
   of the run, if it is there or can be made. *)
Write(r, u) ==
  /\ Live(r) /\ task[r][u] = "running" /\ HasPage(r, u)
  /\ LET d == plan[u]
         s == staging[r][d]
     IN  IF s.there \/ Recreates(r, u)
         THEN /\ staging' = [staging EXCEPT ![r][d] =
                               [there |-> TRUE, rows |-> s.rows \cup {<<u, written[r][u] + 1>>}]]
              /\ written' = [written EXCEPT ![r][u] = @ + 1]
              /\ UNCHANGED task
         ELSE /\ task' = [task EXCEPT ![r][u] = "broke"]
              /\ UNCHANGED <<staging, written>>
  /\ UNCHANGED <<config, target, phase, flow, faults, swapped>>

(* The pipeline ends well: after its last page, at --limit, or at a page boundary
   once it is cancelled. *)
Return(r, u) ==
  /\ Live(r) /\ task[r][u] = "running"
  /\ written[r][u] = Pages \/ limited \/ Cancelled(r)
  /\ task' = [task EXCEPT ![r][u] = "ended"]
  /\ UNCHANGED <<config, db, phase, flow, written, faults, swapped>>

(* It fails, or a budget stops it, or it panics. *)
Break(r, u) ==
  /\ Live(r) /\ task[r][u] = "running" /\ Fault
  /\ task' = [task EXCEPT ![r][u] = "broke"]
  /\ UNCHANGED <<config, db, phase, flow, written, swapped>>
-------------------------------------------------------------------------------
(* The join loop.  The first failure under on_error: stop cancels the level and
   starts the grace of the others. *)
Join(r, u) ==
  /\ phase[r] = "join" /\ task[r][u] \in {"ended", "broke"}
  /\ IF task[r][u] = "ended"
     THEN /\ task' = [task EXCEPT ![r][u] = "ok"]
          /\ UNCHANGED <<failed, level, stopping>>
     ELSE /\ task' = [task EXCEPT ![r][u] = "error"]
          /\ failed' = [failed EXCEPT ![r] = @ \cup {plan[u]}]
          /\ level' = [level EXCEPT ![r] = @ \/ onError = "stop"]
          /\ stopping' = [stopping EXCEPT ![r] = @ \/ onError = "stop"]
  /\ UNCHANGED <<config, db, phase, cancel, todo, beginFailed, unswapped, aged, written,
                 faults, swapped>>

(* Mutant: the grace elapses and nothing is aborted. *)
AbortsNone(r) == UNCHANGED task

(* abort_all: what has not returned is reported skipped. *)
Aborts(r) ==
  task' = [task EXCEPT ![r] = [u \in Units |->
             IF @[u] = "running" THEN "skipped" ELSE @[u]]]

Grace(r) ==
  /\ phase[r] = "join" /\ stopping[r]
  /\ \E u \in Units : task[r][u] = "running"
  /\ Aborts(r)
  /\ UNCHANGED <<config, db, phase, flow, written, faults, swapped>>

(* must_abort, negated.  The cancel tokens are read once, at the end of the join:
   `level` takes what that read saw. *)
Commits(r, d) == ~level[r] /\ ~limited /\ d \notin failed[r]

Joined(r) ==
  /\ phase[r] = "join"
  /\ \A u \in Units : task[r][u] \in {"unresolved", "ok", "error", "skipped"}
  /\ level' = [level EXCEPT ![r] = Cancelled(r)]
  /\ todo' = [todo EXCEPT ![r] = Groups(r)]
  /\ phase' = [phase EXCEPT ![r] = "finalize"]
  /\ UNCHANGED <<config, db, cancel, stopping, beginFailed, failed, unswapped, aged, units,
                 faults, swapped>>

(* commit_overwrite: swap the staging in, in one transaction, or publish it as the
   destination; a first run that wrote nothing leaves none. *)
Swap(r, d) ==
  IF staging[r][d].there
  THEN /\ target' = [target EXCEPT ![d] =
                       [there |-> TRUE, by |-> r, rows |-> staging[r][d].rows]]
       /\ staging' = [staging EXCEPT ![r][d] = Absent]
       /\ swapped' = [swapped EXCEPT ![r] = @ \cup {d}]
  ELSE UNCHANGED <<db, swapped>>

Commit(r, d) ==
  /\ phase[r] = "finalize" /\ d \in todo[r] /\ Commits(r, d)
  /\ todo' = [todo EXCEPT ![r] = @ \ {d}]
  /\ \/ /\ staging[r][d].there \/ ~target[d].there
        /\ Swap(r, d)
        /\ UNCHANGED <<unswapped, faults>>
     \/ \* the sink cannot be built, the staging is gone, or the commit fails,
        \* which may have happened all the same
        /\ IF staging[r][d].there \/ ~target[d].there THEN Fault ELSE Maybe
        /\ \/ Swap(r, d)
           \/ UNCHANGED <<db, swapped>>
        /\ unswapped' = [unswapped EXCEPT ![r] = @ \cup {d}]
  /\ UNCHANGED <<config, phase, cancel, level, stopping, beginFailed, failed, aged, units>>

(* Mutant: a group that was not swapped is not counted. *)
UnswappedByFailure(r, d) == d \in failed[r] \ beginFailed[r]

(* Why the members of an aborted group are reported failed; a --limit sample is
   discarded on purpose. *)
Unswapped(r, d) == d \in failed[r] \ beginFailed[r] \/ (level[r] /\ ~limited)

(* abort_overwrite is best effort.  A sink that cannot even be built leaves the
   group unswapped, whatever the reason of the abort. *)
Abort(r, d) ==
  /\ phase[r] = "finalize" /\ d \in todo[r] /\ ~Commits(r, d)
  /\ todo' = [todo EXCEPT ![r] = @ \ {d}]
  /\ LET noted == IF Unswapped(r, d) THEN {d} ELSE {}
         dropped == [staging EXCEPT ![r][d] = Absent]
     IN  \/ /\ staging' = dropped /\ UNCHANGED faults
            /\ unswapped' = [unswapped EXCEPT ![r] = @ \cup noted]
         \/ /\ Fault /\ staging' \in {staging, dropped}
            /\ unswapped' = [unswapped EXCEPT ![r] = @ \cup noted]
         \/ /\ Fault /\ UNCHANGED staging
            /\ unswapped' = [unswapped EXCEPT ![r] = @ \cup {d}]
  /\ UNCHANGED <<config, target, phase, cancel, level, stopping, beginFailed, failed, aged,
                 units, swapped>>

(* The members of a group that was not swapped become errors. *)
Report(r) ==
  /\ phase[r] = "finalize" /\ todo[r] = {}
  /\ task' = [task EXCEPT ![r] = [u \in Units |->
                IF @[u] = "ok" /\ plan[u] \in unswapped[r] THEN "error" ELSE @[u]]]
  /\ phase' = [phase EXCEPT ![r] = "done"]
  /\ UNCHANGED <<config, db, flow, written, faults, swapped>>
-------------------------------------------------------------------------------
(* The caller cancels the run. *)
Cancel(r) ==
  /\ Live(r) /\ ~cancel[r] /\ Fault
  /\ cancel' = [cancel EXCEPT ![r] = TRUE]
  /\ UNCHANGED <<config, db, phase, level, stopping, todo, beginFailed, failed, unswapped, aged,
                 units, swapped>>

(* The process dies and leaves its staging behind. *)
Crash(r) ==
  /\ Live(r) /\ Fault
  /\ phase' = [phase EXCEPT ![r] = "dead"]
  /\ UNCHANGED <<config, db, flow, units, swapped>>

(* A week passes since the run started, which only a run that has yet to begin can
   tell.  A first load, whose destination is not there yet, is taken to be over by
   then. *)
Age(r) ==
  /\ phase[r] # "idle" /\ ~aged[r]
  /\ \E s \in Runs \ {r} : phase[s] \in {"idle", "begin"}
  /\ Live(r) => \A d \in Dests : target[d].there
  /\ aged' = [aged EXCEPT ![r] = TRUE]
  /\ UNCHANGED <<config, db, phase, cancel, level, stopping, todo, beginFailed, failed, unswapped,
                 units, faults, swapped>>

(* What the executor does by itself; the tasks are the connectors'. *)
Executor(r) ==
  \/ Grace(r) \/ Joined(r) \/ Report(r)
  \/ \E u \in Units : Spawn(r, u) \/ Join(r, u)
  \/ \E d \in Dests : Begin(r, d) \/ Commit(r, d) \/ Abort(r, d)

Next ==
  \E r \in Runs :
    \/ Plan(r) \/ Executor(r) \/ Cancel(r) \/ Crash(r) \/ Age(r)
    \/ \E u \in Units : Write(r, u) \/ Return(r, u) \/ Break(r, u)

Spec == Init /\ [][Next]_vars

(* The executor goes on; its tasks need not. *)
FairSpec == Spec /\ \A r \in Runs : WF_vars(Executor(r))
-------------------------------------------------------------------------------
(* A destination that a run has replaced holds every row of every unit the run
   grouped there, and nothing else (executor.rs: "a full-refresh must never commit
   partial data"), however the units, a cancel, a failure, a --limit, a crash, a
   sweep of an old staging and an overlapping run interleave. *)
WholeRefresh ==
  \A r \in Runs, d \in Dests :
    target[d].by = r => target[d].rows = Members(r, d) \X (1..Pages)

(* A unit that is reported to have succeeded has its rows in the destination, or
   had until a later refresh replaced them: no run ends well on a staging that was
   discarded or lost (executor.rs, `unswapped`).  A --limit sample is exempt. *)
OkMeansSwapped ==
  \A r \in Runs, u \in Units :
    (phase[r] = "done" /\ task[r][u] = "ok" /\ ~limited) => plan[u] \in swapped[r]

(* Under on_error: stop a failure ends the level even when the other units never
   return (STOP_FLUSH_GRACE). *)
StopEnds == \A r \in Runs : stopping[r] ~> phase[r] \in Ended
===============================================================================
