# A TLA+ development of faucet-stream

faucet-stream moves rows from sources to sinks. Its engine, `crates/core`, reads a
source page by page, writes each page to a sink, and checkpoints the source's
bookmark in a state store, so that a run that dies is resumed by the next one. Around
it, `cli` runs several pipelines at once, keeps each to one run at a time, and serves
them from a cluster of instances that share a database.

This directory models the engine's write paths, the run lease, the repair of a change
stream that was resumed too late, refreshes that several writers share, and the
cluster's runs, shards and schedules. TLC checks the models on small instances, and
TLAPS proves every safety property that TLC checks of them for all sizes.

    tlc -workers 2 -config MCRunStream.cfg MCRunStream     # one run
    tlapm RunStreamProofs.tla                              # one proof module

## Inventory

| part | state | operations | what is hard | what makes it correct |
|---|---|---|---|---|
| page loop (`crates/core/src/pipeline.rs`, `run_stream_with`) | page in hand, last bookmark, sinks' buffers, stored bookmark | poll, write, settle, flush, checkpoint, unwind, finish | a crash or a cancel at any await; calls that fail after their effect | the stored bookmark covers only rows that are durable or deliberately given up; Ok means durable |
| dead-letter queue and poison pills (`dlq.rs`, same loop) | envelopes, budget, breaker count | partial write, resubmission, terminal action, queue write and flush | a page whose rows go three ways; errors deferred past the checkpoint | a row is in one place; limits stop the run, never strand a page |
| governance (`governance/`) | none across pages | mask, quality, contract, drift | passes that quarantine, refuse a page or abort the run | what they reject reaches the queue or stops the run |
| resilience (`resilience/`) | attempt counter, breaker | retry with backoff, give up | retrying what may have landed | no retry duplicates, no loop is endless |
| accounting (`accounting.rs`) | page account | settle | sinks that report fewer rows | a short page is not checkpointed |
| exactly once (`idempotency.rs`, same loop) | sequence, sink's token, wrapped state | token write, skip, sink-anchored resume | two anchors that move at different times | no row twice, none skipped |
| sinks with tokens (`common/sql`, `sink/iceberg`) | table, token, uncommitted files | transaction, snapshot | commits of unknown fate, poisoned writers | rows and token commit together |
| complete reads and cleanup (`cleanup.rs`, end of `Pipeline::run`, `source/dynamodb`) | tracked keys, held bookmark, stream position | detect a gap, scan, replay, delete, release | the table changes under the scan; a crash between the delete and the position | no live item lost, no deleted one kept, the mirror converges |
| overwrite (`executor.rs`, `common/sql`, `sink/postgres`) | staging table per run and destination, group verdicts | plan, begin, write, join, commit, abort | several writers of one destination; overlapping runs; a sweep by age | a destination is replaced whole or not at all, and success says it was |
| columnar and native paths (`pipeline.rs`) | as the page loop | as the page loop | kept in step with it | the same |
| adaptive sizing, budgets | controller, shared counters | observe, charge | concurrent branches | bounds are kept |
| topology (`topology.rs`) | channels, one loop per sink | fan out, join | bounded channels, one branch failing | no deadlock; the slowest sink holds the bookmark |
| run lease (`cli/src/pipeline_state/lease.rs`) | lease record per row | take, renew, take over, release, expire | expiry racing renewal; writes that land after their caller has gone | one holder per row, no lease removed under its holder |
| serve cluster, runs (`cli/src/serve`: `cluster.rs`, `runner.rs`, `server.rs`, `history/sql.rs`) | run rows (status, owner, lease, cancel flag, attempts), tokens, queued writes | submit, claim, execute, renew, fence, hand back, finalize, reclaim, cancel | several instances on one database that may be unreachable; stalls longer than a lease | nobody forgets a run, races do not execute it twice, one outcome stands |
| serve cluster, shards (same files) | the run's row, shard rows | expand, claim, finalize, reclaim, sweep, cancel | the run's end is decided from rows that others write | the run's outcome is its shards', written once |
| schedules (`cli/src/serve/schedules`, `enqueue`, `history/fallback.rs`) | last tick, idempotency claims, an entry per member, degraded mode | resume, look for overlap, claim, write the run, commit, catch up, retry | every member fires every tick; the history may be unreachable at any call | one run per tick, and no tick forgotten |
| triggers (`cli/src/serve/triggers`) | edges | watch, fire | the same claims | one run per event |
| backfill (`cli/src`) | progress marker | run units, mark them done | one unit failing | no unit marked that did not run |
| log spool (`cli/src/logship`) | file, cursor, lock | append, ship, advance | a crash between ship and advance | no line skipped |

`PROJECT.json` lists every part, modelled or not, and the hazards at their lines.

## Modules

- `Delivery`: what a pipeline promises, and nothing else. Three variables: the rows
  that are delivered, the rows a policy gave up, and the checkpoint. The checkpoint
  moves only forwards, and only over rows with a disposition.
- `RunStream`: the page loop on its at-least-once paths. `EXTENDS` nothing of the
  project; `Promise == INSTANCE Delivery WITH ...` is its refinement mapping.
- `MCRunStream`: run configurations for TLC, and the liveness property.
- `ExactlyOnce`: the atomic-watermark path with the two kinds of sink it meets; it
  also implements `Delivery`. `MCExactlyOnce` gives TLC all four deployments.
- `RunLease`: the run lease of one row and the runs that compete for it. `MCRunLease`
  places two runs in processes and hosts. It shares no state with the write paths: what
  it gives them is their assumption that a pipeline has one run at a time.
- `CompleteRead`: a change stream with a gap, the resnapshot, and the cleanup and held
  bookmarks of the engine. Its pages are written as `RunStream` writes them, reduced to
  one step: what is new is when the position is stored.
- `OverwriteGroup`: one level of the executor and the staging tables of its overwriting
  units. `MCOverwriteGroup` names four configurations.
- `ServeCluster`: whole runs on a cluster.
- `ShardedRun`: a run that is expanded into shards, on the same cluster. Leases, fences
  and hand-backs are those of `ServeCluster`, reduced to what they do to a shard row.
- `ScheduleTicks`: the ticks of one schedule on that cluster, from the entry of each
  member to the run's record; what becomes of the run is `ServeCluster`'s.
  `MCScheduleTicks` names two schedules that differ in every option.
- `RunStreamProofs`, `ExactlyOnceProofs`, `RunLeaseProofs`, `CompleteReadProofs`,
  `OverwriteGroupProofs`, `ServeClusterProofs`, `ShardedRunProofs`,
  `ScheduleTicksProofs`: the theorems.

### How RunStream corresponds to the code

A row is its position in the source (`1..N`), a bookmark the position of the last
row it covers. One action is one await of `run_stream_with`; what the loop does
between two awaits is part of the action. `pc` names the await. The variables fall
into what survives the process (`stored`, `dur`, `dlqDur`, `dropped`), what dies
with it (`buf`, `dlqBuf`: rows a sink took and has not made durable) and the loop's
locals, which `EndRun` resets.

A sink is what the engine may rely on. `Spill` lets it make any of its buffered
rows durable early. A failed write leaves any part of its rows when
`batch_atomicity` is best-effort, nothing when it is atomic or per-row
(`dlq.rs:270-280`, which the sinks promise). Flush and checkpoint may fail before
or after they took effect. `WriteFails` is more generous still: whatever the sink
promises, a final error may leave any part of the batch.

`Options` are the configurations an operator may start a run with, and each run of
the pipeline may use another one. `Admissible` are the checks that refuse a run
before its first page. Adaptive sizing is abstracted to any split of the page into
consecutive sub-batches, which includes what the controller chooses.

| code | action |
|---|---|
| `Pipeline::run` up to the loop, `apply_start_bookmark` | `StartRun` |
| the biased select, governance | `PollPage`, `PollDriftAbort`, `PollFails`, `PollEnd`, `AbortEnvelopes` |
| path without a queue | `Write`, `WriteRetry`, `WriteFails`, `Settle` |
| path with a queue | `WritePartial`, `WriteDlqAll`, `WriteRetry`, `WriteFails`, `PoisonRetry`, `PoisonFails`, `SettleChunk`, `PoisonAborts`, `SettleDlq`, `DlqWrite` |
| bookmarked page | `Flush`, `FlushDlq`, `Put` |
| ends | `UnwindDlq`, `UnwindMain`, `FinishDlq`, `FinishDlqFails`, `FinishMain` |
| environment | `Crash`, `Cancel`, `Spill` |

`applied` and `dead` are history: how often the sink took each row in this run, and
which rows were handed to the queue.

### How ExactlyOnce corresponds to the code

`cnt` counts the copies of each row in the sink, `tok` is its watermark, `st` the
stored state unwrapped. `Init` picks a deployment. `Commits = "OnWrite"` is the SQL sinks' transaction of rows
and token; `"OnFlush"` is the Iceberg sink, whose rows and token wait in `pend` and
`ptok` for the snapshot of the next flush. A token is a sequence number and, unless
it is bare, a bookmark: the text form is not modelled, its two readings
(`parse_token`, `parse_token_parts`) are. `StartRun` reads state and watermark, and
`Reanchored` decides which of the two anchors wins. Sequence and watermark are
unbounded naturals: the code's are `u64` and grow by one a page.

`Init` is not only the empty pipeline: it may have run at least once before
(`WasAtLeastOnce`), or have tokens of a release that did not put bookmarks in them
(`HadBareTokens`). The last one needs a source that replays the same pages
(`Replay = "Pages"`), which is what the code asks of it.

Rows read in a page without a bookmark carry no token and stay at-least-once
(`pipeline.rs:2656-2670`); `loose` collects them, and `NoDuplicate` excepts them.

### How RunLease corresponds to the code

`lease` is the stored record reduced to its run and its expiry; process and host are
those of the run (`where`, `HostOf`). `held` is `HELD_HERE`. A run is at one await of
`try_acquire_every`, of its pipeline, of `release_lease` or of `expire_lease` (`pc`);
the renewal task runs beside it (`renew`) until the guard's stop token ends it between
two writes. `expect` and `next` are what the write in hand compares with and writes;
while a run runs, `expect` is the task's `last`, whose expiry is `held_until`.

| code | action |
|---|---|
| `try_acquire_every` | `Begin`, `BeginForced`, `ReadLease`, `ReadFails`, `Taken`, `Contended`, `TakeFails`, `RereadHeld`, `RereadFree` |
| `holder_gone` | `TakeOver`, `Refused` |
| `HeldMark::drop` in an aborted task | `AbandonTake` |
| renewal loop of `spawn_guard` | `RenewCalls`, `Renewed`, `RenewRefused`, `RenewFails`, `RenewExpires` |
| `RunMarkers::finish`, `LeaseGuard::release` | `EndRun`, `EndUnleased` |
| `LeaseGuard::drop` | `AbortRun`, `AbortRelease` |
| `release_lease`, `expire_lease` | `ReadOwn`, `ReadOther`, `Release`, `ReleaseFails` |
| environment | `LateLands`, `Dies`, `Tick` |

A conditional write that succeeds is one step. One that reports an error, or whose
caller is aborted or dies, goes to `late`, from where it takes effect at any later time
or never: so a renewal can land after the release that no longer awaits it, and a take
after its process died. The processes' clocks agree; the code compares expiries written
by one host with the clock of another and has no margin for skew. A run has an id of
its own and runs once (`Uuid::now_v7` in `run_unit`). Process ids are not reused.

### How CompleteRead corresponds to the code

The service is `table`, the `log` of its changes and the `horizon` up to which the log
was trimmed. The stream has one shard, a page is one record, and the destination was
seeded (`faucet mirror`) before the first run. A bookmark is the position of a record,
or an opened and empty shard with the time it was verified (`verified_at`); the model's
`seen` is the number of changes made by then. `Gap` is a set: an empty shard is called a
gap by its age, which may come before anything was trimmed.

| code | action |
|---|---|
| `cdc_stream`, `detect_gaps`, the captured position | `StartRun` |
| the scan of a resnapshot, `SeenKeys::record_page` | `Scan`, `EndScan` |
| `read_slice`, `start_for` | `Open`, `Read`, `CaughtUp`, `TrimmedUnderfoot` |
| idle termination of a reader that never found its shard empty | `IdleOut` |
| the page's checkpoint, `HoldingStateStore` | `Checkpoint` (`Put`) |
| the end of `Pipeline::run` | `SkipCleanup`, `Refuse`, `Cleanup`, `CleanupFails`, `Release` |
| environment | `Change`, `Trim`, `Cancel`, `Stop`, `Fail` |

`idle_termination_secs` counts from the last record, so that a reader which is throttled
for as long ends its run as if it had caught up (`stream.rs:415-420`); `IdleOut` does it
at any point of the read, as one of the bounded faults. `CaughtUp` may also go on reading.

`AmpleRetention` names what the code takes from the service; see Divergences.

### How OverwriteGroup corresponds to the code

A run is an execution of one config, named by its overwrite token, which is also the
name of its staging tables; so overlapping runs have a staging each. `target` records
who replaced a destination and with which rows. The unit's own overwrite lifecycle is
suppressed by the executor (`run_unit`), so the level alone begins and ends groups.

| code | action |
|---|---|
| `plan_overwrite_units` | `Plan` |
| `begin_overwrite` of each group, the sweep of old stagings | `Begin` (`Staged`, `Abandoned`) |
| the spawn loop | `Spawn` |
| `run_unit`, `ensure_table_ready` | `Write` (`Recreates`), `Return`, `Break` |
| the join loop, `stop_deadline`, `abort_all` | `Join`, `Grace`, `Joined` |
| the finalize loop, `commit_overwrite`, `abort_overwrite` | `Commit` (`Swap`), `Abort`, `Report` |
| environment | `Cancel`, `Crash`, `Age` |

A budget that stops a run is a `Break`: its verdict turns a cancelled pipeline's success
into an error (`executor.rs:3264-3270`). A unit whose destination does not resolve
belongs to no group, and under `on_error: continue` its would-be group still commits;
`WholeRefresh` speaks of the units that were grouped. `Age` lets a live run grow a week
old only when its destinations exist: the code names the other case, a first load that
runs for a week, as one it does not handle (`idempotency.rs:296-298`).

### How ServeCluster corresponds to the code

A run is a row of `faucet_serve_runs`; `lapsed` stands for `lease_expires_at` in the
past. A conditional `UPDATE` is one step, guarded by its `WHERE` clause. An instance has
`Capacity` permits and a task behind each; `token` is its registry, from run id to the
task whose token it holds. `reach` says whether the history answers the instance.

| code | action |
|---|---|
| `enqueue` | `Submit` |
| `claim_loop`: `pending_cancellations`, `claim_pending`, the dispatch of its batch | `CancelPoll`, `Claim`, `Dispatch` |
| `resume_claimed`, `execute_run` | `Load`, `Start`, `WorkEnds`, `Interrupt`, `FlushEnds` |
| `finalize`, `hand_back`, the in-flight guard | `WriteOutcome`, `Requeue`, `Close` |
| `maintain_leases` | `RetryPendingFinalize`, `RenewLeases`, `RenewFails`, `ReclaimOrphan` |
| `runtime::server::cancel` | `CancelHere`, `CancelPending`, `RequestCancel` |
| environment | `Crash`, `Drain`, `Stop`, `Exit`, `Disconnect`, `Reconnect`, `Lapse` |

`claim_pending` awaits an `UPDATE` per row and the loop dispatches what it has won once
the whole batch is back (`cluster.rs:317-333`). A permit is `won` in between, and the
model may dispatch after any row. A batch of the model is more liberal than one of the
code: it may win a row that became pending, and use a permit that was freed, after it
began. A SIGTERM aborts the loop where it awaits (`server.rs:1415`): `Drain` drops the
rows that were won and `dropped` remembers them, for the draining instance goes on
renewing rows that it has no task for. Only its exit gives them back.
`OwnedRunsAreWorkedOn` has this as its one exception.

Two facts about time are guards: a fenced instance's interrupted task has had its grace
before its lease lapses (`Lapse`; the fence fires after two missed beats, a third of the
lease each), and a task that waits for its trigger sees the fence before the next
renewal ends it (`RenewLeases`). `overrun` records every lease that lapses under an
owner that is up, by a stall or otherwise: the properties say what holds without one,
and what holds even then.

### How ShardedRun corresponds to the code

One run, one row per shard. An instance coordinates (`coord`), works on shards (`task`,
at most one per instance and shard), queues writes the history refused (`queue`), and
holds outcomes it read from `shard_progress` and has yet to write (`seen`).

| code | action |
|---|---|
| `claim_pending`, its dispatch, `coordinate_sharded_run`, `insert_shards` | `ClaimRun`, `DispatchRun`, `Flip`, `InsertShard`, `FailRun` |
| `claim_shards` and its dispatch | `SelectShard`, `ClaimShard`, `DispatchShard` |
| `resume_claimed_shard`, the shard task | `LoadShard`, `ShardEnds`, `CancelShard`, `ShutdownShard`, `FenceShard`, `FinishShard`, `RequeueShard` |
| `shard_progress`, `finalize_sharded_parent`, the sweep | `Look`, `FinalizeParent` |
| the lease loop | `RenewLeases`, `ReclaimRun`, `ReclaimShard`, `CancelRequeued`, `RetryPendingFinalize` |
| `runtime::server::cancel` of a sharded run | `CancelRun`, `RequestCancel` |
| environment | `LapseRun`, `LapseShard`, `Crash`, `Stop`, `Exit` |

The select of `claim_shards` leaves out the shards of a flagged run; the `UPDATE` of a
selected row asks only whether it is still pending (`sql.rs:1713-1722`). So a cancel may
fall between the two, and a shard of a flagged run be claimed. `Stop` drops what was
selected or won and not dispatched, as `Drain` does in `ServeCluster`.

### How ScheduleTicks corresponds to the code

Time is counted in ticks: a cron expression is the numbers of its occurrences, and `now`
is the last that is due. `last` is the record (`LastTick`), `claim` the row of the tick's
idempotency key, `runs` the runs that a tick was claimed for, each `unwritten` until its
record exists. A member is at one call to the history (`pc`). Between two calls nobody
else can see it, so the code between them is part of the action.

| code | action |
|---|---|
| `step`, first half: `resume_from` | `ResumeFrom` (`Missed`, `AfterGap`) |
| `fire_target` up to the submit, `earlier_run_going` | `Look` |
| `claim_idempotency`, `replay_response` | `Claim` (`InsertClaim`), `Replay` |
| `enqueue` on a cluster, `upsert_coordinated`, `release_orphaned_claim` | `WriteRun`, `Release` |
| `step`, second half: `record_tick`, `advance` | `Commit` (`Recorded`) |
| `run`, `reconcile` | `Restart`, `Reload` (`NewEntry`) |
| `trip`, `try_recover` | `Trip` within a call, `Degrade`, `Recover` |
| environment | `Tick`, `EndRun`, `Crash` |

A call may go well, fail without consequence for the member (`Glitch`: an error that is
no outage, or an outage shorter than the call's own retries), or fail for good and
degrade it (`Trip`), with or without its effect. What a degraded member is served differs
by call, and the model keeps the difference: the list of runs and a single run come from
an empty memory, a claim, the record of the tick and the run's record are refused.
`stamped` says that a parameter of the schedule holds the time of the attempt, which
gives every attempt another fingerprint, so that a claim is met as a conflict; an edit
may do the same (`Varies`). A conflict is `started`, as in `classify`, whether the claim
has a run or not. `outcomes` and `lost` are history.

## Runs

All the bounds are constants. Each model stops by itself, after its last run or when
no work is left and the faults are spent, so `CHECK_DEADLOCK FALSE` is set.

| run | bounds | shows | states |
|---|---|---|---|
| `stream` | 2 rows, pages of up to 2, 2 runs | the page loop without a queue before a best-effort sink, with one before a per-row sink, and before a sink that converges by key: retries, sub-batches, quarantine, poison actions, budgets, breaker; every run ends | 447 000 |
| `eo` | 4 rows, pages of up to 2, 3 runs, 2 attempts | exactly once, committed in the write and in the flush, state loss, upgrade from bare tokens | 3 670 000 |
| `lease` | 2 runs, TTL 2, 2 attempts, 1 late write | one holder, none robbed, every take ends, every expiry is noticed | 393 002 |
| `complete_read` | 2 keys, 1 item, 1 trackable key, 3 changes, 2 faults | gaps, resnapshots, overflow, failed and partial deletes | 735 899 |
| `overwrite` | 2 runs, 2 units, 2 destinations, 1 page, 1 fault | whole refreshes, honest success, the grace of a stop | 908 827 |
| `cluster` | 2 instances, 1 run, 2 permits, 1 reclaim, 1 fault | ownership, overlap, one outcome, a pending run is picked up | 146 544 |
| `shards` | 2 instances, 1 shard, 1 reclaim, 1 fault | the order of flip and inserts, an honest outcome, written once; an expanded run ends | 99 178 |
| `schedule` | 2 members, 3 ticks, 1 fault | one run per tick, an honest record, every tick is settled | 371 953 |

Why they are enough for the cases to happen. Two rows and pages of up to two give a
full page, pages of one and an empty page with a bookmark; two runs give a
resume after any accident, and exactly once takes three, because re-anchoring, skipping
and losing the state need a third. A TTL of two ticks lets a lease be renewed before it
expires and expire before the clock stops. Two keys and room for one make a table that
overflows and one that does not; three changes put one before, one behind and one after
a scan. Two units share a destination or not; a fault besides an overlapping run is what
its properties need, and one run with two and three faults was checked by hand as well.
One reclaim makes both the requeue and the poisoned run reachable, two permits let an
instance execute the same run twice, and one fault is any crash, shutdown, outage or
stall at any step, while the other instance lives on. A run of one shard is small enough
for liveness; its safety properties are proved for any number, as are those of the page
loop. Three ticks are what it takes to fall behind by more than one and have a record to
pass; the outcome of the fault that `schedule` allows is chosen at every call of either
member, and the other one fires the same ticks beside it.

Four runs state what a document or comment says and TLC refutes from the code:

- `cluster_zombie`: a stale execution "can never overwrite the terminal record written by
  the live execution. First finalizer wins." (`history/sql.rs:1641-1644`). True of the
  finalizing statement; but `execute_run` begins with an unconditional upsert
  (`runner.rs:1939`), and an execution that stalled before it writes `running` over the
  terminal record.
- `shards_partial`: the run is finalized "once every shard is terminal"
  (`cookbook/cluster.md:443`). `insert_shards` is a statement per shard; a peer may
  complete the first row and find all rows terminal before the second is there, or the
  coordinator may die in between. `OutcomeIsHonest` is what does hold: the outcome is
  that of the rows there were.
- `shards_cancel`: a cancel of a sharded run "cancels the shards that have not started and
  ends the run `cancelled`" (`cli/tests/serve_shard_cancel.rs:1`). One that falls between
  the flip and the inserts cancels no shard; the rows inserted later are never claimed,
  because the run is flagged, and never cancelled.
- `schedule_lost`: a tick that cannot start because "the history is unreachable" is
  "retried with backoff until it starts" (`cookbook/schedules.md:93-95`). If the
  connection breaks after the claim was inserted, the retry within the call finds the
  claim, takes it for another's and looks for its run, which nobody has written: 404,
  which `classify` reads as a missing template, and the tick is failed for good. A member
  that degrades between its claim and the run's record leaves a claim behind as well
  (`runner.rs:1197`), with the same end.

### Divergences without a run

Met while modelling, each a step the models take or could be given:

- "Re-delivery is bounded to one page" (`docs/architecture/recovery.md:96`): pages without
  a bookmark are not checkpoints, so a crash re-delivers all of them.
- "Every early exit flushes the sinks" (`docs/architecture/invariants.md:130`): if the
  queue's flush fails on the success path, the sink is not flushed (`pipeline.rs:2804`).
- A drift `fail` "defers its abort until the page's individually-valid survivors are
  durable" (`invariants.md:109`): it aborts before they are written (`pipeline.rs:2099`).
- A short report fails the page "so a resumed run reads the page again"
  (`invariants.md:202-205`): under exactly once the token is already committed, and the
  resumed run starts after the page.
- A guard's token is "cancelled when this run no longer holds the lease"
  (`lease.rs:512-513`): after a renewal that took effect and still returned an error, the
  next finds the run's own newer lease, and a run is stopped that holds a live one.
- A fence that fires while a task awaits its first read or upsert, and is over before the
  task looks, leaves a cancelled token without the fence: the run is finalized
  `cancelled` though nobody asked (`runner.rs:2130`; `cookbook/cluster.md:221-222`).
- The end of an old task of a run removes the token of a new execution of it on the same
  instance (`registry.rs:78`), which can no longer be cancelled or fenced.
- A cancel is lost when the row is requeued between `cancel_pending` and
  `request_cancel` (`runtime/server.rs:684-716`).
- On a healthy cluster, a member that meets the claim of another before the run's record
  is written records the tick as failed, "the template was not found", though it starts
  (`fire.rs:287`); the status shows whichever outcome came last.
- "The idempotency key already started a run for another payload" (`fire.rs:269-270`): a
  conflict is reported and recorded as started over any claim, also one left without a
  run by a member that died, and, with a stamped parameter, by this member's own lost
  try. `RecordIsSettled` says what is left: without such variation a tick that is said to
  have started has a run, and with it, somebody has claimed it.
- "Stop pulling NEW work the moment we begin draining" (`server.rs:1413`) aborts the claim
  loop in the middle of a batch: the rows it has won stay owned and renewed, with nobody
  to run them, for as long as the shutdown takes.
- The overlap rule lists runs and submits later, and a degraded member lists an empty
  memory: two runs of `overlap: skip` can go on side by side.
- "exactly one run through per tick" (`schedules/runner.rs:7-8`): if the write of a run's
  record takes effect, its answer is lost, and the history is back in time for the
  release, the claim is given up and the retry starts a second run. `OneRunPerTick`
  excepts these ticks (`lost`).
- With `AmpleRetention = FALSE`, `CompleteRead` loses items in two ways: a resnapshot scan
  that takes longer than the stream's retention is not checked again before the replay
  (`lineage.rs:190-191`, and the connector's `README.md:112-115`), and a replay from the
  trim horizon that is interrupted and resumed after a trim skips what was trimmed, with
  older changes applied (`README.md:100-103`).

### Fairness

`FairSpec` assumes weak fairness of `Step`, the disjunction of the loop's own actions:
tokio polls a task that is ready, and each call of the model returns, with success or
an error. Nothing is assumed of crashes, cancels or the start of another run, and no
call is assumed ever to succeed.

`RunLease`'s `FairSpec` assumes the same of each run's take and of its renewal task
(weak fairness of `Take(r)` and of `Renew(r)`). The clock need not tick, no run need
end, and no write need succeed or land. Waiting for a run of the same process has a
deadline in the code (`LOCAL_TEARDOWN_WAIT`); in the model the refusal is possible
from the start.

`ServeCluster`: the loops of an instance that is up, the dispatch of what they have
claimed included, and the tasks it spawned take their steps, and the database comes back (`Reconnect`). `RenewLeases` has strong fairness: its
timer fires whatever the tasks do, and its guard only keeps out a renewal that would
overtake a task about to see the fence. Nothing says that work ends.

`ShardedRun`: the same, and a shard's work ends, without which no run with shards does;
the lease of an owner that is gone lapses.

`ScheduleTicks`: the loop of a member that is up goes on, a degraded member's probe gets
an answer in the end, a member that died is started again, and runs end, without which
`overlap: queue` holds a tick for ever. Time need not pass, and no fault need happen.

`CompleteRead`: the pipeline is run again and again, and a run that is not killed goes
on. An idle end before the stream was read is a fault. Faults and changes are finite, which is what "once the table is left alone" means.

`OverwriteGroup`: only the executor's own steps. The units need not return; that the
level ends nevertheless is the property.

## Proofs

Everything below holds for every value of the constants that the modules' `ASSUME`s
allow: any number of rows, runs and attempts, any page size, any set of options.

`RunStreamProofs`. `BookmarkCovered` is not inductive: that `Put` may store `pos`
needs to know that every row up to `pos` is durable by then. `IInv` adds

- `Configured`: the run's options were admitted, and a run without a queue is never
  where a queue is written and has no envelopes;
- `Ordered`: `stored` and `lo` are at most `pos`, and the page is what lies past `lo`;
- `GoodHeld`: rows the sink reported accepted are durable or in its buffer;
- `Followed`: every row up to `lo` is durable, buffered or discarded, and each row of
  the page is where `pc` says it is: not yet written, accepted, quarantined, enveloped
  or dropped. The flush empties one buffer, the queue's flush the other, and what is
  left is the claim of `Put`.

`ReplayInv` (rows not yet written, or refused, were never taken by the sink), `DeadInv`
(rows with an envelope were not) and `LimitsInv` (a page over a limit carries its
deferred error) strengthen the other three invariants. Refinement is shown step by
step: `DeliveryStep` maps every action to `Deliver`, `Advance` or a stutter.

`ExactlyOnceProofs`. `EInv` says that the watermark, if there is one, carries a
bookmark, that every row up to it is durable once and that durable rows past it belong
to pages without a bookmark (`Core`), that a buffered token is ahead of the watermark
and of the stored bookmark (`Buffered`), and how sequence, position and `pc` belong
together (`Numbered`, `Located`). Every claim in it that a row is there is made for
honest reports only (`Reached`): a sink that takes less than it is given commits the
token of a page whose rows are missing (see the divergences).

`EInv` is false of a pipeline that begins with the bare tokens of an earlier release,
whose watermark has a number and no position. `Legacy` is the invariant of that phase:
the sink has exactly the pages the token counts, the state store is at the end of a page
and may be behind, a run knows its position from its sequence number (`Counted`) and
holds nothing uncommitted but the first new page (`Unbuffered`). `LegacyStep` shows that
a step stays in the phase and leaves the sink alone, or commits the first new page, with
a token that carries its position, and `EInv` holds from then on. The inductive
invariant `XInv` is the disjunction.

From it follow, whatever the sink reports, `NoDuplicate` and the monotonic watermark;
and for a sink that takes what it is given (`~ShortReports`) `ResumeCovered`,
`OkRunIsDurable` and the refinement of `Delivery`, whose checkpoint is the position from
which the next run would write again. Without that assumption TLC refutes the three.

`RunLeaseProofs`. Neither `OneHolder` nor `HolderIsNotRobbed` is inductive: that a
conditional write hurts nobody depends on what its run saw when it read the lease.
`LInv` adds

- `Marked`: a run keeps its mark and a live process until its guard is gone, so that a
  holder judged gone is out for good;
- `Located`: which local means what at each `pc`; renewals never shorten the lease;
- `Unseen`: the lease of a run that has not written is nowhere, so a run judged by its
  lease has written it;
- `Judged`: what a take in flight compares with is no lease, an expired one or one of a
  run that is out, and stays so however long the write takes;
- `Strays`: the same of every late write, unless it is a renewal of its own run's lease
  or a forced put;
- `Newest`: a stored lease of a running run is no older than the run believes;
- `Backed`: without force, a run that holds the row by its own clock is in the store.

Two holders would both be in the store, and a write that robs a holder would compare
with a lease that `Judged`, `Strays` or the writer's own name excludes.

`CompleteReadProofs`. Even the types need more than themselves: the iterator of a run
starts at its bookmark, so it lies within the stream only because no bookmark claims
what has not happened (`Positions`). `NothingLost` and `NoGhostRows` say something of
the stored position only, and a run stores a new one; they also assume `AmpleRetention`,
which a step of `Trim` otherwise refutes. `CInv` adds

- `Logged`: a change of the stream is the table's item, or a later change follows it;
- `Control`: which signal, scan and held bookmark belong to which `pc`;
- `Placed` and `Fresh`: where the bookmark in hand and the iterator are, seen from the
  stored position and from the horizon. A run that ends idle stores its bookmark without
  having read up to it or past it, so they place the bookmark too (`Here`), not only the
  iterator;
- `RunHolds`: of the keys the scan is past, whatever the destination has wrong is put
  right by a change past where the run is, and `StoredHolds` says it of the stored
  position: a step that stores is then a step that copies;
- `Unseen`: as long as a complete read tracks its keys, a key that is neither tracked nor
  still to be scanned is absent from the table, or a change of it is still to be read.
  So what the cleanup deletes is gone, or comes back with the replay.

`OverwriteGroupProofs`. Every run has its own invariant `RunInv(r)`, and runs meet only
in the destinations and in the sweep of an old staging, so a lemma (`OtherStep`) shows
once that a step of one run keeps the invariant of every other, and each action is
examined for its own run alone. `Ordered` says which status of a unit belongs to which
phase, `Accounted` that a unit which ended without all of its pages leaves a trace that
`must_abort` sees (the group failed, the run was stopped, or a `--limit`), `Stages` that
a staging holds exactly what its units have written, unless it was swept or never made,
and that without staging and destination nothing was written, `Finalized` that an
`ok` unit's group is still to be finalized, or was swapped, or is on the list of the
unswapped that turns its members into errors. `Whole` and `Reported` are the two properties,
of one run.

`ServeClusterProofs`. `OwnedRunsAreWorkedOn` is nearly inductive: it needs the types,
which actions end a task (`Settles`), and that an instance which has dropped a batch is
never up again before it is gone. `OverlapNeedsAnOverrun` rests on `Soleness`: as
long as a run's lease has not lapsed under a live owner, whoever has a task or a queued
write for it owns its row and is alive, there is only one of them, a lapsed lease is a
dead owner's, and a callback was made only for a run that is over. A claim takes a row
that nobody has a task for, a reclaim one whose owner is dead, and every other statement
is the owner's. `OneOutcome` follows from the same invariant.

`ShardedRunProofs`. `Expanded`: a row, or a coordinator that inserts, means that the run
is past `running`, from which orphan recovery keeps away. `Honest`: a worker's reading
of the progress stays true of every row but the late ones, because rows that are over
stay over. `Lead`: without an overrun the coordinator is the owner of a running row, and
the run has been called back only if it is over.

`ScheduleTicksProofs`. `Placed` ties the types together: the record and the entries are
not ahead of time, and a member that fires a tick has a run of that tick in hand.
`RecordIsSettled` needs `Settled`: what a resumed entry has left behind has an outcome
too, because its next commit moves the record past it, whoever recorded what before; and
a member calls a tick started only once a run of it is written or, over a conflict, once
it is claimed, and neither the runs of a tick nor an edit are ever taken back (`Vouched`). `OneRunPerTick` needs
`Sole`: a written run is the one its tick is claimed for, a member about to write has the
claim, and it releases only a run that is not written; so the claim that another member
finds free was never written under.

Only model-checked: liveness, which is beyond the prover (`RunEnds`, `TakesEnd`,
`ExpiryIsNoticed`, `PendingIsPickedUp`, `ExpandedRunEnds`, `MirrorConverges`,
`StopEnds`, `TickIsSettled`). The four documented claims of the violation runs are
false.

## Assumptions

- `RunStream` and `ExactlyOnce` have one run of a pipeline at a time. `RunLease` proves
  it of leased runs that are not forced; a run that could not reach the store goes on
  without a lease, and a run that has lost its lease still finishes its page.
- A forced take is a put that is atomic with the conditional writes. The file store
  serialises only the latter (`state.rs:1001-1006`).
- Stores without an atomic `compare_and_put` (the trait's default) are not modelled.
- A call that failed has settled before the next run reads the watermark: a commit of
  a dead process that lands later is not modelled.
- Sinks keep the promise of `batch_atomicity` and count rows they took. A sink that
  reports more than it took can hide another shortfall (`accounting.rs:267`).
- Iceberg commit errors are final. `commit_pending` takes the files out of the sink's
  state first, so a repeated flush would return Ok with nothing committed; the errors
  it returns are in no class the retry policy retries, and the sink has no call timeout.
- In the cluster, a statement takes effect or not as its caller is told: a claim whose
  answer is lost leaves a row that its owner renews and does not execute, and is not
  modelled. Leases are compared with the clock of the instance that looks; a clock that
  runs ahead makes a lease lapse early, which the model has as a stall.
- In `CompleteRead`, the sink is keyed and a page is atomic.
- In `ScheduleTicks`, the schedule was created through the API, which starts its record
  (a schedule from the file has none until its first tick), an edit leaves its cron and
  timezone alone, and a claim outlives the retries of its tick: expired claims, which
  the next claim takes over, and a retention of zero, which turns claims off, are left
  out. `MAX_SCAN` is not reached.
- In `OverwriteGroup`, DDL, sweep and swap are each atomic, as in Postgres.

## Plan

1. On top of the run lease: the operator commands `state set | reset | import` (check,
   then write), unleased runs, the file store's lock beside a plain put.
2. Serve: triggers and the expiry of claims on top of `ScheduleTicks`, and the journal
   of a single server that replays into a recovered history.
3. Backfill markers, the log spool, topology channels, the columnar and native loops as
   instances of the page loop's order.
4. Pure functions against reference definitions: `plan_pk_shards`, the AIMD
   controller, budget charging.

## Not modelled

Connectors and what they exchange with their services, the formats of envelopes, tokens
and state, metrics and lineage, configuration and templates, HTTP and authorisation. In
the engine: the columnar and native loops, adaptive sizing as more than a split,
budgets' counters, topology, windows and joins, the broker lease extender, the
pipeline's own overwrite lifecycle around one run, which only library callers reach
(`pipeline.rs:1134-1136`, `1224-1262`), and deferred bookmarks with it. In the executor:
dependency levels, discovery, captures. In serve: admission, quotas and pools with their
`fail_pending`, the single-instance history and its journal, the tenants, pauses and
manual runs of schedules, triggers, pruning. `PROJECT.json` gives the reason for each. A source's only
duty in the model is to resume after a bookmark.
