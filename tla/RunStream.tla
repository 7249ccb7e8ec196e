------------------------------ MODULE RunStream ------------------------------
(***************************************************************************)
(* The page loop of crates/core/src/pipeline.rs (run_stream_with) on its   *)
(* at-least-once write paths, with and without a dead-letter queue, driven *)
(* by Pipeline::run over a sequence of runs that may crash anywhere.       *)
(*                                                                         *)
(* A row is its position in the source, a bookmark is the position of the  *)
(* last row it covers.  One action is one await of the loop: what happens  *)
(* between two awaits is atomic.  The sink, the dead-letter sink and the   *)
(* state store are modelled from how the loop uses them: a call may fail   *)
(* before or after its effect, and rows may sit in a buffer that only a    *)
(* flush is sure to make durable.                                          *)
(***************************************************************************)
EXTENDS Naturals, FiniteSets

CONSTANTS
  N,              \* the source holds the rows 1..N
  MaxPage,        \* rows a page may hold
  MaxRuns,        \* runs started (bound)
  Options         \* the run configurations an operator may start a run with

Rows == 1..N

OptionType ==
  [atomicity : {"Atomic", "PerRow", "BestEffort"},  \* Sink::batch_atomicity
   keyed : BOOLEAN,                            \* Sink::write_batch_is_replay_safe
   dlq : BOOLEAN,                              \* a dead-letter sink is attached
   quarantine : BOOLEAN,                       \* a governance pass may quarantine
   onBatchError : {"Propagate", "DlqAll"},
   allowDuplicates : BOOLEAN,                  \* allow_dlq_all_duplicates
   attempts : Nat \ {0},                       \* RetryPolicy::max_attempts (1: none)
   backoff : BOOLEAN,                          \* the policy waits between attempts
   dlqReplaySafe : BOOLEAN,                    \* the DLQ sink's write converges
   poison : {"None", "Dlq", "Drop", "Fail"},   \* PoisonPolicy::action
   rowAttempts : Nat,                          \* PoisonPolicy::max_row_attempts
   perPage : Nat, total : Nat,                 \* DLQ budgets (N or more: unlimited)
   breaker : Nat,                              \* consecutive_failures (0: no breaker)
   adaptive : BOOLEAN,                         \* pages are written in sub-batches
   drains : BOOLEAN]                           \* source_drains_on_cancel

ASSUME RunStreamAssumption ==
  /\ N \in Nat
  /\ MaxPage \in Nat \ {0}
  /\ MaxRuns \in Nat
  /\ Options \subseteq OptionType

VARIABLES
  \* What survives the process.
  stored,         \* the bookmark in the state store
  dur, dlqDur,    \* rows durable in the sink and in the dead-letter sink
  dropped,        \* rows discarded below the stored bookmark
  runs,           \* runs started so far
  outcome,        \* how the last run ended, "running" while there is one
  \* The sinks' buffers, lost with the process.
  buf, dlqBuf,
  \* The run.
  pc, opts, cancel,
  lo, pos, bm,    \* the page in hand: rows lo+1..pos, with a bookmark or not
  todo, chunk,    \* its rows not yet written; the sub-batch in hand
  failing, retri, \* rows of the sub-batch that failed; those worth a resubmission
  good, quar, env,\* its rows the sink accepted; quarantined; failed, with an envelope
  tries, rowTry,  \* attempts of the call in hand; submissions of the failing rows
  last,           \* last_bookmark
  consec,         \* the breaker's consecutive failed pages
  dlqTotal,       \* DlqStats::records_dlq
  abort,          \* a deferred budget or breaker error
  dropNow,        \* rows this run discarded
  \* History of the run, read by properties only.
  applied,        \* how often the sink took each row in this run
  dead            \* rows this run handed to the dead-letter sink

durable == <<stored, dur, dlqDur, dropped, runs, outcome>>
buffers == <<buf, dlqBuf>>
page    == <<lo, pos, bm>>
chunks  == <<todo, chunk, failing, retri, rowTry>>
tally   == <<good, quar, env, dropNow>>
limits  == <<consec, dlqTotal, abort>>
history == <<applied, dead>>
vars == <<durable, buffers, pc, opts, cancel, page, chunks, tally, tries, last,
          limits, history>>

PCs == {"idle", "poll", "abortEnv", "write", "poison", "settle", "dlqWrite",
        "flush", "dlqFlush", "put", "unwindDlq", "unwindMain", "finDlq", "finMain"}

TypeOK ==
  /\ stored \in 0..N /\ pos \in 0..N /\ lo \in 0..N /\ last \in 0..N
  /\ dur \subseteq Rows /\ dlqDur \subseteq Rows /\ dropped \subseteq Rows
  /\ buf \subseteq Rows /\ dlqBuf \subseteq Rows
  /\ pc \in PCs /\ opts \in OptionType /\ cancel \in BOOLEAN /\ bm \in BOOLEAN
  /\ todo \subseteq Rows /\ chunk \subseteq Rows
  /\ failing \subseteq Rows /\ retri \subseteq Rows
  /\ good \subseteq Rows /\ quar \subseteq Rows /\ env \subseteq Rows
  /\ dropNow \subseteq Rows
  /\ tries \in Nat /\ rowTry \in Nat /\ consec \in Nat /\ dlqTotal \in Nat
  /\ runs \in Nat /\ abort \in BOOLEAN
  /\ outcome \in {"none", "running", "ok", "err", "crashed"}
  /\ applied \in [Rows -> Nat] /\ dead \subseteq Rows
-------------------------------------------------------------------------------
(* dlq_all_is_safe and check_dlq_all_policy: routing a failed batch whole to
   the DLQ is refused when some of it may have landed. *)
DlqAllSafe(o) == o.keyed \/ o.atomicity # "BestEffort"

Admissible(o) ==
  /\ o.dlq /\ o.onBatchError = "DlqAll" => o.allowDuplicates \/ DlqAllSafe(o)
  /\ o.quarantine => o.dlq

(* with_retry!: another attempt is left and no cancel cuts its backoff short. *)
MayRetry == tries + 1 < opts.attempts /\ (cancel => ~opts.backoff)

(* with_retry_write!: a plain write is retried only where a replay converges. *)
MayRetryWrite == opts.keyed /\ MayRetry

(* What a failed write may leave in the sink: the promise of batch_atomicity. *)
Landed(S) == IF opts.atomicity = "BestEffort" THEN SUBSET S ELSE {{}}

(* The sub-batches the loop may offer next: the whole page, or any prefix of
   what is left when the adaptive controller sizes them. *)
SubBatches ==
  IF opts.adaptive
  THEN {S \in SUBSET todo : S # {} /\ \A a \in S, b \in todo \ S : a < b}
  ELSE {todo}

(* A retried call offers the sub-batch it failed on. *)
Offered == IF chunk = {} THEN SubBatches ELSE {chunk}

(* The sink takes the rows of S. *)
Take(S) ==
  /\ buf' = buf \cup S
  /\ applied' = [r \in Rows |-> IF r \in S THEN applied[r] + 1 ELSE applied[r]]
  /\ UNCHANGED <<dlqBuf, dead>>

Page == lo + 1 .. pos
Unwind == IF opts.dlq THEN "unwindDlq" ELSE "unwindMain"

(* Mutant: the success path leaves the DLQ unflushed. *)
FinishWithoutDlq == "finMain"

Finish == IF opts.dlq THEN "finDlq" ELSE "finMain"

AfterWrites(rest) == IF rest = {} THEN "settle" ELSE "write"
(* Where a page goes once its rows are out of the loop's hands. *)
AfterPage(failed) == IF failed THEN Unwind ELSE "poll"

(* Mutants: the checkpoint overtakes the flush; the deferred error of a page
   without a bookmark is forgotten. *)
AfterSettleUnflushed(failed) == IF bm THEN "put" ELSE AfterPage(failed)
AfterSettleForgets(failed) == IF bm THEN "flush" ELSE "poll"

AfterSettle(failed) == IF bm THEN "flush" ELSE AfterPage(failed)
-------------------------------------------------------------------------------
(* No run is under way: its locals are gone. *)
Init ==
  /\ stored = 0 /\ dur = {} /\ dlqDur = {} /\ dropped = {}
  /\ runs = 0 /\ outcome = "none"
  /\ buf = {} /\ dlqBuf = {}
  /\ pc = "idle" /\ opts \in Options /\ cancel = FALSE
  /\ lo = 0 /\ pos = 0 /\ bm = FALSE
  /\ todo = {} /\ chunk = {} /\ failing = {} /\ retri = {} /\ rowTry = 0
  /\ good = {} /\ quar = {} /\ env = {} /\ dropNow = {}
  /\ tries = 0 /\ last = 0
  /\ consec = 0 /\ dlqTotal = 0 /\ abort = FALSE
  /\ applied = [r \in Rows |-> 0] /\ dead = {}

(* Mutants: the source starts over; it starts one row late. *)
ResumeFromStart == 0
ResumePastBookmark == stored + 1

(* The position the source is started at: apply_start_bookmark. *)
ResumeFrom == stored

(* Pipeline::run: the configuration is checked, the stored bookmark is read
   and handed to the source, and the loop begins. *)
StartRun ==
  /\ pc = "idle" /\ runs < MaxRuns
  /\ opts' \in {o \in Options : Admissible(o)}
  /\ runs' = runs + 1 /\ outcome' = "running"
  /\ pc' = "poll"
  /\ lo' = ResumeFrom /\ pos' = ResumeFrom /\ last' = ResumeFrom
  /\ UNCHANGED <<stored, dur, dlqDur, dropped, buffers, cancel, bm, chunks, tally,
                 tries, limits, history>>

(* The run is over, or its process is dead: the loop's locals and whatever the
   sinks still held in their buffers are gone. *)
EndRun(result) ==
  /\ outcome' = result
  /\ buf' = {} /\ dlqBuf' = {}
  /\ pc' = "idle" /\ UNCHANGED opts /\ cancel' = FALSE
  /\ lo' = 0 /\ pos' = 0 /\ bm' = FALSE
  /\ todo' = {} /\ chunk' = {} /\ failing' = {} /\ retri' = {} /\ rowTry' = 0
  /\ good' = {} /\ quar' = {} /\ env' = {} /\ dropNow' = {}
  /\ tries' = 0 /\ last' = 0
  /\ consec' = 0 /\ dlqTotal' = 0 /\ abort' = FALSE
  /\ applied' = [r \in Rows |-> 0] /\ dead' = {}

Crash ==
  /\ pc # "idle"
  /\ EndRun("crashed")
  /\ UNCHANGED <<stored, dur, dlqDur, dropped, runs>>

(* The cancellation token fires, at any time. *)
Cancel ==
  /\ pc # "idle" /\ ~cancel
  /\ cancel' = TRUE
  /\ UNCHANGED <<durable, buffers, pc, opts, page, chunks, tally, tries, last,
                 limits, history>>

(* A sink may make buffered rows durable before it is asked to. *)
Spill ==
  /\ \E S \in SUBSET buf : S # {} /\ dur' = dur \cup S /\ buf' = buf \ S
  /\ UNCHANGED <<stored, dlqDur, dropped, runs, outcome, dlqBuf, pc, opts, cancel, page,
                 chunks, tally, tries, last, limits, history>>
-------------------------------------------------------------------------------
(* The biased select: a fired token wins over the next page unless the source
   drains. *)
Polling == pc = "poll" /\ (~cancel \/ opts.drains)

(* The source yields rows pos+1..hi, with a bookmark or without; a page of no
   rows is yielded only to carry a new bookmark. *)
NextPage(hi, b) ==
  /\ Polling
  /\ hi \in pos..N /\ hi <= pos + MaxPage
  /\ hi = pos => b /\ last < pos
  /\ lo' = pos /\ pos' = hi /\ bm' = b

(* apply_governance lets the page through; Q is what it quarantined. *)
PollPage ==
  \E hi \in 0..N, b \in BOOLEAN :
    /\ NextPage(hi, b)
    /\ \E Q \in SUBSET (pos + 1 .. hi) :
         /\ Q # {} => opts.quarantine
         /\ quar' = Q
         /\ todo' = (pos + 1 .. hi) \ Q
    /\ good' = {} /\ env' = {}
    /\ pc' = AfterWrites(todo')
    /\ UNCHANGED <<durable, buffers, opts, cancel, chunk, failing, retri, rowTry,
                   dropNow, tries, last, limits, history>>

(* A drift `fail` with a DLQ attached: the page's survivors are not written,
   its quarantined rows are. *)
PollDriftAbort ==
  \E hi \in 0..N, b \in BOOLEAN :
    /\ opts.dlq
    /\ NextPage(hi, b) /\ hi > pos
    /\ \E Q \in SUBSET (pos + 1 .. hi) : (Q # {} => opts.quarantine) /\ quar' = Q
    /\ pc' = "abortEnv"
    /\ UNCHANGED <<durable, buffers, opts, cancel, chunks, good, env, dropNow,
                   tries, last, limits, history>>

(* The source fails, or a governance pass refuses the page outright. *)
PollFails ==
  /\ Polling
  /\ pc' = Unwind
  /\ UNCHANGED <<durable, buffers, opts, cancel, page, chunks, tally, tries, last,
                 limits, history>>

(* Mutant: a fired token stops the polling but not the loop. *)
PollEndIgnoresCancel ==
  /\ pc = "poll" /\ pos = N
  /\ pc' = Finish
  /\ UNCHANGED <<durable, buffers, opts, cancel, page, chunks, tally, tries, last,
                 limits, history>>

(* The stream ends: at its last row, early when a draining source saw the
   cancel, or because the loop saw it first. *)
PollEnd ==
  /\ pc = "poll" /\ (cancel \/ pos = N)
  /\ pc' = Finish
  /\ UNCHANGED <<durable, buffers, opts, cancel, page, chunks, tally, tries, last,
                 limits, history>>

(* abort_with_envelopes: write and flush the envelopes, then fail the run. *)
AbortEnvelopes ==
  /\ pc = "abortEnv"
  /\ IF quar = {}
     THEN UNCHANGED <<dlqDur, dlqBuf>>
     ELSE \/ dlqDur' = dlqDur \cup dlqBuf \cup quar /\ dlqBuf' = {}
          \/ \E S \in SUBSET quar : dlqBuf' = dlqBuf \cup S /\ UNCHANGED dlqDur
  /\ dead' = dead \cup quar
  /\ pc' = "unwindDlq"
  /\ UNCHANGED <<stored, dur, dropped, runs, outcome, buf, opts, cancel, page, chunks,
                 tally, tries, last, limits, applied>>
-------------------------------------------------------------------------------
(* One sub-batch of the path without a DLQ.  A report short of what was
   offered is only noticed when the page is settled. *)
Write ==
  \E c \in Offered :
    /\ pc = "write" /\ ~opts.dlq
    /\ \E S \in SUBSET c : Take(S) /\ good' = good \cup S
    /\ todo' = todo \ c
    /\ chunk' = {} /\ tries' = 0
    /\ pc' = AfterWrites(todo')
    /\ UNCHANGED <<durable, opts, cancel, page, failing, retri, rowTry, quar,
                   env, dropNow, last, limits>>

(* One sub-batch through write_batch_partial: the sink reports a result per
   row; F failed, R of them for a transient cause. *)
WritePartial ==
  \E c \in Offered :
    /\ pc = "write" /\ opts.dlq
    /\ \E F \in SUBSET c : \E R \in SUBSET F :
         /\ F # {} => opts.atomicity = "PerRow"
         /\ Take(c \ F)
         /\ failing' = F /\ retri' = R
    /\ chunk' = c /\ rowTry' = 1 /\ tries' = 0
    /\ pc' = "poison"
    /\ UNCHANGED <<durable, opts, cancel, page, todo, tally, last, limits>>

WriteRetry ==
  \E c \in Offered :
    /\ pc = "write" /\ MayRetryWrite
    /\ \E S \in Landed(c) : Take(S)
    /\ chunk' = c /\ tries' = tries + 1
    /\ UNCHANGED <<durable, pc, opts, cancel, page, todo, failing, retri, rowTry,
                   tally, last, limits>>

(* Attempts are spent or the error is final: an outer error that propagates, a
   report of the wrong length, a budget or policy refusal. *)
WriteFails ==
  \E c \in Offered :
    /\ pc = "write"
    /\ \E S \in SUBSET c : Take(S)
    /\ pc' = Unwind
    /\ UNCHANGED <<durable, opts, cancel, page, chunks, tally, tries, last, limits>>

(* on_batch_error dlq_all: every row of the failed sub-batch is synthesized a
   failure, which the poison loop does not resubmit. *)
WriteDlqAll ==
  \E c \in Offered :
    /\ pc = "write" /\ opts.dlq /\ opts.onBatchError = "DlqAll"
    /\ \E S \in Landed(c) : Take(S)
    /\ chunk' = c /\ failing' = c /\ retri' = {} /\ rowTry' = 1 /\ tries' = 0
    /\ pc' = "poison"
    /\ UNCHANGED <<durable, opts, cancel, page, todo, tally, last, limits>>

(* Mutant: the whole sub-batch is submitted again. *)
ResubmittedAll == chunk

Resubmitted == retri

(* The poison-pill loop resubmits the rows that failed for a transient cause. *)
Resubmitting ==
  pc = "poison" /\ opts.poison # "None" /\ rowTry < opts.rowAttempts /\ retri # {}

PoisonRetry ==
  /\ Resubmitting
  /\ \E F \in SUBSET Resubmitted : \E R \in SUBSET F :
       /\ Take(Resubmitted \ F)
       /\ failing' = (failing \ Resubmitted) \cup F
       /\ retri' = R
  /\ rowTry' = rowTry + 1
  /\ UNCHANGED <<durable, pc, opts, cancel, page, todo, chunk, tally, tries, last,
                 limits>>

PoisonFails ==
  /\ Resubmitting
  /\ \E S \in SUBSET retri : Take(S)
  /\ pc' = Unwind
  /\ UNCHANGED <<durable, opts, cancel, page, chunks, tally, tries, last, limits>>

(* Mutant: a row's own success is not looked at. *)
CondemnedAll == chunk

Condemned == failing

(* The terminal action of the rows still failing, then the next sub-batch. *)
SettleChunk ==
  /\ pc = "poison" /\ ~Resubmitting
  /\ failing = {} \/ opts.poison # "Fail"
  /\ good' = good \cup (chunk \ failing)
  /\ IF opts.poison = "Drop"
     THEN dropNow' = dropNow \cup Condemned /\ UNCHANGED env
     ELSE env' = env \cup Condemned /\ UNCHANGED dropNow
  /\ todo' = todo \ chunk
  /\ chunk' = {} /\ failing' = {} /\ retri' = {} /\ rowTry' = 0
  /\ pc' = AfterWrites(todo')
  /\ UNCHANGED <<durable, buffers, opts, cancel, page, quar, tries, last, limits,
                 history>>

PoisonAborts ==
  /\ pc = "poison" /\ ~Resubmitting
  /\ failing # {} /\ opts.poison = "Fail"
  /\ pc' = Unwind
  /\ UNCHANGED <<durable, buffers, opts, cancel, page, chunks, tally, tries, last,
                 limits, history>>
-------------------------------------------------------------------------------
(* The page's rows are out.  Without a DLQ its account must balance.  With one,
   the breaker and the budgets are consulted, but an error of theirs waits until
   the page is durable. *)
Unaccounted == Page \ (good \cup quar \cup env \cup dropNow)

PageFailures == Cardinality(quar \cup env)

OverBudget ==
  PageFailures > opts.perPage \/ dlqTotal + PageFailures > opts.total

PageFailed == Page # quar /\ good = {}

(* CircuitBreaker::record_failure and record_success. *)
BreakerCount ==
  IF opts.breaker # 0 /\ PageFailed THEN consec + 1
  ELSE IF good # {} THEN 0
  ELSE consec

BreakerOpens == opts.breaker # 0 /\ PageFailed /\ BreakerCount >= opts.breaker

Settle ==
  /\ pc = "settle" /\ ~opts.dlq
  /\ pc' = IF Unaccounted # {} THEN Unwind ELSE AfterSettle(FALSE)
  /\ UNCHANGED <<durable, buffers, opts, cancel, page, chunks, tally, tries, last,
                 limits, history>>

SettleDlq ==
  /\ pc = "settle" /\ opts.dlq
  /\ consec' = BreakerCount
  /\ abort' = (OverBudget \/ BreakerOpens)
  /\ pc' = IF quar \cup env # {} THEN "dlqWrite" ELSE AfterSettle(abort')
  /\ UNCHANGED <<durable, buffers, opts, cancel, page, chunks, tally, tries, last,
                 dlqTotal, history>>

(* The envelopes reach the dead-letter sink: an error here is fatal, and is
   retried only where a replay of the DLQ sink's own write converges. *)
DlqWrite ==
  /\ pc = "dlqWrite"
  /\ \/ /\ dlqBuf' = dlqBuf \cup quar \cup env
        /\ dlqTotal' = dlqTotal + PageFailures
        /\ tries' = 0 /\ pc' = AfterSettle(abort)
     \/ /\ \E S \in SUBSET (quar \cup env) : dlqBuf' = dlqBuf \cup S
        /\ UNCHANGED dlqTotal
        /\ \/ opts.dlqReplaySafe /\ MayRetry /\ tries' = tries + 1 /\ UNCHANGED pc
           \/ tries' = 0 /\ pc' = Unwind
  /\ dead' = dead \cup quar \cup env
  /\ UNCHANGED <<durable, buf, opts, cancel, page, chunks, tally, last, consec,
                 abort, applied>>
-------------------------------------------------------------------------------
(* with_retry!: the attempt in hand failed; there is another, or the loop ends.
   A call may fail after it took effect. *)
RetryOrUnwind ==
  \/ MayRetry /\ tries' = tries + 1 /\ UNCHANGED pc
  \/ tries' = 0 /\ pc' = Unwind

Returns(next) == tries' = 0 /\ pc' = next

(* Mutant: the queue is not flushed before the checkpoint. *)
AfterFlushSkipsDlq == "put"

(* The order of a bookmarked page: flush the sink, flush the DLQ, checkpoint. *)
AfterFlush == IF opts.dlq THEN "dlqFlush" ELSE "put"

Flush ==
  /\ pc = "flush"
  /\ \/ /\ dur' = dur \cup buf /\ buf' = {}
        /\ Returns(AfterFlush) \/ RetryOrUnwind
     \/ UNCHANGED <<dur, buf>> /\ RetryOrUnwind
  /\ UNCHANGED <<stored, dlqDur, dropped, runs, outcome, dlqBuf, opts, cancel, page, chunks,
                 tally, last, limits, history>>

FlushDlq ==
  /\ pc = "dlqFlush"
  /\ \/ /\ dlqDur' = dlqDur \cup dlqBuf /\ dlqBuf' = {}
        /\ Returns("put") \/ RetryOrUnwind
     \/ UNCHANGED <<dlqDur, dlqBuf>> /\ RetryOrUnwind
  /\ UNCHANGED <<stored, dur, dropped, runs, outcome, buf, opts, cancel, page, chunks,
                 tally, last, limits, history>>

Put ==
  /\ pc = "put"
  /\ \/ /\ stored' = pos /\ dropped' = dropped \cup dropNow
        /\ \/ Returns(AfterPage(abort)) /\ last' = pos
           \/ RetryOrUnwind /\ UNCHANGED last
     \/ UNCHANGED <<stored, dropped, last>> /\ RetryOrUnwind
  /\ UNCHANGED <<dur, dlqDur, runs, outcome, buffers, opts, cancel, page, chunks, tally,
                 limits, history>>
-------------------------------------------------------------------------------
(* The error unwind: best-effort flushes, the DLQ first. *)
UnwindDlq ==
  /\ pc = "unwindDlq"
  /\ \/ dlqDur' = dlqDur \cup dlqBuf /\ dlqBuf' = {}
     \/ UNCHANGED <<dlqDur, dlqBuf>>
  /\ pc' = "unwindMain"
  /\ UNCHANGED <<stored, dur, dropped, runs, outcome, buf, opts, cancel, page, chunks,
                 tally, tries, last, limits, history>>

UnwindMain ==
  /\ pc = "unwindMain"
  /\ dur' = dur \cup buf \/ dur' = dur
  /\ EndRun("err")
  /\ UNCHANGED <<stored, dlqDur, dropped, runs>>

(* The success path flushes the DLQ first too, and returns its error before the
   sink is flushed. *)
FinishDlq ==
  /\ pc = "finDlq"
  /\ dlqDur' = dlqDur \cup dlqBuf /\ dlqBuf' = {}
  /\ pc' = "finMain"
  /\ UNCHANGED <<stored, dur, dropped, runs, outcome, buf, opts, cancel, page, chunks, tally,
                 tries, last, limits, history>>

FinishDlqFails ==
  /\ pc = "finDlq"
  /\ EndRun("err")
  /\ UNCHANGED <<stored, dur, dlqDur, dropped, runs>>

FinishMain ==
  /\ pc = "finMain"
  /\ \/ dur' = dur \cup buf /\ EndRun("ok")
     \/ dur' = dur /\ EndRun("err")
  /\ UNCHANGED <<stored, dlqDur, dropped, runs>>
-------------------------------------------------------------------------------
(* The steps of the loop, as against what the world does to it. *)
Step ==
  \/ PollPage \/ PollDriftAbort \/ PollFails \/ PollEnd \/ AbortEnvelopes
  \/ Write \/ WritePartial \/ WriteRetry \/ WriteFails \/ WriteDlqAll
  \/ PoisonRetry \/ PoisonFails \/ SettleChunk \/ PoisonAborts
  \/ Settle \/ SettleDlq \/ DlqWrite \/ Flush \/ FlushDlq \/ Put
  \/ UnwindDlq \/ UnwindMain
  \/ FinishDlq \/ FinishDlqFails \/ FinishMain

Next == StartRun \/ Step \/ Crash \/ Cancel \/ Spill

Spec == Init /\ [][Next]_vars

(* The runtime keeps polling a run that is not finished. *)
FairSpec == Spec /\ WF_vars(Step)
-------------------------------------------------------------------------------
(* I1, I3: every row a stored bookmark covers is durable in the sink or in the
   dead-letter queue, or was discarded by the poison-pill policy: whatever the
   configuration, whenever the process dies, whichever call failed after taking
   effect. *)
BookmarkCovered == 1..stored \subseteq dur \cup dlqDur \cup dropped

(* The abstract promise of a pipeline, with the sinks' durable contents. *)
Promise == INSTANCE Delivery WITH
  delivered <- dur \cup dlqDur, discarded <- dropped, checkpoint <- stored

(* RunStream implements Delivery: the stored bookmark moves only forwards and
   only over rows with a disposition (I1, I4). *)
ImplementsDelivery == Promise!Spec

(* I2: within a run the sink takes no row twice, unless its writes converge by
   key: neither the retry policy nor the poison-pill resubmission replays a row
   that may have landed. *)
NoReplayWithinRun == ~opts.keyed => \A r \in Rows : applied[r] <= 1

(* A row handed to the dead-letter queue is not in the sink as well, or a replay
   of the queue would write it a second time: what check_dlq_all_policy is for. *)
DeadLetterDisjoint ==
  (~opts.keyed /\ ~opts.allowDuplicates) => \A r \in dead : applied[r] = 0

(* I7, I8: a run that returns Ok, cancelled or not, leaves nothing in a buffer:
   every row it took from the source has its disposition. *)
OkRunIsDurable ==
  [][outcome' = "ok" => \/ pc = "idle"
                        \/ 1..pos \subseteq dur' \cup dlqDur' \cup dropped \cup dropNow]_vars

(* The deferred errors are honoured: the loop takes no page from the source once
   the run's DLQ budget is spent or its circuit is open, whether or not the page
   that crossed the limit carried a bookmark. *)
StopsAtLimits ==
  pc = "poll" => /\ dlqTotal <= opts.total
                 /\ opts.breaker # 0 => consec < opts.breaker
===============================================================================
