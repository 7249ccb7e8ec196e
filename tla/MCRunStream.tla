----------------------------- MODULE MCRunStream -----------------------------
(* Instances of RunStream for TLC: the run configurations, one or more of each kind. *)
EXTENDS RunStream

Base ==
  [atomicity |-> "BestEffort", keyed |-> FALSE, dlq |-> FALSE, quarantine |-> FALSE,
   onBatchError |-> "Propagate", allowDuplicates |-> FALSE, attempts |-> 1, backoff |-> TRUE,
   dlqReplaySafe |-> FALSE, poison |-> "None", rowAttempts |-> 0, perPage |-> N, total |-> N,
   breaker |-> 0, adaptive |-> FALSE, drains |-> FALSE]

(* No dead-letter queue: whole pages, retried flushes and checkpoints, and
   sub-batches from a source that drains. *)
PlainOptions ==
  {[Base EXCEPT !.attempts = 2, !.backoff = FALSE],
   [Base EXCEPT !.adaptive = TRUE, !.drains = TRUE]}

(* A dead-letter queue before a sink with per-row results (quarantine and budgets,
   each poison action, the breaker), and before one of atomic batches, whose
   failed batches are routed whole. *)
DlqBase == [Base EXCEPT !.atomicity = "PerRow", !.dlq = TRUE]
DlqOptions ==
  {[DlqBase EXCEPT !.quarantine = TRUE, !.perPage = 1],
   [DlqBase EXCEPT !.attempts = 2, !.poison = "Drop", !.rowAttempts = 2],
   [DlqBase EXCEPT !.attempts = 2, !.poison = "Fail", !.rowAttempts = 2],
   [DlqBase EXCEPT !.poison = "Dlq", !.rowAttempts = 2, !.breaker = 2, !.total = 1],
   [DlqBase EXCEPT !.atomicity = "Atomic", !.onBatchError = "DlqAll", !.adaptive = TRUE],
   [DlqBase EXCEPT !.atomicity = "Atomic", !.onBatchError = "DlqAll", !.attempts = 2,
                   !.dlqReplaySafe = TRUE, !.quarantine = TRUE]}

(* A converging sink that commits batches in part: what it may have is offered
   again.  And every loop that could spin: retries, resubmissions, sub-batches. *)
KeyedBase == [Base EXCEPT !.keyed = TRUE]
KeyedOptions ==
  {[KeyedBase EXCEPT !.dlq = TRUE, !.onBatchError = "DlqAll", !.attempts = 2],
   [KeyedBase EXCEPT !.attempts = 3, !.backoff = FALSE, !.adaptive = TRUE, !.drains = TRUE],
   [KeyedBase EXCEPT !.atomicity = "PerRow", !.dlq = TRUE, !.attempts = 3, !.poison = "Dlq",
                     !.rowAttempts = 3, !.dlqReplaySafe = TRUE]}

StreamOptions == PlainOptions \cup DlqOptions \cup KeyedOptions

(* I7, I8: a run that is not killed ends, whatever fails and whenever it is
   cancelled: no retry or resubmission loop goes on for ever. *)
RunEnds == pc # "idle" ~> pc = "idle"
===============================================================================
