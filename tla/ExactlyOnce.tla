----------------------------- MODULE ExactlyOnce -----------------------------
(***************************************************************************)
(* delivery: exactly_once under the atomic-watermark mechanism             *)
(* (crates/core/src/pipeline.rs, crates/core/src/idempotency.rs): each     *)
(* bookmarked page is written together with a commit token, a sequence     *)
(* number that carries the page's bookmark, and a resumed run re-anchors   *)
(* the source on the sink's token when the state store is behind it.       *)
(*                                                                         *)
(* The sink is modelled from how it commits: a SQL sink commits the rows   *)
(* and the token of a page in one transaction of the write                 *)
(* (crates/common/sql/src/driver.rs, write_with_token), the Iceberg sink   *)
(* commits what it has buffered and the last token in one snapshot of the  *)
(* flush (crates/sink/iceberg/src/sink.rs).                                *)
(***************************************************************************)
EXTENDS Naturals

CONSTANTS
  N,              \* the source holds the rows 1..N
  MaxPage,        \* rows a page may hold
  MaxRuns,        \* runs started (bound)
  Attempts,       \* RetryPolicy::max_attempts
  Deployments,    \* where the sink commits, and what the source replays
  StateLoss,      \* the state store may lose its contents
  ShortReports    \* the sink may report fewer rows than it was offered

Rows == 1..N

ASSUME ExactlyOnceAssumption ==
  /\ N \in Nat
  /\ MaxPage \in Nat \ {0}
  /\ MaxRuns \in Nat
  /\ Attempts \in Nat \ {0}
  /\ Deployments \subseteq [commits : {"OnWrite", "OnFlush"}, replay : {"Positions", "Pages"}]
  /\ StateLoss \in BOOLEAN
  /\ ShortReports \in BOOLEAN

VARIABLES
  deployed,       \* the deployment, the same in every run
  \* What survives the process.
  cnt,            \* copies of each row in the sink
  tok,            \* the sink's watermark, sequence 0 when it has none
  st,             \* the stored state, unwrapped: a bookmark and a sequence
  runs, outcome,
  \* The Iceberg sink's uncommitted rows and token, lost with the process.
  pend, ptok,
  \* The run.
  pc, cancel,
  lo, pos, bm,    \* the page in hand: rows lo+1..pos, with a bookmark or not
  seq,            \* next_seq
  committed,      \* committed_seq, the watermark as read at the start
  tries,          \* attempts of the call in hand
  \* History, read by properties only.
  loose           \* rows written at least once outside a token

durable == <<cnt, tok, st, runs, outcome>>
buffer  == <<pend, ptok>>
page    == <<lo, pos, bm>>
vars == <<deployed, durable, buffer, pc, cancel, page, seq, committed, tries, loose>>

Commits == deployed.commits   \* "OnWrite" or "OnFlush"
Replay == deployed.replay     \* "Positions", or the same "Pages"

Tokens == [seq : Nat, anchored : BOOLEAN, bm : 0..N]
NoToken == [seq |-> 0, anchored |-> FALSE, bm |-> 0]

(* format_token_with_bookmark, and the bare token of an earlier release. *)
Token(s, b) == [seq |-> s, anchored |-> TRUE, bm |-> b]
BareToken(s) == [seq |-> s, anchored |-> FALSE, bm |-> 0]

TypeOK ==
  /\ deployed \in Deployments
  /\ cnt \in [Rows -> Nat] /\ tok \in Tokens
  /\ st \in [bm : 0..N, seq : Nat]
  /\ runs \in Nat /\ outcome \in {"none", "running", "ok", "err", "crashed"}
  /\ pend \subseteq Rows /\ ptok \in Tokens
  /\ pc \in {"idle", "poll", "write", "flush", "put", "unwind", "finish"}
  /\ cancel \in BOOLEAN
  /\ lo \in 0..N /\ pos \in 0..N /\ bm \in BOOLEAN
  /\ seq \in Nat /\ committed \in Nat /\ tries \in Nat
  /\ loose \subseteq Rows

Durable == {r \in Rows : cnt[r] > 0}
Page == lo + 1 .. pos
Added(S) == [r \in Rows |-> IF r \in S THEN cnt[r] + 1 ELSE cnt[r]]
PageEnd(p) == IF p + MaxPage < N THEN p + MaxPage ELSE N
-------------------------------------------------------------------------------
(* Mutant: the watermark is consulted only beside a stored state. *)
ReanchoredWithState == tok.anchored /\ tok.seq > st.seq /\ st.seq > 0

(* Sink-anchored resume: a watermark ahead of the stored sequence wins, if it
   carries a bookmark. *)
Reanchored == tok.anchored /\ tok.seq > st.seq

(* Mutant: the source starts one row late. *)
StartPastAnchor == IF Reanchored THEN tok.bm + 1 ELSE st.bm

StartAt == IF Reanchored THEN tok.bm ELSE st.bm
StartSeq == IF Reanchored THEN tok.seq ELSE st.seq
-------------------------------------------------------------------------------
(* The pipeline is new; or it has run at least once before with delivery
   at_least_once, which leaves a bare bookmark and no watermark; or, when the
   source replays the same pages, with a release whose tokens were bare. *)
Fresh ==
  /\ cnt = [r \in Rows |-> 0] /\ st = [bm |-> 0, seq |-> 0]
  /\ tok = NoToken /\ loose = {}

WasAtLeastOnce ==
  \E p \in 0..N : \E q \in p..N :
    /\ cnt = [r \in Rows |-> IF r <= q THEN 1 ELSE 0]
    /\ st = [bm |-> p, seq |-> 0]
    /\ tok = NoToken /\ loose = p + 1 .. q

PagesUpTo(k) == IF k * MaxPage < N THEN k * MaxPage ELSE N

HadBareTokens ==
  /\ Replay = "Pages"
  /\ \E k \in 1..N : \E j \in {k - 1, k} :
       /\ (k - 1) * MaxPage < N
       /\ cnt = [r \in Rows |-> IF r <= PagesUpTo(k) THEN 1 ELSE 0]
       /\ st = [bm |-> PagesUpTo(j), seq |-> j]
       /\ tok = BareToken(k) /\ loose = {}

Init ==
  /\ deployed \in Deployments
  /\ Fresh \/ (WasAtLeastOnce /\ Replay = "Positions") \/ HadBareTokens
  /\ runs = 0 /\ outcome = "none"
  /\ pend = {} /\ ptok = NoToken
  /\ pc = "idle" /\ cancel = FALSE
  /\ lo = 0 /\ pos = 0 /\ bm = FALSE
  /\ seq = 0 /\ committed = 0 /\ tries = 0

(* Pipeline::run reads the state, then the watermark, and run_stream_with reads
   the watermark once more. *)
StartRun ==
  /\ pc = "idle" /\ runs < MaxRuns
  /\ runs' = runs + 1 /\ outcome' = "running"
  /\ pc' = "poll"
  /\ lo' = StartAt /\ pos' = StartAt /\ seq' = StartSeq
  /\ committed' = tok.seq
  /\ UNCHANGED <<cnt, tok, st, buffer, cancel, bm, tries, loose>>

EndRun(result) ==
  /\ outcome' = result
  /\ pend' = {} /\ ptok' = NoToken
  /\ pc' = "idle" /\ cancel' = FALSE
  /\ lo' = 0 /\ pos' = 0 /\ bm' = FALSE
  /\ seq' = 0 /\ committed' = 0 /\ tries' = 0

Crash ==
  /\ pc # "idle"
  /\ EndRun("crashed")
  /\ UNCHANGED <<cnt, tok, st, runs, loose>>

Cancel ==
  /\ pc # "idle" /\ ~cancel
  /\ cancel' = TRUE
  /\ UNCHANGED <<durable, buffer, pc, page, seq, committed, tries, loose>>

(* The state store is lost between two runs, once the sink has a watermark. *)
LoseState ==
  /\ StateLoss /\ pc = "idle" /\ tok.seq > 0
  /\ st' = [bm |-> 0, seq |-> 0]
  /\ UNCHANGED <<cnt, tok, runs, outcome, buffer, pc, cancel, page, seq, committed,
                 tries, loose>>
-------------------------------------------------------------------------------
(* The source yields rows pos+1..hi, and a page of no rows only to bookmark what
   no page has bookmarked yet in this run.  A page with a bookmark takes the next
   sequence number; one the watermark already covers is not written.  A source
   that replays pages cuts them at the same rows and bookmarks them all. *)
NextSeq == seq + 1

(* Mutant: no skip at all. *)
NeverSkips == FALSE

Skips == NextSeq <= committed

(* Mutant: the checkpoint overtakes the flush. *)
CheckpointFirst == "put"

AfterWrite == "flush"

Poll ==
  /\ pc = "poll" /\ ~cancel
  /\ \E hi \in pos..N, b \in BOOLEAN :
       /\ hi <= pos + MaxPage
       /\ hi = pos => b /\ ~bm
       /\ Replay = "Pages" => b /\ pos < N /\ hi = PageEnd(pos)
       /\ lo' = pos /\ pos' = hi /\ bm' = b
       /\ IF b
          THEN /\ seq' = NextSeq
               /\ pc' = IF Skips THEN AfterWrite ELSE "write"
          ELSE UNCHANGED seq /\ pc' = "write"
  /\ UNCHANGED <<durable, buffer, cancel, committed, tries, loose>>

PollFails ==
  /\ pc = "poll" /\ ~cancel
  /\ pc' = "unwind"
  /\ UNCHANGED <<durable, buffer, cancel, page, seq, committed, tries, loose>>

PollEnd ==
  /\ pc = "poll" /\ (cancel \/ pos = N)
  /\ pc' = "finish"
  /\ UNCHANGED <<durable, buffer, cancel, page, seq, committed, tries, loose>>

(* The rows a write that returns leaves behind, and whether its report passes
   PageAccount::settle. *)
Taken == IF ShortReports THEN SUBSET Page ELSE {Page}
Settled(S, next) == IF S = Page THEN next ELSE "unwind"

(* A page without a bookmark is written as it is, without a token and without
   a retry. *)
WritePlain ==
  /\ pc = "write" /\ ~bm
  /\ \/ \E S \in Taken : /\ loose' = loose \cup S
                         /\ pc' = Settled(S, "poll")
                         /\ IF Commits = "OnWrite"
                            THEN cnt' = Added(S) /\ UNCHANGED pend
                            ELSE pend' = pend \cup S /\ UNCHANGED cnt
     \/ \E S \in SUBSET Page : /\ loose' = loose \cup S
                               /\ pc' = "unwind"
                               /\ UNCHANGED pend
                               /\ IF Commits = "OnWrite"
                                  THEN cnt' = Added(S)
                                  ELSE S = {} /\ UNCHANGED cnt
  /\ UNCHANGED <<tok, st, runs, outcome, ptok, cancel, page, seq, committed, tries>>

(* The attempt in hand failed: another one, or the end of the run, because the
   error is final, the attempts are spent or a cancel cut the backoff short. *)
RetryOrUnwind ==
  \/ tries + 1 < Attempts /\ tries' = tries + 1 /\ UNCHANGED pc
  \/ tries' = 0 /\ pc' = "unwind"

NotAskedAgain == FALSE  \* mutant: a retry does not ask

(* eo_write_once: every attempt but the first asks the sink whether the page is
   already committed. *)
AlreadyCommitted == tries > 0 /\ tok.seq >= seq

EoWriteCommitted ==
  /\ pc = "write" /\ bm /\ AlreadyCommitted
  /\ tries' = 0 /\ pc' = AfterWrite
  /\ UNCHANGED <<durable, buffer, cancel, page, seq, committed, loose>>

EoWrite ==
  /\ pc = "write" /\ bm /\ ~AlreadyCommitted
  /\ \E S \in Taken :
       /\ IF Commits = "OnWrite"
          THEN /\ cnt' = Added(S) /\ tok' = Token(seq, pos)
               /\ UNCHANGED buffer
          ELSE /\ pend' = pend \cup S /\ ptok' = Token(seq, pos)
               /\ UNCHANGED <<cnt, tok>>
       /\ tries' = 0 /\ pc' = Settled(S, AfterWrite)
  /\ UNCHANGED <<st, runs, outcome, cancel, page, seq, committed, loose>>

(* The attempt fails: with nothing done (in the write, or in reading the token),
   or, for a transaction, after it committed. *)
EoWriteFails ==
  /\ pc = "write" /\ bm
  /\ \/ UNCHANGED <<cnt, tok>>
     \/ /\ Commits = "OnWrite" /\ ~AlreadyCommitted
        /\ \E S \in Taken : cnt' = Added(S)
        /\ tok' = Token(seq, pos)
  /\ RetryOrUnwind
  /\ UNCHANGED <<st, runs, outcome, buffer, cancel, page, seq, committed, loose>>

(* A writer failure part-way poisons the Iceberg sink: nothing it holds is ever
   committed. *)
WritePoisons ==
  /\ pc = "write" /\ Commits = "OnFlush" /\ Page # {}
  /\ pend' = {} /\ ptok' = NoToken
  /\ tries' = 0 /\ pc' = "unwind"
  /\ UNCHANGED <<durable, cancel, page, seq, committed, loose>>
-------------------------------------------------------------------------------
(* commit_pending: one snapshot of the buffered rows and the last token, none
   when there are no rows, and then the token waits for the next flush.  The
   sink's watermark is the greatest token of its snapshots. *)
SnapshotLands ==
  /\ cnt' = Added(pend)
  /\ tok' = IF pend # {} /\ ptok.seq > tok.seq THEN ptok ELSE tok

MayLand == SnapshotLands \/ UNCHANGED <<cnt, tok>>

Flush ==
  /\ pc = "flush"
  /\ SnapshotLands
  /\ pend' = {} /\ ptok' = IF pend # {} THEN NoToken ELSE ptok
  /\ tries' = 0 /\ pc' = "put"
  /\ UNCHANGED <<st, runs, outcome, cancel, page, seq, committed, loose>>

(* The buffered files are taken before the snapshot is committed: a commit that
   fails, whether or not the catalog has it, leaves nothing to commit again and
   is not retried.  A SQL sink's flush has nothing to do. *)
FlushFails ==
  /\ pc = "flush"
  /\ IF Commits = "OnFlush"
     THEN MayLand /\ pend' = {} /\ ptok' = NoToken /\ tries' = 0 /\ pc' = "unwind"
     ELSE RetryOrUnwind /\ UNCHANGED <<cnt, tok, buffer>>
  /\ UNCHANGED <<st, runs, outcome, cancel, page, seq, committed, loose>>

(* The state, wrapped with its sequence, is stored after the commit. *)
Put ==
  /\ pc = "put"
  /\ st' = [bm |-> pos, seq |-> seq]
  /\ \/ tries' = 0 /\ pc' = "poll"
     \/ RetryOrUnwind
  /\ UNCHANGED <<cnt, tok, runs, outcome, buffer, cancel, page, seq, committed, loose>>

PutFails ==
  /\ pc = "put"
  /\ RetryOrUnwind
  /\ UNCHANGED <<durable, buffer, cancel, page, seq, committed, loose>>

(* Both ends of a run flush; what the sink buffered may be committed here. *)
Unwind ==
  /\ pc = "unwind"
  /\ MayLand
  /\ EndRun("err")
  /\ UNCHANGED <<st, runs, loose>>

(* Mutant: the last flush is left out. *)
FinishUnflushed ==
  /\ pc = "finish"
  /\ EndRun("ok")
  /\ UNCHANGED <<cnt, tok, st, runs, loose>>

Finish ==
  /\ pc = "finish"
  /\ \/ SnapshotLands /\ EndRun("ok")
     \/ MayLand /\ EndRun("err")
  /\ UNCHANGED <<st, runs, loose>>

Next ==
  /\ \/ StartRun \/ Crash \/ Cancel \/ LoseState
     \/ Poll \/ PollFails \/ PollEnd
     \/ WritePlain \/ EoWriteCommitted \/ EoWrite \/ EoWriteFails \/ WritePoisons
     \/ Flush \/ FlushFails \/ Put \/ PutFails
     \/ Unwind \/ Finish
  /\ UNCHANGED deployed

Spec == Init /\ [][Next]_vars
-------------------------------------------------------------------------------
(* Exactly once: no row is in the sink twice, whatever crashed, failed after it
   committed or was retried, unless it was read in a page without a bookmark, or
   by an at-least-once run that died before its checkpoint. *)
NoDuplicate == \A r \in Rows : cnt[r] > 1 => r \in loose

(* I1 for both anchors: neither the stored bookmark nor the position the next
   run would start from, the sink's watermark included, is past a row that the
   sink does not have. *)
ResumeCovered ==
  /\ 1..st.bm \subseteq Durable
  /\ 1..StartAt \subseteq Durable

(* Where the next run would write again: where it starts, or past the pages it
   skips, when only the watermark, and no position, says how far the sink is. *)
Resumes ==
  IF ~tok.anchored /\ tok.seq > st.seq THEN PagesUpTo(tok.seq) ELSE StartAt

(* The abstract promise of a pipeline, with that position as its checkpoint. *)
Promise == INSTANCE Delivery WITH
  delivered <- Durable, discarded <- {}, checkpoint <- Resumes

(* ExactlyOnce implements Delivery: the resume position never moves back, not
   even when the state store is lost or the sink commits ahead of it (I1, I4). *)
ImplementsDelivery == Promise!Spec

(* A run that returns Ok has made durable every row up to where it stopped, the
   skipped pages included. *)
OkRunIsDurable ==
  [][outcome' = "ok" /\ pc # "idle" => 1..pos \subseteq Durable']_vars

(* idempotency.rs: tokens are monotonic.  The watermark never goes back, not even
   after the state store was lost, so no later page can be taken for a committed
   one. *)
WatermarkMonotonic == [][tok'.seq >= tok.seq]_vars
===============================================================================
