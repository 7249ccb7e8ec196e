--------------------------- MODULE RunStreamProofs ---------------------------
(***************************************************************************)
(* Proofs about RunStream, for every source length, page size, number of   *)
(* runs, kind of sink and set of run configurations.                       *)
(***************************************************************************)
EXTENDS RunStream, FiniteSetTheorems, TLAPS
-------------------------------------------------------------------------------
(* The inductive invariant.  A bookmark is put only after the page's rows have
   been followed from the source through the loop's hands (todo, quar, env) to a
   buffer, and from the buffers to the destinations.  BookmarkCovered says
   nothing of the way there, so it is not inductive by itself. *)

(* Rows the sinks have taken, durably or not, or that a policy gave up. *)
Held == dur \cup buf \cup dlqDur \cup dlqBuf \cup dropNow \cup dropped

(* The configuration of the run in hand was admitted, and without a run or without
   a dead-letter queue nothing is in one or on its way there. *)
Configured ==
  /\ pc # "idle" => outcome = "running" /\ Admissible(opts)
  /\ pc \in {"abortEnv", "poison", "dlqWrite", "dlqFlush", "unwindDlq", "finDlq"} => opts.dlq
  /\ pc = "idle" \/ ~opts.dlq => dlqBuf = {} /\ quar = {} /\ env = {}

(* The page in hand lies past the stored bookmark. *)
Ordered == pc # "idle" => stored <= pos /\ lo <= pos

(* What the sink reported as accepted it has; without a queue only that counts. *)
GoodHeld == pc \in {"write", "poison", "settle"} => good \subseteq buf \cup dur

(* Rows of earlier pages, then the page in hand, by the place the loop is at. *)
Followed ==
  /\ pc \in {"write", "poison", "settle"} => 1..lo \subseteq Held
  /\ pc \in {"write", "poison"} /\ opts.dlq
       => 1..pos \subseteq Held \cup todo \cup quar \cup env
  /\ pc = "poison" => chunk \ failing \subseteq buf \cup dur
  /\ pc = "poison" => retri \subseteq failing
  /\ pc \in {"settle", "dlqWrite"} /\ opts.dlq
       => 1..pos \subseteq Held \cup quar \cup env
  /\ pc \in {"poll", "flush", "finDlq"} => 1..pos \subseteq Held
  /\ pc = "finMain" => 1..pos \subseteq dur \cup buf \cup dlqDur \cup dropNow \cup dropped
  /\ pc = "dlqFlush" => 1..pos \subseteq dur \cup dlqDur \cup dlqBuf \cup dropNow \cup dropped
  /\ pc = "put" => 1..pos \subseteq dur \cup dlqDur \cup dropNow \cup dropped

IInv == TypeOK /\ Configured /\ Ordered /\ GoodHeld /\ Followed /\ BookmarkCovered
-------------------------------------------------------------------------------
(* The sub-batch a write offers, and what a failed write may leave behind. *)
LEMMA OfferedType == TypeOK => \A c \in Offered : c \subseteq Rows
  BY DEF TypeOK, Offered, SubBatches

(* A failed write leaves nothing but rows it was offered. *)
LEMMA LandedSubset == \A c : \A S \in Landed(c) : S \subseteq c
  BY DEF Landed

(* A page that follows the last one is within the source. *)
LEMMA PageType ==
  ASSUME TypeOK, NEW hi \in 0..N
  PROVE  pos + 1 .. hi \subseteq Rows
  BY RunStreamAssumption DEF TypeOK, Rows

(* A failed attempt leaves the loop at a place it knows. *)
LEMMA RetryType ==
  ASSUME TypeOK, RetryOrUnwind
  PROVE  tries' \in Nat /\ pc' \in PCs
  BY DEF RetryOrUnwind, TypeOK, PCs, Unwind

(* What the sink takes keeps its buffer and the history well typed. *)
LEMMA TakeType ==
  ASSUME TypeOK, NEW S \in SUBSET Rows, Take(S)
  PROVE  /\ buf' \subseteq Rows /\ applied' \in [Rows -> Nat]
         /\ dlqBuf' \subseteq Rows /\ dead' \subseteq Rows
  BY DEF Take, TypeOK

(* The end of a run resets its locals to values of their types. *)
LEMMA EndRunType ==
  ASSUME TypeOK, NEW result \in {"ok", "err", "crashed"}, EndRun(result),
         dur' \subseteq Rows, UNCHANGED <<stored, dlqDur, dropped, runs>>
  PROVE  TypeOK'
  <1>1. applied' \in [Rows -> Nat]
    BY DEF EndRun
  <1>2. 0 \in 0..N
    BY RunStreamAssumption
  <1>3. QED
    BY <1>1, <1>2 DEF EndRun, TypeOK, PCs

(* The failures of a page are counted by a natural number. *)
LEMMA PageFailuresType == TypeOK => PageFailures \in Nat
  <1>1. IsFiniteSet(Rows)
    BY FS_Interval, RunStreamAssumption DEF Rows
  <1>2. TypeOK => quar \cup env \subseteq Rows
    BY DEF TypeOK
  <1>3. QED
    BY <1>1, <1>2, FS_Subset, FS_CardinalityType DEF PageFailures
-------------------------------------------------------------------------------
(* Every step preserves the types of the variables. *)
LEMMA TypeStep == TypeOK /\ [Next]_vars => TypeOK'
  <1> SUFFICES ASSUME TypeOK, [Next]_vars PROVE TypeOK'
    OBVIOUS
  <1> USE RunStreamAssumption
          DEF TypeOK, PCs, durable, buffers, page, chunks, tally, limits, history
  <1>1. CASE StartRun
    BY <1>1 DEF StartRun, ResumeFrom
  <1>2. CASE Crash
    BY <1>2, EndRunType DEF Crash
  <1>3. CASE Cancel
    BY <1>3 DEF Cancel
  <1>4. CASE Spill
    BY <1>4 DEF Spill
  <1>5. CASE PollPage
    BY <1>5, PageType DEF PollPage, NextPage, AfterWrites
  <1>6. CASE PollDriftAbort
    BY <1>6, PageType DEF PollDriftAbort, NextPage
  <1>7. CASE PollFails
    BY <1>7 DEF PollFails, Unwind
  <1>8. CASE PollEnd
    BY <1>8 DEF PollEnd, Finish
  <1>9. CASE AbortEnvelopes
    BY <1>9 DEF AbortEnvelopes
  <1>10. CASE Write
    BY <1>10, OfferedType, LandedSubset, TakeType DEF Write, AfterWrites
  <1>11. CASE WritePartial
    BY <1>11, OfferedType, LandedSubset, TakeType DEF WritePartial
  <1>12. CASE WriteRetry
    BY <1>12, OfferedType, LandedSubset, TakeType DEF WriteRetry
  <1>13. CASE WriteFails
    BY <1>13, OfferedType, LandedSubset, TakeType DEF WriteFails, Unwind
  <1>14. CASE WriteDlqAll
    BY <1>14, OfferedType, LandedSubset, TakeType DEF WriteDlqAll
  <1>15. CASE PoisonRetry
    BY <1>15, TakeType DEF PoisonRetry, Resubmitted
  <1>16. CASE PoisonFails
    BY <1>16, TakeType DEF PoisonFails, Unwind
  <1>17. CASE SettleChunk
    BY <1>17 DEF SettleChunk, Condemned, AfterWrites
  <1>18. CASE PoisonAborts
    BY <1>18 DEF PoisonAborts, Unwind
  <1>19. CASE Settle
    BY <1>19 DEF Settle, AfterSettle, AfterPage, Unwind
  <1>20. CASE SettleDlq
    BY <1>20 DEF SettleDlq, BreakerCount, AfterSettle, AfterPage, Unwind
  <1>21. CASE DlqWrite
    BY <1>21, PageFailuresType DEF DlqWrite, AfterSettle, AfterPage, Unwind
  <1>22. CASE Flush
    BY <1>22, RetryType DEF Flush, Returns, AfterFlush
  <1>23. CASE FlushDlq
    BY <1>23, RetryType DEF FlushDlq, Returns
  <1>24. CASE Put
    BY <1>24, RetryType DEF Put, Returns, AfterPage, Unwind
  <1>25. CASE UnwindDlq
    BY <1>25 DEF UnwindDlq
  <1>26. CASE UnwindMain
    BY <1>26, EndRunType DEF UnwindMain
  <1>27. CASE FinishDlq
    BY <1>27 DEF FinishDlq
  <1>28. CASE FinishDlqFails
    BY <1>28, EndRunType DEF FinishDlqFails
  <1>29. CASE FinishMain
    BY <1>29, EndRunType DEF FinishMain
  <1>30. CASE UNCHANGED vars
    BY <1>30 DEF vars
  <1>q. QED
    BY <1>1, <1>2, <1>3, <1>4, <1>5, <1>6, <1>7, <1>8, <1>9, <1>10, <1>11, <1>12, <1>13, <1>14, <1>15, <1>16, <1>17, <1>18, <1>19, <1>20, <1>21, <1>22, <1>23, <1>24, <1>25, <1>26, <1>27, <1>28, <1>29, <1>30 DEF Next, Step
-------------------------------------------------------------------------------
(* Every step preserves the inductive invariant. *)
LEMMA IInvStep == IInv /\ [Next]_vars => IInv'
  <1> SUFFICES ASSUME IInv, [Next]_vars PROVE IInv'
    OBVIOUS
  <1>0. TypeOK'
    BY TypeStep DEF IInv
  <1> DEFINE Goal == Configured /\ Ordered /\ GoodHeld /\ Followed /\ BookmarkCovered
  <1> USE DEF IInv, TypeOK, Configured, Ordered, GoodHeld, Followed, BookmarkCovered, Held,
              durable, buffers, page, chunks, tally, limits, history
  <1>1. ASSUME StartRun PROVE Goal'
    BY <1>1 DEF StartRun, ResumeFrom, Admissible
  <1>2. ASSUME Crash PROVE Goal'
    BY <1>2 DEF Crash, EndRun
  <1>3. ASSUME Cancel PROVE Goal'
    BY <1>3 DEF Cancel
  <1>4. ASSUME Spill PROVE Goal'
    BY <1>4 DEF Spill
  <1>5. ASSUME PollPage PROVE Goal'
    BY <1>5 DEF PollPage, NextPage, Polling, Admissible, AfterWrites
  <1>6. ASSUME PollDriftAbort PROVE Goal'
    BY <1>6 DEF PollDriftAbort, NextPage, Polling
  <1>7. ASSUME PollFails PROVE Goal'
    BY <1>7 DEF PollFails, Polling, Unwind
  <1>8. ASSUME PollEnd PROVE Goal'
    BY <1>8 DEF PollEnd, Finish
  <1>9. ASSUME AbortEnvelopes PROVE Goal'
    BY <1>9 DEF AbortEnvelopes
  <1>10. ASSUME Write PROVE Goal'
    BY <1>10 DEF Write, Take, AfterWrites
  <1>11. ASSUME WritePartial PROVE Goal'
    BY <1>11 DEF WritePartial, Take
  <1>12. ASSUME WriteRetry PROVE Goal'
    BY <1>12 DEF WriteRetry, Take
  <1>13. ASSUME WriteFails PROVE Goal'
    BY <1>13 DEF WriteFails, Take, Unwind
  <1>14. ASSUME WriteDlqAll PROVE Goal'
    BY <1>14 DEF WriteDlqAll, Take
  <1>15. ASSUME PoisonRetry PROVE Goal'
    BY <1>15 DEF PoisonRetry, Resubmitted, Resubmitting, Take
  <1>16. ASSUME PoisonFails PROVE Goal'
    BY <1>16 DEF PoisonFails, Resubmitting, Take, Unwind
  <1>17. ASSUME SettleChunk PROVE Goal'
    BY <1>17 DEF SettleChunk, Condemned, AfterWrites
  <1>18. ASSUME PoisonAborts PROVE Goal'
    BY <1>18 DEF PoisonAborts, Unwind
  <1>19. ASSUME Settle PROVE Goal'
    BY <1>19 DEF Settle, Unaccounted, Page, AfterSettle, AfterPage, Unwind
  <1>20. ASSUME SettleDlq PROVE Goal'
    BY <1>20 DEF SettleDlq, AfterSettle, AfterPage, Unwind
  <1>21. ASSUME DlqWrite PROVE Goal'
    BY <1>21 DEF DlqWrite, AfterSettle, AfterPage, Unwind
  <1>22. ASSUME Flush PROVE Goal'
    BY <1>22 DEF Flush, Returns, AfterFlush, RetryOrUnwind, Unwind
  <1>23. ASSUME FlushDlq PROVE Goal'
    BY <1>23 DEF FlushDlq, Returns, RetryOrUnwind, Unwind
  <1>24. ASSUME Put PROVE Goal'
    BY <1>24 DEF Put, Returns, RetryOrUnwind, AfterPage, Unwind
  <1>25. ASSUME UnwindDlq PROVE Goal'
    BY <1>25 DEF UnwindDlq
  <1>26. ASSUME UnwindMain PROVE Goal'
    BY <1>26 DEF UnwindMain, EndRun
  <1>27. ASSUME FinishDlq PROVE Goal'
    BY <1>27 DEF FinishDlq
  <1>28. ASSUME FinishDlqFails PROVE Goal'
    BY <1>28 DEF FinishDlqFails, EndRun
  <1>29. ASSUME FinishMain PROVE Goal'
    BY <1>29 DEF FinishMain, EndRun
  <1>30. ASSUME UNCHANGED vars PROVE Goal'
    BY <1>30 DEF vars
  <1>q. QED
    BY <1>0, <1>1, <1>2, <1>3, <1>4, <1>5, <1>6, <1>7, <1>8, <1>9, <1>10, <1>11, <1>12, <1>13, <1>14, <1>15, <1>16, <1>17, <1>18, <1>19, <1>20, <1>21, <1>22, <1>23, <1>24, <1>25, <1>26, <1>27, <1>28, <1>29, <1>30 DEF Next, Step

(* The inductive invariant holds before the first run. *)
LEMMA IInvInit == Init => IInv
  <1> SUFFICES ASSUME Init PROVE IInv
    OBVIOUS
  <1>1. TypeOK
    <2>1. 0 \in 0..N /\ opts \in OptionType
      BY RunStreamAssumption DEF Init
    <2>2. QED
      BY <2>1 DEF Init, TypeOK, PCs
  <1>2. QED
    BY <1>1 DEF Init, IInv, Configured, Ordered, GoodHeld, Followed, BookmarkCovered

(* The variables keep their types in every behaviour of the page loop. *)
THEOREM TypeCorrect == Spec => []TypeOK
  <1>1. Init => TypeOK
    BY IInvInit DEF IInv
  <1>2. QED
    BY <1>1, TypeStep, PTL DEF Spec

(* The inductive invariant holds in every behaviour of the page loop. *)
THEOREM Invariant == Spec => []IInv
  BY IInvInit, IInvStep, PTL DEF Spec

(* I1, I3: whatever the configuration of each run and the kind of sink, a stored
   bookmark never covers a row that is neither durable nor discarded. *)
THEOREM BookmarkIsCovered == Spec => []BookmarkCovered
  <1>1. IInv => BookmarkCovered
    BY DEF IInv
  <1>2. QED
    BY <1>1, Invariant, PTL
-------------------------------------------------------------------------------
(* Every step of the loop is a step of Delivery or leaves its variables alone:
   only Put moves the checkpoint, only the flushes deliver. *)
LEMMA DeliveryStep ==
  ASSUME IInv, IInv', [Next]_vars
  PROVE  [Promise!Next]_(Promise!vars)
  <1> DEFINE Still  == UNCHANGED <<dur, dlqDur, dropped, stored>>
             Flushes == /\ dur \subseteq dur' /\ dlqDur \subseteq dlqDur'
                        /\ UNCHANGED <<dropped, stored>>
  <1>1. ASSUME Still PROVE UNCHANGED Promise!vars
    BY <1>1 DEF Promise!vars
  <1>2. ASSUME Flushes PROVE Promise!Deliver
    BY <1>2 DEF Promise!Deliver, Promise!Rows, IInv, TypeOK, Rows
  <1>3. CASE Put
    <2>1. stored' \in stored..N
      BY <1>3 DEF Put, IInv, TypeOK, Ordered
    <2>2. UNCHANGED <<dur, dlqDur>> /\ dropped \subseteq dropped'
      BY <1>3 DEF Put
    <2>3. 1..stored' \subseteq (dur \cup dlqDur)' \cup dropped'
      BY DEF IInv, BookmarkCovered
    <2>4. Promise!Advance
      <3>1. /\ (dur \cup dlqDur)' = (dur \cup dlqDur) \cup {}
            /\ dropped' = dropped \cup dropped'
            /\ dropped' \in SUBSET Promise!Rows
        BY <2>2 DEF IInv, TypeOK, Rows, Promise!Rows
      <3>2. QED
        BY <2>1, <2>3, <3>1 DEF Promise!Advance
    <2>5. QED
      BY <2>4 DEF Promise!Next
  <1> USE DEF durable, buffers, page
  <1>4. ASSUME Spill PROVE Flushes
    BY <1>4 DEF Spill
  <1>5. ASSUME AbortEnvelopes PROVE Flushes
    BY <1>5 DEF AbortEnvelopes
  <1>6. ASSUME Flush PROVE Flushes
    BY <1>6 DEF Flush
  <1>7. ASSUME FlushDlq PROVE Flushes
    BY <1>7 DEF FlushDlq
  <1>8. ASSUME UnwindDlq PROVE Flushes
    BY <1>8 DEF UnwindDlq
  <1>9. ASSUME UnwindMain PROVE Flushes
    BY <1>9 DEF UnwindMain
  <1>10. ASSUME FinishDlq PROVE Flushes
    BY <1>10 DEF FinishDlq
  <1>11. ASSUME FinishMain PROVE Flushes
    BY <1>11 DEF FinishMain
  <1>12. ASSUME StartRun PROVE Still
    BY <1>12 DEF StartRun, ResumeFrom
  <1>13. ASSUME Crash PROVE Still
    BY <1>13 DEF Crash
  <1>14. ASSUME Cancel PROVE Still
    BY <1>14 DEF Cancel
  <1>15. ASSUME PollPage PROVE Still
    BY <1>15 DEF PollPage, NextPage
  <1>16. ASSUME PollDriftAbort PROVE Still
    BY <1>16 DEF PollDriftAbort, NextPage
  <1>17. ASSUME PollFails PROVE Still
    BY <1>17 DEF PollFails
  <1>18. ASSUME PollEnd PROVE Still
    BY <1>18 DEF PollEnd
  <1>19. ASSUME Write PROVE Still
    BY <1>19 DEF Write
  <1>20. ASSUME WritePartial PROVE Still
    BY <1>20 DEF WritePartial
  <1>21. ASSUME WriteRetry PROVE Still
    BY <1>21 DEF WriteRetry
  <1>22. ASSUME WriteFails PROVE Still
    BY <1>22 DEF WriteFails
  <1>23. ASSUME WriteDlqAll PROVE Still
    BY <1>23 DEF WriteDlqAll
  <1>24. ASSUME PoisonRetry PROVE Still
    BY <1>24 DEF PoisonRetry, Resubmitted
  <1>25. ASSUME PoisonFails PROVE Still
    BY <1>25 DEF PoisonFails
  <1>26. ASSUME SettleChunk PROVE Still
    BY <1>26 DEF SettleChunk
  <1>27. ASSUME PoisonAborts PROVE Still
    BY <1>27 DEF PoisonAborts
  <1>28. ASSUME Settle PROVE Still
    BY <1>28 DEF Settle
  <1>29. ASSUME SettleDlq PROVE Still
    BY <1>29 DEF SettleDlq
  <1>30. ASSUME DlqWrite PROVE Still
    BY <1>30 DEF DlqWrite
  <1>31. ASSUME FinishDlqFails PROVE Still
    BY <1>31 DEF FinishDlqFails
  <1>32. ASSUME UNCHANGED vars PROVE Still
    BY <1>32 DEF vars
  <1>q. QED
    BY <1>1, <1>2, <1>3, <1>4, <1>5, <1>6, <1>7, <1>8, <1>9, <1>10, <1>11, <1>12, <1>13, <1>14, <1>15, <1>16, <1>17, <1>18, <1>19, <1>20, <1>21, <1>22, <1>23, <1>24, <1>25, <1>26, <1>27, <1>28, <1>29, <1>30, <1>31, <1>32 DEF Next, Step, Promise!Next

(* I1, I4: the page loop, over any sequence of runs and crashes, implements
   Delivery: the bookmark moves only forwards, over rows with a disposition. *)
THEOREM RunStreamImplementsDelivery == Spec => ImplementsDelivery
  <1>1. Init => Promise!Init
    BY RunStreamAssumption DEF Init, Promise!Init, Promise!Rows
  <1>2. QED
    BY <1>1, Invariant, DeliveryStep, PTL DEF Spec, ImplementsDelivery, Promise!Spec
-------------------------------------------------------------------------------
(* I7, I8: a run that returns Ok leaves no row it read without a disposition. *)
THEOREM OkRunsAreDurable == Spec => OkRunIsDurable
  <1>1. ASSUME IInv, [Next]_vars
        PROVE  [outcome' = "ok" =>
                  \/ pc = "idle"
                  \/ 1..pos \subseteq dur' \cup dlqDur' \cup dropped \cup dropNow]_vars
    <2> SUFFICES ASSUME Next, outcome' = "ok", pc # "idle"
                 PROVE  1..pos \subseteq dur' \cup dlqDur' \cup dropped \cup dropNow
      BY <1>1
    <2>1. FinishMain
      BY <1>1 DEF IInv, Configured, Next, Step, durable, StartRun, Crash, EndRun, Cancel, Spill,
         PollPage, PollDriftAbort, PollFails, PollEnd, AbortEnvelopes, Write, WritePartial,
         WriteRetry, WriteFails, WriteDlqAll, PoisonRetry, PoisonFails, SettleChunk,
         PoisonAborts, Settle, SettleDlq, DlqWrite, Flush, FlushDlq, Put, UnwindDlq,
         UnwindMain, FinishDlq, FinishDlqFails
    <2>2. dur' = dur \cup buf /\ dlqDur' = dlqDur
      BY <2>1 DEF FinishMain, EndRun
    <2>3. QED
      BY <1>1, <2>1, <2>2 DEF FinishMain, IInv, Followed
  <1>2. QED
    BY <1>1, Invariant, PTL DEF Spec, OkRunIsDurable
-------------------------------------------------------------------------------
(* A sink whose writes do not converge sees a row at most once in a run: a row
   waits in the source, in todo or in retri before the sink takes it, and never
   comes back there. *)
Clean(S) == \A r \in S : applied[r] = 0

ReplayInv ==
  /\ pc = "idle" => Clean(Rows) /\ chunk = {}
  /\ ~opts.keyed =>
       /\ \A r \in Rows : applied[r] <= 1
       /\ pc # "idle" => Clean({r \in Rows : r > pos})
       /\ pc \in {"idle", "poll", "write", "settle", "dlqWrite", "flush", "dlqFlush", "put"}
            => chunk = {}
       /\ pc = "write" => Clean(todo)
       /\ pc = "poison" => Clean((todo \ chunk) \cup retri)
       /\ pc \in {"write", "poison"} => \A r \in todo : r <= pos
       /\ pc = "poison" => retri \subseteq chunk /\ \A r \in retri : r <= pos

(* A fresh sub-batch is made of rows not yet written. *)
LEMMA OfferedTodo == chunk = {} => \A c \in Offered : c \subseteq todo
  BY DEF Offered, SubBatches

(* The sink takes rows of the page that it has not had. *)
LEMMA TakeClean ==
  ASSUME TypeOK, NEW S \in SUBSET Rows, Take(S), Clean(S), \A r \in S : r <= pos,
         \A r \in Rows : applied[r] <= 1, Clean({r \in Rows : r > pos})
  PROVE  /\ \A r \in Rows : applied'[r] <= 1
         /\ \A r \in Rows : r > pos => applied'[r] = 0
         /\ \A r \in Rows \ S : applied'[r] = applied[r]
  <1>1. /\ \A r \in Rows \ S : applied'[r] = applied[r]
        /\ \A r \in S : applied'[r] = 1
    BY DEF Take, TypeOK, Clean
  <1>2. \A r \in Rows : r > pos => r \notin S
    BY RunStreamAssumption DEF TypeOK, Rows
  <1>3. QED
    BY <1>1, <1>2 DEF Clean

(* Each step keeps what NoReplayWithinRun rests on: the rows of the page not yet
   written, and those the sink refused, are not in the sink. *)
LEMMA ReplayStep == IInv /\ ReplayInv /\ [Next]_vars => ReplayInv'
  <1> SUFFICES ASSUME IInv, ReplayInv, [Next]_vars PROVE ReplayInv'
    BY DEF ReplayInv
  <1> USE RunStreamAssumption
          DEF IInv, TypeOK, Rows, Ordered, Followed, ReplayInv, Clean,
              durable, buffers, page, chunks, tally, limits, history
  <1>1. ASSUME StartRun PROVE ReplayInv'
    BY <1>1 DEF StartRun, ResumeFrom
  <1>2. ASSUME Crash PROVE ReplayInv'
    BY <1>2 DEF Crash, EndRun
  <1>3. ASSUME Cancel PROVE ReplayInv'
    BY <1>3 DEF Cancel
  <1>4. ASSUME Spill PROVE ReplayInv'
    BY <1>4 DEF Spill
  <1>5. ASSUME PollPage PROVE ReplayInv'
    BY <1>5 DEF PollPage, NextPage, Polling, AfterWrites
  <1>6. ASSUME PollDriftAbort PROVE ReplayInv'
    BY <1>6 DEF PollDriftAbort, NextPage, Polling
  <1>7. ASSUME PollFails PROVE ReplayInv'
    BY <1>7 DEF PollFails, Polling, Unwind
  <1>8. ASSUME PollEnd PROVE ReplayInv'
    BY <1>8 DEF PollEnd, Finish
  <1>9. ASSUME AbortEnvelopes PROVE ReplayInv'
    BY <1>9 DEF AbortEnvelopes
  <1>10. ASSUME Write PROVE ReplayInv'
    <2> SUFFICES ASSUME ~opts.keyed PROVE ReplayInv'
      BY <1>10 DEF Write, AfterWrites
    <2>1. PICK c, S : c \in Offered /\ S \subseteq c /\ Take(S) /\ todo' = todo \ c
      BY <1>10 DEF Write
    <2>2. /\ c \subseteq todo /\ S \in SUBSET Rows
          /\ Clean(S) /\ \A r \in S : r <= pos
      BY <1>10, <2>1, OfferedTodo DEF Write
    <2>3. /\ \A r \in Rows : applied'[r] <= 1
          /\ \A r \in Rows : r > pos => applied'[r] = 0
          /\ \A r \in Rows \ S : applied'[r] = applied[r]
      BY <2>1, <2>2, TakeClean
    <2>4. QED
      BY <1>10, <2>1, <2>2, <2>3 DEF Write, AfterWrites
  <1>11. ASSUME WritePartial PROVE ReplayInv'
    <2> SUFFICES ASSUME ~opts.keyed PROVE ReplayInv'
      BY <1>11 DEF WritePartial
    <2>1. PICK c, F, R, S :
            /\ c \in Offered /\ F \subseteq c /\ R \subseteq F
            /\ S = c \ F /\ Take(S) /\ failing' = F /\ retri' = R /\ chunk' = c
      BY <1>11 DEF WritePartial
    <2>2. /\ c \subseteq todo /\ S \in SUBSET Rows
          /\ Clean(S) /\ \A r \in S : r <= pos
      BY <1>11, <2>1, OfferedTodo DEF WritePartial
    <2>3. /\ \A r \in Rows : applied'[r] <= 1
          /\ \A r \in Rows : r > pos => applied'[r] = 0
          /\ \A r \in Rows \ S : applied'[r] = applied[r]
      BY <2>1, <2>2, TakeClean
    <2>4. pc = "write" /\ pc' = "poison" /\ UNCHANGED <<todo, pos>>
      BY <1>11 DEF WritePartial
    <2>5. QED
      BY <2>1, <2>2, <2>3, <2>4
  <1>12. ASSUME WriteRetry PROVE ReplayInv'
    BY <1>12 DEF WriteRetry, MayRetryWrite, Take
  <1>13. ASSUME WriteFails PROVE ReplayInv'
    <2> SUFFICES ASSUME ~opts.keyed PROVE ReplayInv'
      BY <1>13 DEF WriteFails, Unwind
    <2>1. PICK c, S : c \in Offered /\ S \subseteq c /\ Take(S)
      BY <1>13 DEF WriteFails
    <2>2. /\ c \subseteq todo /\ S \in SUBSET Rows
          /\ Clean(S) /\ \A r \in S : r <= pos
      BY <1>13, <2>1, OfferedTodo DEF WriteFails
    <2>3. /\ \A r \in Rows : applied'[r] <= 1
          /\ \A r \in Rows : r > pos => applied'[r] = 0
          /\ \A r \in Rows \ S : applied'[r] = applied[r]
      BY <2>1, <2>2, TakeClean
    <2>4. QED
      BY <1>13, <2>1, <2>2, <2>3 DEF WriteFails, Unwind
  <1>14. ASSUME WriteDlqAll PROVE ReplayInv'
    <2> SUFFICES ASSUME ~opts.keyed PROVE ReplayInv'
      BY <1>14 DEF WriteDlqAll
    <2>1. PICK c, S :
            /\ c \in Offered /\ S \in Landed(c)
            /\ Take(S) /\ chunk' = c /\ failing' = c /\ retri' = {}
      BY <1>14 DEF WriteDlqAll
    <2>2. /\ c \subseteq todo /\ S \subseteq c /\ S \in SUBSET Rows
          /\ Clean(S) /\ \A r \in S : r <= pos
      BY <1>14, <2>1, OfferedTodo, LandedSubset DEF WriteDlqAll
    <2>3. /\ \A r \in Rows : applied'[r] <= 1
          /\ \A r \in Rows : r > pos => applied'[r] = 0
          /\ \A r \in Rows \ S : applied'[r] = applied[r]
      BY <2>1, <2>2, TakeClean
    <2>4. pc = "write" /\ pc' = "poison" /\ UNCHANGED <<todo, pos>>
      BY <1>14 DEF WriteDlqAll
    <2>5. QED
      BY <2>1, <2>2, <2>3, <2>4
  <1>15. ASSUME PoisonRetry PROVE ReplayInv'
    <2> SUFFICES ASSUME ~opts.keyed PROVE ReplayInv'
      BY <1>15 DEF PoisonRetry, Resubmitting
    <2>1. PICK F, R, S :
            /\ F \subseteq retri /\ R \subseteq F
            /\ S = retri \ F /\ Take(S) /\ retri' = R
      BY <1>15 DEF PoisonRetry, Resubmitted
    <2>2. /\ S \in SUBSET Rows
          /\ Clean(S) /\ \A r \in S : r <= pos
      BY <1>15, <2>1 DEF PoisonRetry, Resubmitted, Resubmitting
    <2>3. /\ \A r \in Rows : applied'[r] <= 1
          /\ \A r \in Rows : r > pos => applied'[r] = 0
          /\ \A r \in Rows \ S : applied'[r] = applied[r]
      BY <2>1, <2>2, TakeClean
    <2>4. pc = "poison" /\ pc' = "poison" /\ UNCHANGED <<todo, chunk, pos>>
      BY <1>15 DEF PoisonRetry, Resubmitted, Resubmitting
    <2>5. QED
      BY <2>1, <2>2, <2>3, <2>4
  <1>16. ASSUME PoisonFails PROVE ReplayInv'
    <2> SUFFICES ASSUME ~opts.keyed PROVE ReplayInv'
      BY <1>16 DEF PoisonFails, Unwind
    <2>1. PICK S : S \subseteq retri /\ Take(S)
      BY <1>16 DEF PoisonFails
    <2>2. /\ S \in SUBSET Rows
          /\ Clean(S) /\ \A r \in S : r <= pos
      BY <1>16, <2>1 DEF PoisonFails, Resubmitting
    <2>3. /\ \A r \in Rows : applied'[r] <= 1
          /\ \A r \in Rows : r > pos => applied'[r] = 0
          /\ \A r \in Rows \ S : applied'[r] = applied[r]
      BY <2>1, <2>2, TakeClean
    <2>4. QED
      BY <1>16, <2>1, <2>2, <2>3 DEF PoisonFails, Resubmitting, Unwind
  <1>17. ASSUME SettleChunk PROVE ReplayInv'
    BY <1>17 DEF SettleChunk, Condemned, AfterWrites
  <1>18. ASSUME PoisonAborts PROVE ReplayInv'
    BY <1>18 DEF PoisonAborts, Unwind
  <1>19. ASSUME Settle PROVE ReplayInv'
    BY <1>19 DEF Settle, AfterSettle, AfterPage, Unwind
  <1>20. ASSUME SettleDlq PROVE ReplayInv'
    BY <1>20 DEF SettleDlq, AfterSettle, AfterPage, Unwind
  <1>21. ASSUME DlqWrite PROVE ReplayInv'
    BY <1>21 DEF DlqWrite, AfterSettle, AfterPage, Unwind
  <1>22. ASSUME Flush PROVE ReplayInv'
    BY <1>22 DEF Flush, Returns, AfterFlush, RetryOrUnwind, Unwind
  <1>23. ASSUME FlushDlq PROVE ReplayInv'
    BY <1>23 DEF FlushDlq, Returns, RetryOrUnwind, Unwind
  <1>24. ASSUME Put PROVE ReplayInv'
    BY <1>24 DEF Put, Returns, RetryOrUnwind, AfterPage, Unwind
  <1>25. ASSUME UnwindDlq PROVE ReplayInv'
    BY <1>25 DEF UnwindDlq
  <1>26. ASSUME UnwindMain PROVE ReplayInv'
    BY <1>26 DEF UnwindMain, EndRun
  <1>27. ASSUME FinishDlq PROVE ReplayInv'
    BY <1>27 DEF FinishDlq
  <1>28. ASSUME FinishDlqFails PROVE ReplayInv'
    BY <1>28 DEF FinishDlqFails, EndRun
  <1>29. ASSUME FinishMain PROVE ReplayInv'
    BY <1>29 DEF FinishMain, EndRun
  <1>30. ASSUME UNCHANGED vars PROVE ReplayInv'
    BY <1>30 DEF vars
  <1>q. QED
    BY <1>1, <1>2, <1>3, <1>4, <1>5, <1>6, <1>7, <1>8, <1>9, <1>10, <1>11, <1>12, <1>13, <1>14, <1>15, <1>16, <1>17, <1>18, <1>19, <1>20, <1>21, <1>22, <1>23, <1>24, <1>25, <1>26, <1>27, <1>28, <1>29, <1>30 DEF Next, Step

(* I2: for a sink without keyed writes, no retry and no resubmission offers a row
   again that the sink has already taken in the run. *)
THEOREM NoReplay == Spec => []NoReplayWithinRun
  <1>1. Init => ReplayInv
    BY DEF Init, ReplayInv, Clean
  <1>2. ReplayInv => NoReplayWithinRun
    BY DEF ReplayInv, NoReplayWithinRun
  <1>3. QED
    BY <1>1, <1>2, Invariant, ReplayStep, PTL DEF Spec
-------------------------------------------------------------------------------
(* Rows on their way to the dead-letter queue were never taken by the sink, and
   lie outside what it may still be offered. *)
OnTheWay == dead \cup quar \cup env

DeadInv ==
  /\ pc = "idle" => dead = {}
  /\ ~opts.keyed /\ ~opts.allowDuplicates =>
         /\ Clean(dead)
         /\ pc # "idle" => \A r \in dead : r <= pos
         /\ pc \in {"write", "poison"} => OnTheWay \cap todo = {}
         /\ pc \in {"write", "poison", "settle", "dlqWrite"}
              => Clean(OnTheWay) /\ \A r \in OnTheWay : r <= pos
         /\ pc = "abortEnv" => Clean(quar) /\ \A r \in quar : r <= pos
         /\ pc = "poison" => /\ failing \subseteq chunk /\ chunk \subseteq todo
                             /\ Clean(failing)

(* Where dlq_all is admitted without duplicates, a failed batch left nothing. *)
LEMMA DlqAllLandsNothing ==
  ASSUME ~opts.keyed, Admissible(opts), opts.dlq, opts.onBatchError = "DlqAll",
         ~opts.allowDuplicates, NEW c
  PROVE  Landed(c) = {{}}
  BY DEF Admissible, DlqAllSafe, Landed

(* Each step keeps what DeadLetterDisjoint rests on: an envelope's row was taken
   by the sink in no attempt of this run. *)
LEMMA DeadStep == IInv /\ ReplayInv /\ DeadInv /\ [Next]_vars => DeadInv'
  <1> SUFFICES ASSUME IInv, ReplayInv, DeadInv, [Next]_vars PROVE DeadInv'
    BY DEF DeadInv
  <1> USE RunStreamAssumption
          DEF IInv, TypeOK, Rows, Ordered, Configured, Followed, ReplayInv, DeadInv, Clean,
              OnTheWay, durable, buffers, page, chunks, tally, limits, history
  <1>1. ASSUME StartRun PROVE DeadInv'
    BY <1>1 DEF StartRun, ResumeFrom
  <1>2. ASSUME Crash PROVE DeadInv'
    BY <1>2 DEF Crash, EndRun
  <1>3. ASSUME Cancel PROVE DeadInv'
    BY <1>3 DEF Cancel
  <1>4. ASSUME Spill PROVE DeadInv'
    BY <1>4 DEF Spill
  <1>5. ASSUME PollPage PROVE DeadInv'
    BY <1>5 DEF PollPage, NextPage, Polling, AfterWrites
  <1>6. ASSUME PollDriftAbort PROVE DeadInv'
    BY <1>6 DEF PollDriftAbort, NextPage, Polling
  <1>7. ASSUME PollFails PROVE DeadInv'
    BY <1>7 DEF PollFails, Polling, Unwind
  <1>8. ASSUME PollEnd PROVE DeadInv'
    BY <1>8 DEF PollEnd, Finish
  <1>9. ASSUME AbortEnvelopes PROVE DeadInv'
    BY <1>9 DEF AbortEnvelopes
  <1>10. ASSUME Write PROVE DeadInv'
    BY <1>10, OfferedTodo DEF Write, Offered, SubBatches, Take, AfterWrites
  <1>11. ASSUME WritePartial PROVE DeadInv'
    BY <1>11, OfferedTodo DEF WritePartial, Offered, SubBatches, Take
  <1>12. ASSUME WriteRetry PROVE DeadInv'
    BY <1>12 DEF WriteRetry, MayRetryWrite, Take
  <1>13. ASSUME WriteFails PROVE DeadInv'
    BY <1>13, OfferedTodo DEF WriteFails, Offered, SubBatches, Take, Unwind
  <1>14. ASSUME WriteDlqAll PROVE DeadInv'
    BY <1>14, OfferedTodo, DlqAllLandsNothing DEF WriteDlqAll, Offered, SubBatches, Take
  <1>15. ASSUME PoisonRetry PROVE DeadInv'
    BY <1>15 DEF PoisonRetry, Resubmitted, Resubmitting, Take
  <1>16. ASSUME PoisonFails PROVE DeadInv'
    BY <1>16 DEF PoisonFails, Resubmitting, Take, Unwind
  <1>17. ASSUME SettleChunk PROVE DeadInv'
    BY <1>17 DEF SettleChunk, Condemned, AfterWrites
  <1>18. ASSUME PoisonAborts PROVE DeadInv'
    BY <1>18 DEF PoisonAborts, Unwind
  <1>19. ASSUME Settle PROVE DeadInv'
    BY <1>19 DEF Settle, AfterSettle, AfterPage, Unwind
  <1>20. ASSUME SettleDlq PROVE DeadInv'
    BY <1>20 DEF SettleDlq, AfterSettle, AfterPage, Unwind
  <1>21. ASSUME DlqWrite PROVE DeadInv'
    BY <1>21 DEF DlqWrite, AfterSettle, AfterPage, Unwind
  <1>22. ASSUME Flush PROVE DeadInv'
    BY <1>22 DEF Flush, Returns, AfterFlush, RetryOrUnwind, Unwind
  <1>23. ASSUME FlushDlq PROVE DeadInv'
    BY <1>23 DEF FlushDlq, Returns, RetryOrUnwind, Unwind
  <1>24. ASSUME Put PROVE DeadInv'
    BY <1>24 DEF Put, Returns, RetryOrUnwind, AfterPage, Unwind
  <1>25. ASSUME UnwindDlq PROVE DeadInv'
    BY <1>25 DEF UnwindDlq
  <1>26. ASSUME UnwindMain PROVE DeadInv'
    BY <1>26 DEF UnwindMain, EndRun
  <1>27. ASSUME FinishDlq PROVE DeadInv'
    BY <1>27 DEF FinishDlq
  <1>28. ASSUME FinishDlqFails PROVE DeadInv'
    BY <1>28 DEF FinishDlqFails, EndRun
  <1>29. ASSUME FinishMain PROVE DeadInv'
    BY <1>29 DEF FinishMain, EndRun
  <1>30. ASSUME UNCHANGED vars PROVE DeadInv'
    BY <1>30 DEF vars
  <1>q. QED
    BY <1>1, <1>2, <1>3, <1>4, <1>5, <1>6, <1>7, <1>8, <1>9, <1>10, <1>11, <1>12, <1>13, <1>14, <1>15, <1>16, <1>17, <1>18, <1>19, <1>20, <1>21, <1>22, <1>23, <1>24, <1>25, <1>26, <1>27, <1>28, <1>29, <1>30 DEF Next, Step

(* What check_dlq_all_policy is for: for a sink without keyed writes and a
   configuration that does not accept duplicates, no row is both in the sink and
   in the dead-letter queue by the same run. *)
THEOREM DeadLettersAreDisjoint == Spec => []DeadLetterDisjoint
  <1>1. Init => ReplayInv /\ DeadInv
    BY DEF Init, ReplayInv, DeadInv, Clean
  <1>2. DeadInv => DeadLetterDisjoint
    BY DEF DeadInv, DeadLetterDisjoint, Clean
  <1>3. QED
    BY <1>1, <1>2, Invariant, ReplayStep, DeadStep, PTL DEF Spec
-------------------------------------------------------------------------------
(* The limits hold at every place the loop can reach without a deferred error; a
   page whose envelopes are still to be written is counted in advance. *)
Within ==
  /\ dlqTotal <= opts.total
  /\ opts.breaker # 0 => consec < opts.breaker

LimitsInv ==
  /\ pc = "idle" => dlqTotal = 0 /\ consec = 0
  /\ pc \in {"poll", "write", "poison", "settle"} => Within
  /\ pc \in {"flush", "dlqFlush", "put"} => abort \/ Within
  /\ pc = "dlqWrite" => abort \/ (Within /\ dlqTotal + PageFailures <= opts.total)

(* Each step keeps what StopsAtLimits rests on: a page over a limit carries its
   deferred error to the end of its own handling. *)
LEMMA LimitsStep == TypeOK /\ LimitsInv /\ [Next]_vars => LimitsInv'
  <1> SUFFICES ASSUME TypeOK, LimitsInv, [Next]_vars PROVE LimitsInv'
    OBVIOUS
  <1>0. PageFailures \in Nat /\ opts.total \in Nat /\ opts.breaker \in Nat
    BY PageFailuresType DEF TypeOK, OptionType
  <1>00. opts'.total \in Nat /\ opts'.breaker \in Nat
    BY TypeStep DEF TypeOK, OptionType
  <1> USE <1>0, <1>00, RunStreamAssumption
          DEF TypeOK, LimitsInv, Within, durable, buffers, page, chunks, tally, limits
  <1>1. ASSUME StartRun PROVE LimitsInv'
    BY <1>1 DEF StartRun, ResumeFrom
  <1>2. ASSUME Crash PROVE LimitsInv'
    BY <1>2 DEF Crash, EndRun
  <1>3. ASSUME Cancel PROVE LimitsInv'
    BY <1>3 DEF PageFailures, Cancel
  <1>4. ASSUME Spill PROVE LimitsInv'
    BY <1>4 DEF PageFailures, Spill
  <1>5. ASSUME PollPage PROVE LimitsInv'
    BY <1>5 DEF PollPage, NextPage, Polling, AfterWrites
  <1>6. ASSUME PollDriftAbort PROVE LimitsInv'
    BY <1>6 DEF PollDriftAbort, NextPage, Polling
  <1>7. ASSUME PollFails PROVE LimitsInv'
    BY <1>7 DEF PollFails, Polling, Unwind
  <1>8. ASSUME PollEnd PROVE LimitsInv'
    BY <1>8 DEF PollEnd, Finish
  <1>9. ASSUME AbortEnvelopes PROVE LimitsInv'
    BY <1>9 DEF AbortEnvelopes
  <1>10. ASSUME Write PROVE LimitsInv'
    BY <1>10 DEF Write, AfterWrites
  <1>11. ASSUME WritePartial PROVE LimitsInv'
    BY <1>11 DEF WritePartial
  <1>12. ASSUME WriteRetry PROVE LimitsInv'
    BY <1>12 DEF WriteRetry
  <1>13. ASSUME WriteFails PROVE LimitsInv'
    BY <1>13 DEF WriteFails, Unwind
  <1>14. ASSUME WriteDlqAll PROVE LimitsInv'
    BY <1>14 DEF WriteDlqAll
  <1>15. ASSUME PoisonRetry PROVE LimitsInv'
    BY <1>15 DEF PoisonRetry, Resubmitted, Resubmitting
  <1>16. ASSUME PoisonFails PROVE LimitsInv'
    BY <1>16 DEF PoisonFails, Resubmitting, Unwind
  <1>17. ASSUME SettleChunk PROVE LimitsInv'
    BY <1>17 DEF SettleChunk, Condemned, AfterWrites
  <1>18. ASSUME PoisonAborts PROVE LimitsInv'
    BY <1>18 DEF PoisonAborts, Unwind
  <1>19. ASSUME Settle PROVE LimitsInv'
    BY <1>19 DEF Settle, AfterSettle, AfterPage, Unwind
  <1>20. ASSUME SettleDlq PROVE LimitsInv'
    <2>1. /\ pc = "settle" /\ UNCHANGED <<dlqTotal, opts>>
          /\ consec' = BreakerCount
          /\ abort' = (OverBudget \/ BreakerOpens)
      BY <1>20 DEF SettleDlq
    <2>2. PageFailures' = PageFailures
      BY <1>20 DEF SettleDlq, PageFailures
    <2>0. ~abort' => ~OverBudget /\ ~BreakerOpens
      BY <2>1, Zenon
    <2>3. ~OverBudget => dlqTotal + PageFailures <= opts.total
      BY DEF OverBudget
    <2>4. ~BreakerOpens => (opts.breaker # 0 => consec' < opts.breaker)
      BY <2>1 DEF BreakerOpens, BreakerCount
    <2>5. \/ pc' \in {"dlqWrite", "flush", "unwindDlq", "unwindMain"}
          \/ pc' = "poll" /\ ~abort'
      BY <1>20 DEF SettleDlq, AfterSettle, AfterPage, Unwind
    <2>6. QED
      BY <2>0, <2>1, <2>2, <2>3, <2>4, <2>5
  <1>21. ASSUME DlqWrite PROVE LimitsInv'
    BY <1>21 DEF PageFailures, DlqWrite, AfterSettle, AfterPage, Unwind
  <1>22. ASSUME Flush PROVE LimitsInv'
    BY <1>22 DEF Flush, Returns, AfterFlush, RetryOrUnwind, Unwind
  <1>23. ASSUME FlushDlq PROVE LimitsInv'
    BY <1>23 DEF FlushDlq, Returns, RetryOrUnwind, Unwind
  <1>24. ASSUME Put PROVE LimitsInv'
    BY <1>24 DEF Put, Returns, RetryOrUnwind, AfterPage, Unwind
  <1>25. ASSUME UnwindDlq PROVE LimitsInv'
    BY <1>25 DEF UnwindDlq
  <1>26. ASSUME UnwindMain PROVE LimitsInv'
    BY <1>26 DEF UnwindMain, EndRun
  <1>27. ASSUME FinishDlq PROVE LimitsInv'
    BY <1>27 DEF FinishDlq
  <1>28. ASSUME FinishDlqFails PROVE LimitsInv'
    BY <1>28 DEF FinishDlqFails, EndRun
  <1>29. ASSUME FinishMain PROVE LimitsInv'
    BY <1>29 DEF FinishMain, EndRun
  <1>30. ASSUME UNCHANGED vars PROVE LimitsInv'
    BY <1>30 DEF PageFailures, vars
  <1>q. QED
    BY <1>1, <1>2, <1>3, <1>4, <1>5, <1>6, <1>7, <1>8, <1>9, <1>10, <1>11, <1>12, <1>13, <1>14, <1>15, <1>16, <1>17, <1>18, <1>19, <1>20, <1>21, <1>22, <1>23, <1>24, <1>25, <1>26, <1>27, <1>28, <1>29, <1>30 DEF Next, Step

(* A run stops at its dead-letter budget and at its circuit breaker: it never asks
   the source for another page past either. *)
THEOREM LimitsAreKept == Spec => []StopsAtLimits
  <1>1. Init => LimitsInv
    BY DEF Init, LimitsInv
  <1>2. LimitsInv => StopsAtLimits
    BY DEF LimitsInv, Within, StopsAtLimits
  <1>3. QED
    BY <1>1, <1>2, TypeCorrect, LimitsStep, PTL DEF Spec
===============================================================================
