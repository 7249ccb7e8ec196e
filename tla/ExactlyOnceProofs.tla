-------------------------- MODULE ExactlyOnceProofs --------------------------
(***************************************************************************)
(* Proofs about ExactlyOnce, for every source length, page size, number of *)
(* runs and of attempts, for both places a sink commits at and for         *)
(* pipelines that begin with tokens of an earlier release, which name no   *)
(* position.  What a sink that takes less than it is given can break is    *)
(* proved of the others: that no row is missing.                           *)
(***************************************************************************)
EXTENDS ExactlyOnce, TLAPS
-------------------------------------------------------------------------------
(* The inductive invariant.  What survives a crash: the watermark carries its
   position, and wherever the state store stands, that position is where the next
   run starts; the sink has every row up to there, and a row beyond it only from
   a page that no token covered. *)
Anchored ==
  /\ tok = NoToken \/ (tok.anchored /\ tok.seq > 0)
  /\ tok.seq > 0 => StartAt = tok.bm

NothingBeyond == \A r \in Durable : r > StartAt => r \in loose

(* No row up to n is missing, if every write takes its whole page. *)
Reached(n, S) == ~ShortReports => 1..n \subseteq S

Covered == Reached(st.bm, Durable) /\ Reached(StartAt, Durable)

Core == Anchored /\ NothingBeyond /\ Covered /\ NoDuplicate

(* What a flush would commit: the token lies ahead of both anchors, and no row of
   the buffer is in the sink already unless some page without a token held it. *)
Buffered ==
  /\ Commits = "OnWrite" => pend = {} /\ ptok = NoToken
  /\ pend \subseteq 1..pos
  /\ pend \cap Durable \subseteq loose
  /\ ptok = NoToken => pend \subseteq loose
  /\ ptok # NoToken =>
       /\ ptok.anchored /\ ptok.seq > tok.seq /\ ptok.seq <= seq
       /\ ptok.bm >= StartAt
       /\ ptok.seq <= st.seq => ptok.bm = st.bm /\ pend \subseteq loose
       /\ Reached(ptok.bm, Durable \cup pend)
       /\ \A r \in pend : r > ptok.bm => r \in loose

(* Where the run is, between the last position both sides agree on and the page
   in hand. *)
Numbered ==
  pc # "idle" =>
    /\ outcome = "running"
    /\ lo <= pos
    /\ committed <= seq /\ tok.seq <= seq /\ st.seq <= seq
    /\ pc \in {"write", "flush"} /\ bm => st.seq < seq
    /\ pc \in {"flush", "put"} => bm

Located ==
  /\ pc = "idle" => pend = {} /\ ptok = NoToken
  /\ pc \in {"poll", "finish"} => StartAt <= pos /\ Reached(pos, Durable \cup pend)
  /\ pc = "poll" => pend \subseteq loose
  /\ pc = "poll" /\ Commits = "OnFlush" /\ pend = {} => pos = StartAt
  /\ pc = "write" => Reached(lo, Durable \cup pend) /\ pend \subseteq loose
  /\ pc = "write" /\ Commits = "OnFlush" /\ pend = {} => lo = StartAt
  /\ pc = "write" => \/ StartAt <= lo /\ (bm => tok.seq < seq)
                     \/ bm /\ tries > 0 /\ Commits = "OnWrite" /\ tok = Token(seq, pos)
  /\ pc = "flush" => Reached(pos, Durable \cup pend) /\ StartAt <= pos
  /\ pc = "flush" /\ Commits = "OnWrite" => tok = Token(seq, pos)
  /\ pc = "flush" /\ Commits = "OnFlush"
       => /\ ptok = Token(seq, pos)
          /\ pend = {} => pos = StartAt
  /\ pc = "put" => /\ pend = {} /\ Reached(pos, Durable) /\ StartAt <= pos
                   /\ tok.seq > 0 => tok.bm = pos
                   /\ ptok # NoToken => ptok.seq = seq /\ ptok.bm = pos

EInv == TypeOK /\ Core /\ Buffered /\ Numbered /\ Located

(* Until the first token of its own, a pipeline with bare tokens is elsewhere: only
   the number of its pages says how far the sink is, the state store may be behind,
   and a run counts the pages it skips until it reaches the first new one. *)
FirstNew ==
  /\ seq = tok.seq + 1 /\ bm
  /\ lo = PagesUpTo(tok.seq) /\ lo < pos

Counted ==
  pc # "idle" =>
    /\ outcome = "running" /\ committed = tok.seq
    /\ pos = PagesUpTo(seq)
    /\ pc \in {"poll", "put", "finish"} => seq <= tok.seq
    /\ pc = "write" => FirstNew
    /\ pc = "flush" => seq <= tok.seq \/ (FirstNew /\ Commits = "OnFlush")
    /\ pc \in {"flush", "put"} => bm

FirstBuffered ==
  /\ FirstNew /\ Commits = "OnFlush"
  /\ pend \subseteq Page /\ ptok = Token(seq, pos)

Unbuffered ==
  \/ pend = {} /\ ptok = NoToken /\ (pc = "flush" => seq <= tok.seq)
  \/ pc = "flush" /\ FirstBuffered /\ pend = Page
  \/ pc = "unwind" /\ ShortReports /\ FirstBuffered

Legacy ==
  /\ TypeOK /\ Replay = "Pages"
  /\ tok.seq > 0 /\ ~tok.anchored
  /\ st.seq <= tok.seq /\ st.bm = PagesUpTo(st.seq)
  /\ Durable = 1..PagesUpTo(tok.seq)
  /\ NoDuplicate /\ loose = {}
  /\ Counted /\ Unbuffered

XInv == EInv \/ Legacy
-------------------------------------------------------------------------------
(* The absence of a token is of the tokens' type. *)
LEMMA NoTokenType == NoToken \in Tokens
  BY ExactlyOnceAssumption DEF NoToken, Tokens

(* A token made from the run's sequence and position is a token. *)
LEMMA TokenType == TypeOK => Token(seq, pos) \in Tokens
  BY DEF TypeOK, Token, Tokens

(* A commit keeps the table of row copies well formed. *)
LEMMA AddedType ==
  ASSUME TypeOK, NEW S
  PROVE  Added(S) \in [Rows -> Nat]
  BY DEF TypeOK, Added

(* What a write takes is made of rows of the source. *)
LEMMA TakenType == TypeOK => \A S : S \in Taken \/ S \in SUBSET Page => S \subseteq Rows
  BY ExactlyOnceAssumption DEF TypeOK, Taken, Page, Rows

(* A deployment commits in one place, and no step changes it. *)
LEMMA Deployed ==
  ASSUME TypeOK, [Next]_vars
  PROVE  /\ deployed' = deployed /\ Commits' = Commits
         /\ Commits \in {"OnWrite", "OnFlush"}
  BY ExactlyOnceAssumption DEF TypeOK, Next, vars, Commits

(* Every step preserves the types of the variables. *)
LEMMA TypeStep == TypeOK /\ [Next]_vars => TypeOK'
  <1> SUFFICES ASSUME TypeOK, [Next]_vars PROVE TypeOK'
    OBVIOUS
  <1>0. 0 \in 0..N /\ 0 \in Nat
    BY ExactlyOnceAssumption
  <1>d. deployed' = deployed
    BY Deployed
  <1> USE <1>0, <1>d, NoTokenType DEF TypeOK, durable, buffer, page
  <1>1. CASE StartRun
    BY <1>1 DEF StartRun, StartAt, StartSeq, Tokens
  <1>2. CASE Crash
    BY <1>2 DEF Crash, EndRun
  <1>3. CASE Cancel
    BY <1>3 DEF Cancel
  <1>4. CASE LoseState
    BY <1>4 DEF LoseState
  <1>5. CASE Poll
    BY <1>5 DEF Poll, NextSeq, Skips, AfterWrite
  <1>6. CASE PollFails
    BY <1>6 DEF PollFails
  <1>7. CASE PollEnd
    BY <1>7 DEF PollEnd
  <1>8. CASE WritePlain
    BY <1>8, AddedType, TakenType DEF WritePlain, Settled
  <1>9. CASE EoWriteCommitted
    BY <1>9 DEF EoWriteCommitted, AfterWrite
  <1>10. CASE EoWrite
    BY <1>10, AddedType, TakenType, TokenType DEF EoWrite, AfterWrite, Settled
  <1>11. CASE EoWriteFails
    BY <1>11, AddedType, TakenType, TokenType DEF EoWriteFails, RetryOrUnwind
  <1>12. CASE WritePoisons
    BY <1>12 DEF WritePoisons
  <1>13. CASE Flush
    BY <1>13, AddedType DEF Flush, SnapshotLands
  <1>14. CASE FlushFails
    BY <1>14, AddedType DEF FlushFails, MayLand, SnapshotLands, RetryOrUnwind
  <1>15. CASE Put
    BY <1>15 DEF Put, RetryOrUnwind
  <1>16. CASE PutFails
    BY <1>16 DEF PutFails, RetryOrUnwind
  <1>17. CASE Unwind
    BY <1>17, AddedType DEF Unwind, MayLand, SnapshotLands, EndRun
  <1>18. CASE Finish
    BY <1>18, AddedType DEF Finish, MayLand, SnapshotLands, EndRun
  <1>19. CASE UNCHANGED vars
    BY <1>19 DEF vars
  <1>q. QED
    BY <1>1, <1>2, <1>3, <1>4, <1>5, <1>6, <1>7, <1>8, <1>9, <1>10, <1>11, <1>12, <1>13, <1>14,
       <1>15, <1>16, <1>17, <1>18, <1>19 DEF Next

(* Each of the three histories a pipeline may start from is well typed. *)
LEMMA TypeInit == Init => TypeOK
  <1> SUFFICES ASSUME Init PROVE TypeOK
    OBVIOUS
  <1>1. 0 \in 0..N /\ 0 \in Nat /\ {} \subseteq Rows
    BY ExactlyOnceAssumption
  <1>2. cnt \in [Rows -> Nat]
    BY DEF Init, Fresh, WasAtLeastOnce, HadBareTokens
  <1>3. /\ tok \in Tokens /\ st \in [bm : 0..N, seq : Nat]
        /\ loose \subseteq Rows
    <2>1. CASE Fresh
      BY <1>1, <2>1, NoTokenType DEF Fresh
    <2>2. CASE WasAtLeastOnce
      BY <1>1, <2>2, NoTokenType, ExactlyOnceAssumption DEF WasAtLeastOnce, Rows
    <2>3. CASE HadBareTokens
      <3>1. PICK k \in 1..N, j \in Nat :
              /\ j \in {k - 1, k}
              /\ st = [bm |-> PagesUpTo(j), seq |-> j]
              /\ tok = BareToken(k) /\ loose = {}
        BY <2>3, ExactlyOnceAssumption DEF HadBareTokens
      <3>2. PagesUpTo(j) \in 0..N
        BY ExactlyOnceAssumption DEF PagesUpTo
      <3>3. QED
        BY <1>1, <3>1, <3>2 DEF BareToken, Tokens
    <2>4. QED
      BY <2>1, <2>2, <2>3 DEF Init
  <1>4. QED
    BY <1>1, <1>2, <1>3, NoTokenType DEF Init, TypeOK

(* The variables keep their types, whatever the sink reports and the source
   replays. *)
THEOREM TypeCorrect == Spec => []TypeOK
  BY TypeInit, TypeStep, PTL DEF Spec
-------------------------------------------------------------------------------
(* Rows added to the sink become durable, and a row is there twice only if it was
   there before. *)
LEMMA AddedDurable ==
  ASSUME TypeOK, NEW S \in SUBSET Rows, cnt' = Added(S)
  PROVE  /\ Durable' = Durable \cup S
         /\ \A r \in Rows : cnt'[r] > 1 => cnt[r] > 1 \/ r \in S \cap Durable
  BY DEF TypeOK, Added, Durable

(* A write takes a part of its page, and all of it with honest reports. *)
LEMMA TakenPage == \A S \in Taken : S \in SUBSET Page /\ (~ShortReports => S = Page)
  BY DEF Taken

(* A page is made of the rows between its ends. *)
LEMMA PageRows ==
  ASSUME TypeOK, lo <= pos
  PROVE  /\ Page \in SUBSET Rows
         /\ 1..pos = 1..lo \cup Page
         /\ \A r \in Page : r > lo /\ r <= pos
  BY ExactlyOnceAssumption DEF TypeOK, Page, Rows

(* The resume position is a position of the source. *)
LEMMA StartAtType == TypeOK => StartAt \in 0..N
  BY DEF TypeOK, StartAt, Tokens

(* A step that leaves the sink, its watermark and the state alone. *)
LEMMA CoreStays ==
  ASSUME Core, UNCHANGED <<cnt, tok, st, loose>>
  PROVE  Core' /\ StartAt' = StartAt /\ Durable' = Durable
  BY DEF Core, Anchored, NothingBeyond, Covered, Reached, NoDuplicate, StartAt, Reanchored,
         Durable

(* Whatever is buffered may become durable at once, token included. *)
LEMMA SnapshotKeepsCore ==
  ASSUME TypeOK, Core, Buffered, SnapshotLands, UNCHANGED <<st, loose>>
  PROVE  /\ Core' /\ Durable' = Durable \cup pend
         /\ StartAt' >= StartAt
         /\ ptok # NoToken /\ pend # {} => tok' = ptok /\ StartAt' = ptok.bm
         /\ ptok = NoToken \/ pend = {} => tok' = tok /\ StartAt' = StartAt
  <1>1. /\ Durable' = Durable \cup pend
        /\ \A r \in Rows : cnt'[r] > 1 => cnt[r] > 1 \/ r \in pend \cap Durable
    BY AddedDurable DEF SnapshotLands, TypeOK
  <1>2. NoDuplicate'
    BY <1>1 DEF NoDuplicate, Core, Buffered
  <1>3. StartAt \in 0..N /\ ptok.bm \in 0..N /\ ptok.seq \in Nat /\ tok.seq \in Nat
        /\ st.seq \in Nat /\ pend \subseteq Rows
    BY StartAtType DEF TypeOK, Tokens
  <1>4. CASE ptok # NoToken /\ pend # {}
    <2>1. tok' = ptok /\ ptok.seq > tok.seq
      BY <1>4 DEF SnapshotLands, Buffered
    <2>2. StartAt' = ptok.bm
      BY <1>3, <1>4, <2>1 DEF Buffered, StartAt, Reanchored
    <2>3. Anchored'
      BY <1>3, <1>4, <2>1, <2>2 DEF Anchored, Buffered
    <2>4. NothingBeyond'
      BY <1>1, <1>3, <1>4, <2>2 DEF NothingBeyond, Core, Buffered, Durable, Rows
    <2>5. Covered'
      BY <1>1, <1>4, <2>2 DEF Covered, Reached, Core, Buffered
    <2>6. QED
      BY <1>1, <1>2, <1>3, <1>4, <2>1, <2>2, <2>3, <2>4, <2>5 DEF Core, Buffered
  <1>5. CASE ptok = NoToken \/ pend = {}
    <2>1. tok' = tok /\ StartAt' = StartAt
      BY <1>3, <1>5 DEF SnapshotLands, NoToken, StartAt, Reanchored
    <2>2. pend = {} \/ pend \subseteq loose
      BY <1>5 DEF Buffered
    <2>3. Anchored' /\ NothingBeyond' /\ Covered'
      BY <1>1, <2>1, <2>2 DEF Core, Anchored, NothingBeyond, Covered, Reached
    <2>4. QED
      BY <1>1, <1>2, <1>3, <1>5, <2>1, <2>3 DEF Core
  <1>6. QED
    BY <1>4, <1>5

(* A transaction commits the page, or what the sink takes of it, and its token. *)
LEMMA CommitKeepsCore ==
  ASSUME TypeOK, Core, Numbered, pc = "write", bm, tok.seq < seq, StartAt <= lo,
         Reached(lo, Durable), NEW S \in SUBSET Page, ~ShortReports => S = Page,
         cnt' = Added(S), tok' = Token(seq, pos), UNCHANGED <<st, loose>>
  PROVE  /\ Core' /\ Durable' = Durable \cup S
         /\ StartAt' = pos
  <1>1. /\ Page \in SUBSET Rows
        /\ 1..pos = 1..lo \cup Page
        /\ \A r \in Page : r > lo /\ r <= pos
        /\ lo <= pos
    BY PageRows DEF Numbered
  <1>2. /\ Durable' = Durable \cup S
        /\ \A r \in Rows : cnt'[r] > 1 => cnt[r] > 1 \/ r \in S \cap Durable
    BY <1>1, AddedDurable
  <1>3. StartAt \in 0..N /\ lo \in 0..N /\ pos \in 0..N /\ seq \in Nat /\ tok.seq \in Nat
        /\ st.seq < seq
    BY StartAtType DEF TypeOK, Tokens, Numbered
  <1>4. \A r \in Durable : r \in Page => r \in loose
    BY <1>1, <1>3 DEF Core, NothingBeyond, Durable, Rows
  <1>5. StartAt' = pos
    BY <1>3 DEF StartAt, Reanchored, Token
  <1>6. Anchored'
    BY <1>3, <1>5 DEF Anchored, Token
  <1>7. NothingBeyond'
    BY <1>1, <1>2, <1>3, <1>5 DEF Core, NothingBeyond, Durable, Rows
  <1>8. Covered'
    BY <1>1, <1>2, <1>5 DEF Core, Covered, Reached
  <1>9. NoDuplicate'
    BY <1>2, <1>4 DEF Core, NoDuplicate
  <1>10. QED
    BY <1>2, <1>5, <1>6, <1>7, <1>8, <1>9 DEF Core

(* Rows land outside any token: they are loose from then on. *)
LEMMA PlainKeepsCore ==
  ASSUME TypeOK, Core, NEW S \in SUBSET Rows,
         cnt' = Added(S) \/ cnt' = cnt, loose' = loose \cup S, UNCHANGED <<tok, st>>
  PROVE  /\ Core' /\ StartAt' = StartAt
         /\ cnt' = Added(S) => Durable' = Durable \cup S
         /\ cnt' = cnt => Durable' = Durable
  <1>1. StartAt' = StartAt /\ Anchored'
    BY DEF Core, Anchored, StartAt, Reanchored
  <1>2. CASE cnt' = Added(S)
    <2>1. /\ Durable' = Durable \cup S
          /\ \A r \in Rows : cnt'[r] > 1 => cnt[r] > 1 \/ r \in S \cap Durable
      BY <1>2, AddedDurable
    <2>2. NothingBeyond' /\ Covered'
      BY <1>1, <2>1 DEF Core, NothingBeyond, Covered, Reached
    <2>3. NoDuplicate'
      BY <2>1 DEF Core, NoDuplicate
    <2>4. (cnt' = cnt) => Durable' = Durable
      BY DEF Durable
    <2>5. QED
      BY <1>1, <2>1, <2>2, <2>3, <2>4 DEF Core
  <1>3. CASE cnt' = cnt
    <2>1. Durable' = Durable
      BY <1>3 DEF Durable
    <2>2. NothingBeyond' /\ Covered' /\ NoDuplicate'
      BY <1>1, <1>3, <2>1 DEF Core, NothingBeyond, Covered, Reached, NoDuplicate
    <2>3. cnt' = Added(S) => Durable' = Durable \cup S
      BY AddedDurable
    <2>4. QED
      BY <1>1, <2>1, <2>2, <2>3 DEF Core
  <1>4. QED
    BY <1>2, <1>3

(* Every step preserves the inductive invariant. *)
LEMMA EInvStep ==
  ASSUME EInv, [Next]_vars
  PROVE  EInv'
  <1>t. TypeOK'
    BY TypeStep DEF EInv
  <1>n. /\ StartAt \in 0..N /\ lo \in 0..N /\ pos \in 0..N /\ N \in Nat
        /\ seq \in Nat /\ committed \in Nat /\ tries \in Nat
        /\ tok.seq \in Nat /\ tok.bm \in 0..N /\ ptok.seq \in Nat /\ ptok.bm \in 0..N
        /\ st.seq \in Nat /\ st.bm \in 0..N
    BY StartAtType, ExactlyOnceAssumption DEF EInv, TypeOK, Tokens
  <1>d. Commits' = Commits /\ Commits \in {"OnWrite", "OnFlush"}
    BY Deployed DEF EInv
  <1> DEFINE Goal == Core /\ Buffered /\ Numbered /\ Located
  <1> USE <1>n, <1>d DEF EInv, Buffered, Numbered, Located, Reached, durable, buffer, page
  <1>1. ASSUME StartRun PROVE Goal'
    <2>1. Core' /\ StartAt' = StartAt /\ Durable' = Durable
      BY <1>1, CoreStays DEF StartRun
    <2>2. Reached(StartAt, Durable)
      BY DEF Core, Covered
    <2>3. tok.seq <= StartSeq /\ st.seq <= StartSeq
      BY DEF Core, Anchored, NoToken, StartSeq, Reanchored
    <2>4. QED
      BY <1>1, <2>1, <2>2, <2>3 DEF StartRun
  <1>2. ASSUME Crash PROVE Goal'
    BY <1>2, CoreStays DEF Crash, EndRun
  <1>3. ASSUME Cancel PROVE Goal'
    BY <1>3, CoreStays DEF Cancel
  <1>4. ASSUME LoseState PROVE Goal'
    <2>1. tok.anchored /\ StartAt = tok.bm
      BY <1>4 DEF LoseState, Core, Anchored, NoToken
    <2>2. StartAt' = StartAt /\ Durable' = Durable
      BY <1>4, <2>1 DEF LoseState, StartAt, Reanchored, Durable
    <2>3. Core'
      BY <1>4, <2>1, <2>2 DEF LoseState, Core, Anchored, NothingBeyond, Covered, NoDuplicate
    <2>4. QED
      BY <1>4, <2>3 DEF LoseState
  <1>5. ASSUME Poll PROVE Goal'
    BY <1>5, CoreStays, PageRows DEF Poll, NextSeq, Skips, AfterWrite
  <1>6. ASSUME PollFails PROVE Goal'
    BY <1>6, CoreStays DEF PollFails
  <1>7. ASSUME PollEnd PROVE Goal'
    BY <1>7, CoreStays DEF PollEnd
  <1>8. ASSUME WritePlain PROVE Goal'
    <2>1. PICK S \in SUBSET Page :
            /\ loose' = loose \cup S
            /\ \/ pc' = "poll" /\ S = Page
               \/ pc' = "unwind"
            /\ \/ Commits = "OnWrite" /\ cnt' = Added(S) /\ UNCHANGED pend
               \/ Commits = "OnFlush" /\ pend' = pend \cup S /\ UNCHANGED cnt
      <3>1. CASE \E S \in Taken : /\ loose' = loose \cup S
                                 /\ pc' = Settled(S, "poll")
                                 /\ IF Commits = "OnWrite"
                                    THEN cnt' = Added(S) /\ UNCHANGED pend
                                    ELSE pend' = pend \cup S /\ UNCHANGED cnt
        <4>1. PICK S \in Taken : /\ loose' = loose \cup S
                                 /\ pc' = Settled(S, "poll")
                                 /\ IF Commits = "OnWrite"
                                    THEN cnt' = Added(S) /\ UNCHANGED pend
                                    ELSE pend' = pend \cup S /\ UNCHANGED cnt
          BY <3>1
        <4>2. S \in SUBSET Page
          BY TakenPage
        <4>3. (pc' = "poll" /\ S = Page) \/ pc' = "unwind"
          BY <4>1 DEF Settled
        <4>4. QED
          BY <4>1, <4>2, <4>3
      <3>2. CASE \E S \in SUBSET Page : /\ loose' = loose \cup S
                                       /\ pc' = "unwind"
                                       /\ UNCHANGED pend
                                       /\ IF Commits = "OnWrite"
                                          THEN cnt' = Added(S)
                                          ELSE S = {} /\ UNCHANGED cnt
        BY <3>2
      <3>3. QED
        BY <1>8, <3>1, <3>2 DEF WritePlain
    <2>2. /\ pc = "write" /\ ~bm /\ StartAt <= lo
          /\ UNCHANGED <<tok, st, outcome, ptok, page, seq, committed>>
      BY <1>8 DEF WritePlain
    <2>3. /\ S \in SUBSET Rows /\ S \subseteq 1..pos
          /\ 1..pos = 1..lo \cup Page /\ \A r \in S : r > lo
      BY <2>1, <2>2, PageRows, ExactlyOnceAssumption DEF Page
    <2>4. /\ Core' /\ StartAt' = StartAt
          /\ cnt' = Added(S) => Durable' = Durable \cup S
          /\ cnt' = cnt => Durable' = Durable
      BY <2>1, <2>2, <2>3, PlainKeepsCore
    <2>5. CASE Commits = "OnWrite"
      <3>1. /\ cnt' = Added(S) /\ Durable' = Durable \cup S
            /\ pend = {} /\ pend' = {} /\ ptok' = NoToken
        BY <2>1, <2>2, <2>4, <2>5
      <3>2. QED
        BY <2>1, <2>2, <2>3, <2>4, <2>5, <3>1
    <2>6. CASE Commits = "OnFlush"
      <3>1. pend' = pend \cup S /\ Durable' = Durable /\ pend \subseteq loose
        BY <2>1, <2>2, <2>4, <2>6
      <3>2. Buffered'
        BY <2>1, <2>2, <2>3, <2>4, <2>6, <3>1
      <3>3. pc' = "poll" /\ pend' = {} => pos = StartAt
        BY <2>1, <2>2, <2>6, <3>1, PageRows DEF Page
      <3>4. QED
        BY <2>1, <2>2, <2>3, <2>4, <2>6, <3>1, <3>2, <3>3
    <2>7. QED
      BY <2>5, <2>6, ExactlyOnceAssumption
  <1>9. ASSUME EoWriteCommitted PROVE Goal'
    <2>1. Core' /\ StartAt' = StartAt /\ Durable' = Durable
      BY <1>9, CoreStays DEF EoWriteCommitted, AfterWrite
    <2>2. Commits = "OnWrite" /\ tok = Token(seq, pos) /\ st.seq < seq
      BY <1>9 DEF EoWriteCommitted, AfterWrite, AlreadyCommitted
    <2>3. StartAt = pos /\ Reached(pos, Durable)
      BY <2>2 DEF Core, Anchored, Covered, Token
    <2>4. QED
      BY <1>9, <2>1, <2>2, <2>3 DEF EoWriteCommitted, AfterWrite
  <1>10. ASSUME EoWrite PROVE Goal'
    <2>1. /\ pc = "write" /\ bm /\ tok.seq < seq /\ StartAt <= lo /\ st.seq < seq
          /\ UNCHANGED <<st, outcome, page, seq, committed, loose>>
      BY <1>10 DEF EoWrite, AlreadyCommitted, Token
    <2>s. PICK S \in Taken :
            /\ IF Commits = "OnWrite"
               THEN /\ cnt' = Added(S) /\ tok' = Token(seq, pos)
                    /\ UNCHANGED buffer
               ELSE /\ pend' = pend \cup S /\ ptok' = Token(seq, pos)
                    /\ UNCHANGED <<cnt, tok>>
            /\ tries' = 0 /\ pc' = IF S = Page THEN "flush" ELSE "unwind"
      BY <1>10 DEF EoWrite, Settled, AfterWrite
    <2>p. S \in SUBSET Page /\ (~ShortReports => S = Page)
      BY TakenPage
    <2>2. Page \in SUBSET Rows /\ 1..pos = 1..lo \cup Page /\ Page \subseteq 1..pos
      BY <2>1, PageRows, ExactlyOnceAssumption DEF Page
    <2>3. CASE Commits = "OnWrite"
      <3>1. cnt' = Added(S) /\ tok' = Token(seq, pos) /\ UNCHANGED buffer
        BY <2>s, <2>3
      <3>2. Core' /\ Durable' = Durable \cup S /\ StartAt' = pos
        BY <2>1, <2>p, <2>3, <3>1, CommitKeepsCore
      <3>3. Reached(pos, Durable') /\ tok'.seq = seq
        BY <2>1, <2>2, <2>p, <2>3, <3>1, <3>2 DEF Token
      <3>b. pend' = {} /\ ptok' = NoToken /\ pc' \in {"flush", "unwind"}
        BY <2>s, <2>3, <3>1
      <3>4. Buffered' /\ Numbered'
        BY <2>1, <2>3, <3>3, <3>b
      <3>5. Located'
        BY <2>1, <2>s, <2>3, <3>1, <3>2, <3>3
      <3>6. QED
        BY <3>2, <3>4, <3>5
    <2>4. CASE Commits = "OnFlush"
      <3>1. pend' = pend \cup S /\ ptok' = Token(seq, pos) /\ UNCHANGED <<cnt, tok>>
        BY <2>s, <2>4
      <3>2. Core' /\ Durable' = Durable /\ StartAt' = StartAt
        BY <2>1, <3>1, CoreStays
      <3>3. Page \cap Durable \subseteq loose
        BY <2>1, PageRows DEF Core, NothingBeyond
      <3>4. ptok' # NoToken
        BY <2>1, <3>1 DEF Token, NoToken
      <3>5. Page = {} => lo = pos
        BY <2>1, PageRows DEF Page
      <3>r. Reached(pos, Durable \cup pend \cup S)
        BY <2>1, <2>2, <2>p
      <3>t. ptok'.anchored /\ ptok'.seq = seq /\ ptok'.bm = pos
        BY <3>1 DEF Token
      <3>b. pend' \subseteq 1..pos /\ pend' \cap Durable \subseteq loose
        BY <2>1, <2>2, <2>p, <3>1, <3>3
      <3>6. Buffered'
        BY <2>1, <2>4, <3>1, <3>2, <3>4, <3>r, <3>t, <3>b
      <3>7. QED
        BY <2>1, <2>2, <2>s, <2>p, <2>4, <3>1, <3>2, <3>5, <3>6
    <2>5. QED
      BY <2>3, <2>4, ExactlyOnceAssumption
  <1>11. ASSUME EoWriteFails PROVE Goal'
    <2>1. /\ pc = "write" /\ bm /\ st.seq < seq
          /\ UNCHANGED <<st, outcome, buffer, page, seq, committed, loose>>
          /\ \/ pc' = "write" /\ tries' > 0
             \/ pc' = "unwind"
      BY <1>11 DEF EoWriteFails, RetryOrUnwind
    <2>2. CASE UNCHANGED <<cnt, tok>>
      <3>1. Core' /\ Durable' = Durable /\ StartAt' = StartAt
        BY <2>1, <2>2, CoreStays
      <3>2. QED
        BY <2>1, <2>2, <3>1
    <2>3. ASSUME Commits = "OnWrite", ~AlreadyCommitted, NEW S \in Taken,
                 cnt' = Added(S), tok' = Token(seq, pos)
          PROVE  Goal'
      <3>0. S \in SUBSET Page /\ (~ShortReports => S = Page)
        BY TakenPage
      <3>1. tok.seq < seq /\ StartAt <= lo
        BY <2>1, <2>3 DEF AlreadyCommitted, Token
      <3>2. Core' /\ Durable' = Durable \cup S /\ StartAt' = pos
        BY <2>1, <2>3, <3>0, <3>1, CommitKeepsCore
      <3>3. tok'.seq = seq /\ tok' = Token(seq', pos')
        BY <2>1, <2>3 DEF Token
      <3>4. pend = {} /\ ptok = NoToken
        BY <2>3
      <3>5. QED
        BY <2>1, <2>3, <3>1, <3>2, <3>3, <3>4
    <2>4. QED
      BY <1>11, <2>2, <2>3 DEF EoWriteFails
  <1>12. ASSUME WritePoisons PROVE Goal'
    BY <1>12, CoreStays DEF WritePoisons
  <1>13. ASSUME Flush PROVE Goal'
    <2>1. /\ Core' /\ Durable' = Durable \cup pend
          /\ StartAt' >= StartAt
          /\ ptok # NoToken /\ pend # {} => tok' = ptok /\ StartAt' = ptok.bm
          /\ ptok = NoToken \/ pend = {} => tok' = tok /\ StartAt' = StartAt
      BY <1>13, SnapshotKeepsCore DEF Flush
    <2>2. /\ pc = "flush" /\ bm /\ pc' = "put" /\ pend' = {}
          /\ ptok' = IF pend # {} THEN NoToken ELSE ptok
          /\ UNCHANGED <<st, outcome, page, seq, committed, loose>>
      BY <1>13 DEF Flush
    <2>3. CASE Commits = "OnWrite"
      BY <2>1, <2>2, <2>3 DEF Token
    <2>4. CASE Commits = "OnFlush"
      <3>1. ptok = Token(seq, pos) /\ ptok # NoToken
        BY <2>2, <2>4 DEF Token, NoToken
      <3>2. CASE pend # {}
        BY <2>1, <2>2, <2>4, <3>1, <3>2 DEF Token
      <3>3. CASE pend = {}
        <4>1. /\ tok' = tok /\ StartAt' = StartAt /\ pos = StartAt
              /\ Durable' = Durable /\ ptok' = ptok
          BY <2>1, <2>2, <2>4, <3>3
        <4>2. tok.seq > 0 => tok.bm = pos
          BY <4>1 DEF Core, Anchored
        <4>3. QED
          BY <2>1, <2>2, <2>4, <3>1, <3>3, <4>1, <4>2 DEF Token
      <3>4. QED
        BY <3>2, <3>3
    <2>5. QED
      BY <2>3, <2>4, ExactlyOnceAssumption
  <1>14. ASSUME FlushFails PROVE Goal'
    BY <1>14, CoreStays, SnapshotKeepsCore DEF FlushFails, MayLand, RetryOrUnwind
  <1>15. ASSUME Put PROVE Goal'
    <2>1. /\ pc = "put" /\ bm /\ st' = [bm |-> pos, seq |-> seq]
          /\ UNCHANGED <<cnt, tok, outcome, buffer, page, seq, committed, loose>>
          /\ pc' \in {"poll", "put", "unwind"}
      BY <1>15 DEF Put, RetryOrUnwind
    <2>2. StartAt' = pos
      BY <2>1 DEF StartAt, Reanchored
    <2>3. Durable' = Durable
      BY <2>1 DEF Durable
    <2>4. Core'
      BY <2>1, <2>2, <2>3
         DEF Core, Anchored, NothingBeyond, Covered, NoDuplicate, Durable, Rows
    <2>5. QED
      BY <2>1, <2>2, <2>3, <2>4
  <1>16. ASSUME PutFails PROVE Goal'
    BY <1>16, CoreStays DEF PutFails, RetryOrUnwind
  <1>17. ASSUME Unwind PROVE Goal'
    BY <1>17, CoreStays, SnapshotKeepsCore DEF Unwind, MayLand, EndRun
  <1>18. ASSUME Finish PROVE Goal'
    BY <1>18, CoreStays, SnapshotKeepsCore DEF Finish, MayLand, EndRun
  <1>19. ASSUME UNCHANGED vars PROVE Goal'
    BY <1>19, CoreStays DEF vars
  <1>q. QED
    BY <1>t, <1>1, <1>2, <1>3, <1>4, <1>5, <1>6, <1>7, <1>8, <1>9, <1>10, <1>11, <1>12, <1>13,
       <1>14, <1>15, <1>16, <1>17, <1>18, <1>19 DEF Next

(* The inductive invariant holds before the first run of a pipeline that is new or
   was at_least_once. *)
LEMMA EInvInit ==
  ASSUME Init, ~HadBareTokens
  PROVE  EInv
  <1>1. TypeOK
    BY TypeInit
  <1>2. /\ pc = "idle" /\ pend = {} /\ ptok = NoToken
        /\ tok = NoToken /\ st.seq = 0
    BY DEF Init, Fresh, WasAtLeastOnce
  <1>3. StartAt = st.bm /\ Anchored
    BY <1>2 DEF StartAt, Reanchored, Anchored, NoToken
  <1>4. \E q \in st.bm..N : /\ cnt = [r \in Rows |-> IF r <= q THEN 1 ELSE 0]
                            /\ loose = st.bm + 1 .. q
    <2>1. CASE Fresh
      <3>1. /\ st.bm = 0 /\ 0 \in st.bm..N /\ loose = st.bm + 1 .. 0
            /\ cnt = [r \in Rows |-> 0]
        BY <2>1, ExactlyOnceAssumption DEF Fresh
      <3>2. [r \in Rows |-> 0] = [r \in Rows |-> IF r <= 0 THEN 1 ELSE 0]
        BY ExactlyOnceAssumption DEF Rows
      <3>3. QED
        BY <3>1, <3>2
    <2>2. CASE WasAtLeastOnce
      BY <2>2 DEF WasAtLeastOnce
    <2>3. QED
      BY <2>1, <2>2 DEF Init
  <1>5. NothingBeyond /\ ResumeCovered /\ NoDuplicate
    <2>1. PICK q \in st.bm..N : /\ cnt = [r \in Rows |-> IF r <= q THEN 1 ELSE 0]
                                /\ loose = st.bm + 1 .. q
      BY <1>4
    <2>2. st.bm \in 0..N /\ q \in 0..N
      BY <1>1, ExactlyOnceAssumption DEF TypeOK
    <2>3. Durable = {r \in Rows : r <= q}
      BY <2>1 DEF Durable
    <2>4. NothingBeyond /\ ResumeCovered
      BY <1>3, <2>1, <2>2, <2>3, ExactlyOnceAssumption DEF NothingBeyond, ResumeCovered, Rows
    <2>5. NoDuplicate
      BY <2>1 DEF NoDuplicate
    <2>6. QED
      BY <2>4, <2>5
  <1>6. QED
    BY <1>1, <1>2, <1>3, <1>5
       DEF EInv, Core, Covered, Reached, ResumeCovered, Buffered, Numbered, Located

-------------------------------------------------------------------------------
(* The tokens of an earlier release. *)

(* Pages end within the source, and no pages end where it begins. *)
LEMMA PagesType == \A k \in Nat : PagesUpTo(k) \in 0..N /\ PagesUpTo(0) = 0
  <1>1. \A k \in Nat : k * MaxPage \in Nat /\ 0 * MaxPage = 0
    BY ExactlyOnceAssumption
  <1>2. QED
    BY <1>1, ExactlyOnceAssumption DEF PagesUpTo

(* The next page starts where one ends, and is not empty. *)
LEMMA PagesNext ==
  ASSUME NEW k \in Nat, PagesUpTo(k) < N
  PROVE  /\ PageEnd(PagesUpTo(k)) = PagesUpTo(k + 1)
         /\ PagesUpTo(k) < PagesUpTo(k + 1)
  <1>1. (k + 1) * MaxPage = k * MaxPage + MaxPage /\ k * MaxPage \in Nat /\ MaxPage >= 1
    BY ExactlyOnceAssumption
  <1>2. PagesUpTo(k) = k * MaxPage
    BY <1>1, ExactlyOnceAssumption DEF PagesUpTo
  <1>3. QED
    BY <1>1, <1>2, ExactlyOnceAssumption DEF PagesUpTo, PageEnd

(* Fewer pages never reach further. *)
LEMMA PagesMonotonic ==
  ASSUME NEW j \in Nat, NEW k \in Nat, j <= k
  PROVE  PagesUpTo(j) <= PagesUpTo(k)
  <1>1. PICK d \in Nat : k = j + d
    BY k - j \in Nat
  <1>2. k * MaxPage = j * MaxPage + d * MaxPage /\ d * MaxPage \in Nat /\ j * MaxPage \in Nat
    BY <1>1, ExactlyOnceAssumption
  <1>3. QED
    BY <1>2, ExactlyOnceAssumption DEF PagesUpTo

(* What the bare tokens say of a state: nothing is skipped that the sink lacks, and
   the next run writes again past the pages that the watermark counts. *)
LEMMA LegacyClaims ==
  ASSUME Legacy
  PROVE  /\ ResumeCovered /\ StartAt = st.bm /\ StartSeq = st.seq
         /\ Resumes = PagesUpTo(tok.seq)
         /\ PagesUpTo(tok.seq) \in 0..N
         /\ st.bm <= PagesUpTo(tok.seq)
         /\ (pc # "idle" /\ seq <= tok.seq) => 1..pos \subseteq Durable
  <1>1. tok.seq \in Nat /\ st.seq \in Nat /\ st.bm \in 0..N /\ seq \in Nat /\ N \in Nat
    BY ExactlyOnceAssumption DEF Legacy, TypeOK, Tokens
  <1>2. StartAt = st.bm /\ StartSeq = st.seq
    BY DEF Legacy, StartAt, StartSeq, Reanchored
  <1>3. PagesUpTo(tok.seq) \in 0..N /\ st.bm <= PagesUpTo(tok.seq)
    BY <1>1, PagesType, PagesMonotonic DEF Legacy
  <1>4. Resumes = PagesUpTo(tok.seq)
    BY <1>1, <1>2 DEF Resumes, Legacy
  <1>5. ResumeCovered
    BY <1>1, <1>2, <1>3 DEF ResumeCovered, Legacy
  <1>6. ASSUME pc # "idle", seq <= tok.seq PROVE 1..pos \subseteq Durable
    <2>1. pos = PagesUpTo(seq) /\ pos <= PagesUpTo(tok.seq) /\ pos \in 0..N
      BY <1>1, <1>6, PagesType, PagesMonotonic DEF Legacy, Counted
    <2>2. QED
      BY <1>1, <1>3, <2>1 DEF Legacy
  <1>7. QED
    BY <1>2, <1>3, <1>4, <1>5, <1>6

(* A pipeline whose tokens were bare starts there. *)
LEMMA LegacyInit == Init /\ HadBareTokens => Legacy
  <1> SUFFICES ASSUME Init, HadBareTokens PROVE Legacy
    OBVIOUS
  <1>1. TypeOK
    BY TypeInit
  <1>2. PICK k \in 1..N : \E j \in {k - 1, k} :
          /\ cnt = [r \in Rows |-> IF r <= PagesUpTo(k) THEN 1 ELSE 0]
          /\ st = [bm |-> PagesUpTo(j), seq |-> j]
          /\ tok = BareToken(k) /\ loose = {}
    BY DEF HadBareTokens
  <1>3. k \in Nat /\ k > 0 /\ k - 1 \in Nat /\ PagesUpTo(k) \in 0..N /\ N \in Nat
    BY PagesType, ExactlyOnceAssumption
  <1>4. tok.seq = k /\ tok.seq > 0 /\ ~tok.anchored /\ tok.anchored \in BOOLEAN
    BY <1>2, <1>3 DEF BareToken
  <1>5. st.seq <= tok.seq /\ st.bm = PagesUpTo(st.seq)
    BY <1>2, <1>3, <1>4
  <1>6. Durable = 1..PagesUpTo(tok.seq) /\ NoDuplicate
    <2>1. \A r \in Rows : cnt[r] = IF r <= PagesUpTo(k) THEN 1 ELSE 0
      BY <1>2
    <2>2. NoDuplicate
      BY <2>1 DEF NoDuplicate
    <2>3. Durable = {r \in Rows : r <= PagesUpTo(k)}
      BY <2>1 DEF Durable
    <2>4. QED
      BY <1>3, <1>4, <2>2, <2>3 DEF Rows
  <1>7. Counted /\ Unbuffered
    BY DEF Init, Counted, Unbuffered
  <1>8. QED
    BY <1>1, <1>2, <1>4, <1>5, <1>6, <1>7 DEF Legacy, HadBareTokens

(* The first token of its own carries a position: from then on the two anchors agree
   as in any other pipeline. *)
LEMMA FirstToken ==
  ASSUME Legacy, FirstNew, NEW S \in SUBSET Page, ~ShortReports => S = Page,
         cnt' = Added(S), tok' = Token(seq, pos), UNCHANGED <<st, loose>>
  PROVE  /\ Core' /\ StartAt' = pos /\ Reached(pos, Durable')
         /\ Durable \subseteq Durable' /\ tok'.seq = tok.seq + 1
         /\ PagesUpTo(tok.seq) <= pos
  <1>1. /\ tok.seq \in Nat /\ st.seq \in Nat /\ seq \in Nat /\ lo \in 0..N /\ pos \in 0..N
        /\ N \in Nat /\ lo <= pos /\ seq = tok.seq + 1 /\ st.seq < seq
        /\ lo = PagesUpTo(tok.seq) /\ st.bm <= lo /\ st.bm \in 0..N
    BY LegacyClaims, ExactlyOnceAssumption DEF Legacy, FirstNew, TypeOK, Tokens
  <1>2. /\ Page \in SUBSET Rows /\ 1..pos = 1..lo \cup Page
        /\ \A r \in Page : r > lo /\ r <= pos
    BY <1>1, PageRows DEF Legacy
  <1>3. /\ Durable' = Durable \cup S
        /\ \A r \in Rows : cnt'[r] > 1 => cnt[r] > 1 \/ r \in S \cap Durable
    BY <1>2, AddedDurable DEF Legacy
  <1>4. Durable = 1..lo
    BY <1>1 DEF Legacy
  <1>5. S \cap Durable = {} /\ Durable' \subseteq 1..pos /\ Reached(pos, Durable')
    BY <1>1, <1>2, <1>3, <1>4 DEF Reached
  <1>6. /\ tok'.seq = seq /\ tok'.bm = pos /\ tok'.anchored /\ tok'.seq > 0
        /\ StartAt' = pos
    BY <1>1 DEF Token, StartAt, Reanchored
  <1>7. Anchored' /\ NothingBeyond'
    BY <1>1, <1>5, <1>6 DEF Anchored, NothingBeyond
  <1>8. Covered'
    BY <1>1, <1>3, <1>4, <1>5, <1>6 DEF Covered, Reached
  <1>9. NoDuplicate'
    BY <1>3, <1>5 DEF Legacy, NoDuplicate
  <1>10. QED
    BY <1>1, <1>3, <1>5, <1>6, <1>7, <1>8, <1>9 DEF Core

(* A step of such a pipeline leaves the sink and its watermark alone, or commits the
   first new page. *)
LEMMA LegacyStep ==
  ASSUME Legacy, [Next]_vars
  PROVE  \/ Legacy' /\ UNCHANGED <<cnt, tok>>
         \/ /\ EInv' /\ Durable \subseteq Durable' /\ tok'.seq = tok.seq + 1
            /\ PagesUpTo(tok.seq) <= StartAt'
  <1>t. TypeOK'
    BY TypeStep DEF Legacy
  <1>n. /\ lo \in 0..N /\ pos \in 0..N /\ N \in Nat
        /\ seq \in Nat /\ committed \in Nat /\ tries \in Nat
        /\ tok.seq \in Nat /\ st.seq \in Nat /\ st.bm \in 0..N
    BY ExactlyOnceAssumption DEF Legacy, TypeOK, Tokens
  <1>d. /\ deployed' = deployed /\ Commits' = Commits /\ Commits \in {"OnWrite", "OnFlush"}
        /\ Replay' = Replay /\ Replay = "Pages"
    BY Deployed DEF Legacy, Replay
  <1> DEFINE Stays == Legacy' /\ UNCHANGED <<cnt, tok>>
             Moves == /\ EInv' /\ Durable \subseteq Durable' /\ tok'.seq = tok.seq + 1
                      /\ PagesUpTo(tok.seq) <= StartAt'
  <1>s. ASSUME UNCHANGED <<cnt, tok, st, loose>>, Counted', Unbuffered' PROVE Stays
    BY <1>s, <1>t, <1>d DEF Legacy, Durable, NoDuplicate
  <1>m. ASSUME FirstNew, pc # "idle", NEW S \in SUBSET Page, ~ShortReports => S = Page,
               cnt' = Added(S), tok' = Token(seq, pos), UNCHANGED <<st, loose>>,
               pend' = {}, ptok' = NoToken,
               \/ pc' = "idle"
               \/ /\ UNCHANGED <<lo, pos, seq, bm, committed, outcome>>
                  /\ \/ pc' \in {"put", "unwind"}
                     \/ pc' = "write" /\ tries' > 0 /\ Commits = "OnWrite"
                     \/ pc' = "flush" /\ Commits = "OnWrite"
        PROVE  Moves
    <2>1. /\ Core' /\ StartAt' = pos /\ Reached(pos, Durable')
          /\ Durable \subseteq Durable' /\ tok'.seq = tok.seq + 1
          /\ PagesUpTo(tok.seq) <= pos
      BY <1>m, FirstToken
    <2>2. /\ seq = tok.seq + 1 /\ bm /\ lo <= pos /\ st.seq < seq /\ committed <= seq
          /\ outcome = "running" /\ 1..lo \subseteq 1..pos
          /\ tok'.bm = pos /\ tok'.seq = seq
      BY <1>m, <1>n DEF FirstNew, Legacy, Counted, Token
    <2>3. Buffered'
      BY <1>m, <2>1 DEF Buffered
    <2>u. CASE pc' = "idle"
      <3>1. Numbered' /\ Located'
        BY <1>m, <2>u DEF Numbered, Located
      <3>2. QED
        BY <1>t, <2>1, <2>3, <3>1 DEF EInv
    <2>v. CASE /\ UNCHANGED <<lo, pos, seq, bm, committed, outcome>>
               /\ \/ pc' \in {"put", "unwind"}
                  \/ pc' = "write" /\ tries' > 0 /\ Commits = "OnWrite"
                  \/ pc' = "flush" /\ Commits = "OnWrite"
      <3>1. Numbered'
        BY <1>m, <1>n, <2>1, <2>2, <2>v DEF Numbered
      <3>2. tok' = Token(seq', pos')
        BY <1>m, <2>v
      <3>3. Located'
        BY <1>m, <1>n, <1>d, <2>1, <2>2, <2>v, <3>2 DEF Located, Reached
      <3>4. QED
        BY <1>t, <2>1, <2>3, <3>1, <3>3 DEF EInv
    <2>q. QED
      BY <1>m, <2>u, <2>v
  <1>e. ASSUME pend = {}, SnapshotLands PROVE UNCHANGED <<cnt, tok>>
    <2>1. cnt' = cnt
      <3>1. cnt' = Added({}) /\ cnt \in [Rows -> Nat]
        BY <1>e DEF SnapshotLands, Legacy, TypeOK
      <3>2. QED
        BY <3>1 DEF Added
    <2>2. QED
      BY <1>e, <2>1 DEF SnapshotLands
  <1>f. ASSUME FirstBuffered, pend # {}, SnapshotLands
        PROVE  /\ FirstNew /\ pend \in SUBSET Page
               /\ cnt' = Added(pend) /\ tok' = Token(seq, pos)
    <2>1. ptok.seq > tok.seq
      BY <1>f, <1>n DEF FirstBuffered, FirstNew, Token
    <2>2. QED
      BY <1>f, <2>1 DEF FirstBuffered, SnapshotLands
  <1>p. ASSUME FirstNew PROVE Page # {}
    <2>1. lo + 1 \in Page
      BY <1>n, <1>p DEF FirstNew, Page
    <2>2. QED
      BY <2>1
  <1>k. ASSUME UNCHANGED <<pc, seq, lo, pos, bm, pend, ptok, tok>>, Unbuffered PROVE Unbuffered'
    BY <1>k, <1>d DEF Unbuffered, FirstBuffered, FirstNew, Page, PagesUpTo
  <1>g. Counted /\ Unbuffered
    BY DEF Legacy
  <1> HIDE DEF Stays, Moves
  <1> USE <1>n, <1>d, <1>g DEF Counted, Unbuffered, FirstBuffered, FirstNew, durable, buffer, page
  <1>1. ASSUME StartRun PROVE Stays
    <2>1. StartAt = PagesUpTo(st.seq) /\ StartSeq = st.seq /\ st.seq <= tok.seq
      BY LegacyClaims DEF Legacy
    <2>2. UNCHANGED <<cnt, tok, st, loose>> /\ Counted' /\ Unbuffered'
      BY <1>1, <2>1 DEF StartRun
    <2>3. QED
      BY <1>s, <2>2
  <1>2. ASSUME Crash PROVE Stays
    BY <1>2, <1>s DEF Crash, EndRun
  <1>3. ASSUME Cancel PROVE Stays
    BY <1>3, <1>s, <1>k DEF Cancel
  <1>4. ASSUME LoseState PROVE Stays
    <2>1. Counted' /\ Unbuffered'
      BY <1>4 DEF LoseState
    <2>2. st'.seq = 0 /\ st'.bm = PagesUpTo(0) /\ UNCHANGED <<cnt, tok, loose>>
      BY <1>4, PagesType DEF LoseState
    <2>3. QED
      BY <1>t, <2>1, <2>2 DEF Legacy, Stays, Durable, NoDuplicate
  <1>5. ASSUME Poll PROVE Stays
    <2>1. /\ pos = PagesUpTo(seq) /\ seq <= tok.seq /\ pos < N /\ pos' = PageEnd(pos)
          /\ lo' = pos /\ bm' /\ seq' = seq + 1 /\ committed = tok.seq /\ outcome = "running"
          /\ pc' = IF seq + 1 <= committed THEN "flush" ELSE "write"
          /\ UNCHANGED <<cnt, tok, st, loose, outcome, committed, pend, ptok>>
          /\ pend = {} /\ ptok = NoToken
      BY <1>5 DEF Poll, NextSeq, Skips, AfterWrite
    <2>2. pos' = PagesUpTo(seq + 1) /\ pos < pos'
      BY <2>1, PagesNext
    <2>3. Counted' /\ Unbuffered'
      BY <2>1, <2>2
    <2>4. QED
      BY <1>s, <2>1, <2>3
  <1>6. ASSUME PollFails PROVE Stays
    BY <1>6, <1>s DEF PollFails
  <1>7. ASSUME PollEnd PROVE Stays
    BY <1>7, <1>s DEF PollEnd
  <1>8. ASSUME WritePlain PROVE FALSE
    BY <1>8 DEF WritePlain
  <1>9. ASSUME EoWriteCommitted PROVE FALSE
    BY <1>9 DEF EoWriteCommitted, AlreadyCommitted
  <1>10. ASSUME EoWrite PROVE Stays \/ Moves
    <2>1. /\ pc = "write" /\ FirstNew /\ pend = {} /\ ptok = NoToken
          /\ UNCHANGED <<st, loose, lo, pos, seq, bm, committed, outcome>>
      BY <1>10 DEF EoWrite
    <2>2. PICK S \in Taken :
            /\ IF Commits = "OnWrite"
               THEN /\ cnt' = Added(S) /\ tok' = Token(seq, pos)
                    /\ UNCHANGED buffer
               ELSE /\ pend' = pend \cup S /\ ptok' = Token(seq, pos)
                    /\ UNCHANGED <<cnt, tok>>
            /\ pc' = IF S = Page THEN "flush" ELSE "unwind"
      BY <1>10 DEF EoWrite, Settled, AfterWrite
    <2>3. S \in SUBSET Page /\ (~ShortReports => S = Page)
      BY TakenPage
    <2>4. CASE Commits = "OnWrite"
      BY <1>m, <2>1, <2>2, <2>3, <2>4
    <2>5. CASE Commits = "OnFlush"
      <3>1. pend' = S /\ ptok' = Token(seq', pos') /\ UNCHANGED <<cnt, tok>> /\ Page' = Page
        BY <2>1, <2>2, <2>5 DEF Page
      <3>2. FirstNew'
        BY <2>1, <3>1
      <3>3. Counted' /\ Unbuffered'
        BY <2>1, <2>2, <2>3, <2>5, <3>1, <3>2
      <3>4. QED
        BY <1>s, <2>1, <3>1, <3>3
    <2>6. QED
      BY <2>4, <2>5
  <1>11. ASSUME EoWriteFails PROVE Stays \/ Moves
    <2>1. /\ pc = "write" /\ FirstNew /\ pend = {} /\ ptok = NoToken
          /\ UNCHANGED <<st, loose, lo, pos, seq, bm, committed, outcome, pend, ptok>>
          /\ (pc' = "write" /\ tries' > 0) \/ pc' = "unwind"
      BY <1>11 DEF EoWriteFails, RetryOrUnwind
    <2>2. CASE UNCHANGED <<cnt, tok>>
      <3>1. Counted' /\ Unbuffered'
        BY <2>1, <2>2
      <3>2. QED
        BY <1>s, <2>1, <2>2, <3>1
    <2>3. ASSUME Commits = "OnWrite", NEW S \in Taken, cnt' = Added(S), tok' = Token(seq, pos)
          PROVE  Moves
      <3>1. S \in SUBSET Page /\ (~ShortReports => S = Page)
        BY TakenPage
      <3>2. QED
        BY <1>m, <2>1, <2>3, <3>1
    <2>4. QED
      BY <1>11, <2>2, <2>3 DEF EoWriteFails
  <1>12. ASSUME WritePoisons PROVE Stays
    BY <1>12, <1>s DEF WritePoisons
  <1>13. ASSUME Flush PROVE Stays \/ Moves
    <2>1. /\ pc = "flush" /\ pc' = "put" /\ SnapshotLands /\ pend' = {}
          /\ ptok' = IF pend # {} THEN NoToken ELSE ptok
          /\ UNCHANGED <<st, loose, lo, pos, seq, bm, committed, outcome>>
      BY <1>13 DEF Flush
    <2>2. CASE pend = {} /\ ptok = NoToken /\ seq <= tok.seq
      <3>1. UNCHANGED <<cnt, tok>>
        BY <1>e, <2>1, <2>2
      <3>2. Counted' /\ Unbuffered'
        BY <2>1, <2>2, <3>1
      <3>3. QED
        BY <1>s, <2>1, <3>1, <3>2
    <2>3. CASE FirstBuffered /\ pend = Page
      BY <1>f, <1>m, <1>p, <2>1, <2>3
    <2>4. QED
      BY <2>1, <2>2, <2>3
  <1>14. ASSUME FlushFails PROVE Stays \/ Moves
    <2>1. /\ pc = "flush" /\ pc' \in {"flush", "unwind"}
          /\ UNCHANGED <<st, loose, lo, pos, seq, bm, committed, outcome>>
      BY <1>14 DEF FlushFails, RetryOrUnwind
    <2>2. CASE UNCHANGED <<cnt, tok>>
      <3>1. \/ pc' = "unwind" /\ pend' = {} /\ ptok' = NoToken
            \/ Commits = "OnWrite" /\ UNCHANGED <<pend, ptok>>
        BY <1>14 DEF FlushFails
      <3>2. Counted' /\ Unbuffered'
        BY <2>1, <2>2, <3>1
      <3>3. QED
        BY <1>s, <2>1, <2>2, <3>2
    <2>3. CASE SnapshotLands /\ pend' = {} /\ ptok' = NoToken /\ pc' = "unwind"
      <3>1. CASE pend = {}
        BY <1>e, <2>2, <2>3, <3>1
      <3>2. CASE FirstBuffered /\ pend = Page /\ pend # {}
        BY <1>f, <1>m, <2>1, <2>3, <3>2
      <3>3. QED
        BY <2>1, <3>1, <3>2
    <2>4. QED
      BY <1>14, <2>2, <2>3 DEF FlushFails, MayLand
  <1>15. ASSUME Put PROVE Stays
    <2>1. /\ pc = "put" /\ st' = [bm |-> pos, seq |-> seq] /\ pc' \in {"poll", "put", "unwind"}
          /\ UNCHANGED <<cnt, tok, outcome, pend, ptok, lo, pos, seq, bm, committed, loose>>
      BY <1>15 DEF Put, RetryOrUnwind
    <2>2. Counted' /\ Unbuffered'
      BY <2>1
    <2>3. st'.seq <= tok'.seq /\ st'.bm = PagesUpTo(st'.seq)
      BY <2>1
    <2>4. QED
      BY <1>t, <2>1, <2>2, <2>3 DEF Legacy, Stays, Durable, NoDuplicate
  <1>16. ASSUME PutFails PROVE Stays
    BY <1>16, <1>s DEF PutFails, RetryOrUnwind
  <1>17. ASSUME Unwind PROVE Stays \/ Moves
    <2>1. /\ pc = "unwind" /\ pc' = "idle" /\ pend' = {} /\ ptok' = NoToken
          /\ UNCHANGED <<st, loose>>
      BY <1>17 DEF Unwind, EndRun
    <2>2. CASE UNCHANGED <<cnt, tok>>
      BY <1>s, <2>1, <2>2
    <2>3. CASE SnapshotLands
      <3>1. CASE pend = {}
        BY <1>e, <2>2, <2>3, <3>1
      <3>2. CASE ShortReports /\ FirstBuffered /\ pend # {}
        BY <1>f, <1>m, <2>1, <2>3, <3>2
      <3>3. QED
        BY <2>1, <3>1, <3>2
    <2>4. QED
      BY <1>17, <2>2, <2>3 DEF Unwind, MayLand
  <1>18. ASSUME Finish PROVE Stays
    <2>1. UNCHANGED <<cnt, tok>>
      BY <1>18, <1>e DEF Finish, MayLand
    <2>2. QED
      BY <1>18, <1>s, <2>1 DEF Finish, EndRun
  <1>19. ASSUME UNCHANGED vars PROVE Stays
    BY <1>19, <1>s, <1>k DEF vars
  <1>q. QED
    BY <1>1, <1>2, <1>3, <1>4, <1>5, <1>6, <1>7, <1>8, <1>9, <1>10, <1>11, <1>12, <1>13, <1>14,
       <1>15, <1>16, <1>17, <1>18, <1>19 DEF Next, Stays, Moves
-------------------------------------------------------------------------------
(* The inductive invariant: what the two anchors (state store, watermark) and the
   run's position claim, at every await of the loop, whatever the pipeline began
   with. *)
THEOREM Invariant == Spec => []XInv
  <1>1. Init => XInv
    BY EInvInit, LegacyInit DEF XInv
  <1>2. XInv /\ [Next]_vars => XInv'
    BY EInvStep, LegacyStep DEF XInv
  <1>3. QED
    BY <1>1, <1>2, PTL DEF Spec

(* Exactly once: no row lands twice under a token, for either kind of sink,
   however often the run crashes, the state is lost, a commit is ambiguous or a
   write takes only a part of its page. *)
THEOREM ExactlyOnceDelivery == Spec => []NoDuplicate
  <1>1. XInv => NoDuplicate
    BY DEF XInv, EInv, Core, Legacy
  <1>2. QED
    BY <1>1, Invariant, PTL

(* I1: a resumed run never starts past a row the sink does not have, whichever of
   its two anchors it starts from, if every write takes its whole page. *)
THEOREM ResumeIsCovered == ASSUME ~ShortReports PROVE Spec => []ResumeCovered
  <1>1. XInv => ResumeCovered
    BY LegacyClaims DEF XInv, EInv, Core, Covered, Reached, ResumeCovered
  <1>2. QED
    BY <1>1, Invariant, PTL
-------------------------------------------------------------------------------
(* No step takes a row, a resume position or a watermark back. *)
Forwards ==
  /\ Durable \subseteq Durable'
  /\ StartAt <= StartAt'
  /\ tok.seq <= tok'.seq

(* Every step of a run, its ends and a loss of the state store included, goes
   forwards in all three. *)
LEMMA OnlyForwards ==
  ASSUME EInv, [Next]_vars
  PROVE  Forwards
  <1>n. /\ StartAt \in 0..N /\ lo \in 0..N /\ pos \in 0..N /\ N \in Nat
        /\ tok.seq \in Nat /\ ptok.seq \in Nat /\ seq \in Nat
    BY StartAtType, ExactlyOnceAssumption DEF EInv, TypeOK, Tokens
  <1>s. ASSUME UNCHANGED <<cnt, tok, st, loose>> PROVE Forwards
    BY <1>n, <1>s, CoreStays DEF EInv, Forwards
  <1>l. ASSUME SnapshotLands, UNCHANGED <<st, loose>> PROVE Forwards
    <2>1. /\ Durable \subseteq Durable' /\ StartAt' >= StartAt
      BY <1>l, SnapshotKeepsCore DEF EInv
    <2>2. tok'.seq >= tok.seq
      BY <1>l, <1>n DEF SnapshotLands
    <2>3. StartAt' \in 0..N
      <3>1. TypeOK'
        BY TypeStep DEF EInv
      <3>2. QED
        BY <3>1 DEF TypeOK, Tokens, StartAt, Reanchored
    <2>4. QED
      BY <1>n, <2>1, <2>2, <2>3 DEF Forwards
  <1>c. ASSUME pc = "write", bm, ~AlreadyCommitted, Commits = "OnWrite",
               NEW S \in Taken, cnt' = Added(S), tok' = Token(seq, pos), UNCHANGED <<st, loose>>
        PROVE  Forwards
    <2>0. pend = {} /\ Reached(lo, Durable \cup pend)
      BY <1>c DEF EInv, Located, Buffered
    <2>1. tok.seq < seq /\ StartAt <= lo /\ lo <= pos /\ Reached(lo, Durable)
      BY <1>c, <1>n, <2>0
         DEF EInv, TypeOK, Located, Numbered, Reached, AlreadyCommitted, Token
    <2>2. Durable \subseteq Durable' /\ StartAt' = pos
      BY <1>c, <2>1, TakenPage, CommitKeepsCore DEF EInv
    <2>3. QED
      BY <1>n, <1>c, <2>1, <2>2 DEF Forwards, Token
  <1> USE DEF durable, buffer
  <1>1. CASE StartRun
    BY <1>1, <1>s DEF StartRun
  <1>2. CASE Crash
    BY <1>2, <1>s DEF Crash
  <1>3. CASE Cancel
    BY <1>3, <1>s DEF Cancel
  <1>4. CASE LoseState
    <2>1. tok.anchored /\ StartAt = tok.bm
      BY <1>4 DEF LoseState, EInv, Core, Anchored, NoToken
    <2>2. StartAt' = StartAt /\ Durable' = Durable
      BY <1>4, <2>1 DEF LoseState, StartAt, Reanchored, Durable
    <2>3. QED
      BY <1>n, <1>4, <2>2 DEF LoseState, Forwards
  <1>5. CASE Poll
    BY <1>5, <1>s DEF Poll
  <1>6. CASE PollFails
    BY <1>6, <1>s DEF PollFails
  <1>7. CASE PollEnd
    BY <1>7, <1>s DEF PollEnd
  <1>8. CASE WritePlain
    <2>1. PICK S \in SUBSET Page :
            loose' = loose \cup S /\ (cnt' = Added(S) \/ cnt' = cnt)
      BY <1>8, TakenPage DEF WritePlain
    <2>2. S \in SUBSET Rows /\ UNCHANGED <<tok, st>>
      BY <1>8, TakenType DEF WritePlain, EInv
    <2>3. StartAt' = StartAt /\ Durable \subseteq Durable'
      BY <2>1, <2>2, PlainKeepsCore DEF EInv
    <2>4. QED
      BY <1>n, <2>2, <2>3 DEF Forwards
  <1>9. CASE EoWriteCommitted
    BY <1>9, <1>s DEF EoWriteCommitted, AfterWrite
  <1>10. CASE EoWrite
    BY <1>10, <1>c, <1>s DEF EoWrite
  <1>11. CASE EoWriteFails
    BY <1>11, <1>c, <1>s DEF EoWriteFails
  <1>12. CASE WritePoisons
    BY <1>12, <1>s DEF WritePoisons
  <1>13. CASE Flush
    BY <1>13, <1>l DEF Flush
  <1>14. CASE FlushFails
    BY <1>14, <1>l, <1>s DEF FlushFails, MayLand
  <1>15. CASE Put
    <2>1. /\ pc = "put" /\ st' = [bm |-> pos, seq |-> seq] /\ UNCHANGED <<cnt, tok>>
          /\ tok.seq <= seq /\ StartAt <= pos
      BY <1>15 DEF Put, EInv, Numbered, Located
    <2>2. StartAt' = pos /\ Durable' = Durable
      BY <1>n, <2>1 DEF StartAt, Reanchored, Durable
    <2>3. QED
      BY <1>n, <2>1, <2>2 DEF Forwards
  <1>16. CASE PutFails
    BY <1>16, <1>s DEF PutFails
  <1>17. CASE Unwind
    BY <1>17, <1>l, <1>s DEF Unwind, MayLand
  <1>18. CASE Finish
    BY <1>18, <1>l, <1>s DEF Finish, MayLand
  <1>19. CASE UNCHANGED vars
    BY <1>19, <1>s DEF vars
  <1>q. QED
    BY <1>1, <1>2, <1>3, <1>4, <1>5, <1>6, <1>7, <1>8, <1>9, <1>10, <1>11, <1>12, <1>13, <1>14,
       <1>15, <1>16, <1>17, <1>18, <1>19 DEF Next

(* A watermark that carries its position is where the next run starts: it skips
   nothing. *)
LEMMA NothingToSkip == EInv => Resumes = StartAt
  BY DEF EInv, TypeOK, Core, Anchored, Resumes, NoToken

(* The position from which the next run writes is one of the source, and no row up
   to it is missing. *)
Promises ==
  /\ Resumes \in 0..N /\ Reached(Resumes, Durable)
  /\ EInv => Resumes = StartAt
  /\ Legacy => Resumes = PagesUpTo(tok.seq)

(* At rest and between any two steps of a run. *)
LEMMA Promised == XInv => Promises
  <1> SUFFICES ASSUME XInv PROVE Promises
    OBVIOUS
  <1>1. CASE EInv
    <2>1. Resumes = StartAt /\ StartAt \in 0..N /\ Reached(StartAt, Durable)
      BY <1>1, NothingToSkip, StartAtType DEF EInv, Core, Covered
    <2>2. ~Legacy
      BY <1>1 DEF EInv, Core, Anchored, Legacy, TypeOK, Tokens, NoToken
    <2>3. QED
      BY <2>1, <2>2 DEF Promises
  <1>2. CASE Legacy
    <2>1. Resumes = PagesUpTo(tok.seq) /\ Resumes \in 0..N /\ Reached(Resumes, Durable)
      BY <1>2, LegacyClaims DEF Legacy, Reached
    <2>2. ~EInv
      BY <1>2 DEF EInv, Core, Anchored, Legacy, TypeOK, Tokens, NoToken
    <2>3. QED
      BY <2>1, <2>2 DEF Promises
  <1>3. QED
    BY <1>1, <1>2 DEF XInv

(* And so after a step. *)
LEMMA StillPromised == XInv' => Promises'
  BY Promised, PTL

(* No step takes that position, a row or the watermark back. *)
LEMMA NothingTakenBack ==
  ASSUME XInv, [Next]_vars
  PROVE  /\ Durable \subseteq Durable' /\ Resumes <= Resumes' /\ tok.seq <= tok'.seq
         /\ Resumes' \in 0..N /\ Reached(Resumes', Durable')
  <1>1. XInv' /\ TypeOK' /\ tok.seq \in Nat /\ tok'.seq \in Nat
    BY EInvStep, LegacyStep, TypeStep DEF XInv, EInv, Legacy, TypeOK, Tokens
  <1>2. Resumes' \in 0..N /\ Reached(Resumes', Durable')
    BY <1>1, StillPromised DEF Promises, Reached
  <1>3. EInv' => Resumes' = StartAt'
    BY <1>1, StillPromised DEF Promises
  <1>4. CASE EInv
    BY <1>2, <1>3, <1>4, EInvStep, OnlyForwards, NothingToSkip DEF Forwards
  <1>5. CASE Legacy
    <2>1. Resumes = PagesUpTo(tok.seq) /\ Resumes \in 0..N
      BY <1>5, LegacyClaims
    <2>2. CASE Legacy' /\ UNCHANGED <<cnt, tok>>
      <3>1. Resumes' = PagesUpTo(tok.seq)' /\ PagesUpTo(tok.seq)' = PagesUpTo(tok.seq)
        BY <1>1, <2>2, StillPromised DEF Promises, PagesUpTo
      <3>2. QED
        BY <1>1, <1>2, <2>1, <2>2, <3>1 DEF Durable
    <2>3. CASE /\ EInv' /\ Durable \subseteq Durable' /\ tok'.seq = tok.seq + 1
               /\ PagesUpTo(tok.seq) <= StartAt'
      BY <1>1, <1>2, <1>3, <2>1, <2>3
    <2>4. QED
      BY <1>5, <2>2, <2>3, LegacyStep
  <1>6. QED
    BY <1>4, <1>5 DEF XInv

(* The sink's watermark is monotonic: no later page can be taken for one that is
   already committed, not even one that a short write left incomplete. *)
THEOREM WatermarkIsMonotonic == Spec => WatermarkMonotonic
  <1>1. ASSUME XInv, [Next]_vars PROVE [tok'.seq >= tok.seq]_vars
    <2>1. tok.seq <= tok'.seq /\ tok.seq \in Nat /\ tok'.seq \in Nat
      BY <1>1, NothingTakenBack, TypeStep DEF XInv, EInv, Legacy, TypeOK, Tokens
    <2>2. QED
      BY <2>1
  <1>2. QED
    BY <1>1, Invariant, PTL DEF Spec, WatermarkMonotonic

(* I1, I4: exactly-once delivery implements Delivery, with the position the next
   run writes again from as its checkpoint. *)
THEOREM ExactlyOnceImplementsDelivery == ASSUME ~ShortReports PROVE Spec => ImplementsDelivery
  <1>1. Init => Promise!Init
    <2> SUFFICES ASSUME Init PROVE Promise!Init
      OBVIOUS
    <2>1. XInv
      BY EInvInit, LegacyInit DEF XInv
    <2>2. QED
      BY <2>1, Promised DEF Promises, Reached, Durable, Rows, Promise!Init, Promise!Rows
  <1>2. ASSUME XInv, [Next]_vars PROVE [Promise!Next]_(Promise!vars)
    <2>1. Resumes \in 0..N
      BY <1>2, Promised DEF Promises
    <2>2. /\ Resumes' \in Resumes..N /\ 1..Resumes' \subseteq Durable'
          /\ Durable' = Durable \cup Durable' /\ Durable' \in SUBSET Promise!Rows
      BY <1>2, <2>1, NothingTakenBack, ExactlyOnceAssumption
         DEF Reached, Durable, Rows, Promise!Rows
    <2>3. Promise!Advance
      <3>1. {} = {} \cup {} /\ {} \in SUBSET Promise!Rows
            /\ 1..Resumes' \subseteq Durable' \cup {}
        BY <2>2
      <3>2. QED
        BY <2>2, <3>1 DEF Promise!Advance
    <2>4. QED
      BY <2>3 DEF Promise!Next
  <1>3. QED
    BY <1>1, <1>2, Invariant, PTL DEF Spec, ImplementsDelivery, Promise!Spec

(* A run that returns Ok has every row it went past in the sink, the pages it skipped
   included. *)
THEOREM OkRunsAreDurable == ASSUME ~ShortReports PROVE Spec => OkRunIsDurable
  <1>1. ASSUME XInv, [Next]_vars
        PROVE  [outcome' = "ok" /\ pc # "idle" => 1..pos \subseteq Durable']_vars
    <2> SUFFICES ASSUME Next, outcome' = "ok", pc # "idle" PROVE 1..pos \subseteq Durable'
      BY <1>1
    <2>0. outcome = "running"
      BY <1>1 DEF XInv, EInv, Numbered, Legacy, Counted
    <2>1. pc = "finish" /\ SnapshotLands /\ UNCHANGED <<st, loose>>
      BY <2>0 DEF Next, durable, StartRun, Crash, EndRun, Cancel, LoseState,
         Poll, PollFails, PollEnd, WritePlain, EoWriteCommitted, EoWrite, EoWriteFails,
         WritePoisons, Flush, FlushFails, Put, PutFails, Unwind, Finish
    <2>2. CASE EInv
      <3>1. Durable' = Durable \cup pend
        BY <2>1, <2>2, SnapshotKeepsCore DEF EInv
      <3>2. QED
        BY <2>1, <2>2, <3>1 DEF EInv, Located, Reached
    <2>3. CASE Legacy
      <3>1. 1..pos \subseteq Durable
        BY <2>1, <2>3, LegacyClaims DEF Legacy, Counted
      <3>2. Durable \subseteq Durable'
        BY <1>1, NothingTakenBack
      <3>3. QED
        BY <3>1, <3>2
    <2>4. QED
      BY <1>1, <2>2, <2>3 DEF XInv
  <1>2. QED
    BY <1>1, Invariant, PTL DEF Spec, OkRunIsDurable
===============================================================================
