------------------------- MODULE CompleteReadProofs -------------------------
(***************************************************************************)
(* For any keys, items, ceiling, changes and faults, a retention that       *)
(* outlasts the runs and either value of resnapshot_deletes: the stored     *)
(* position never passes what the destination holds.                        *)
(***************************************************************************)
EXTENDS CompleteRead, FiniteSetTheorems, TLAPS

Events == [key : Keys, item : Row]
Controls == {"idle", "scan", "open", "read", "page", "last", "settle", "release"}

\* The position a bookmark claims; no bookmark claims what has not happened.
Pos(b) == IF b.seq = 0 THEN b.seen ELSE b.seq
Positions == \A b \in {stored, bm} \cup held : Pos(b) <= Len(log)

\* The iterator of a run starts at its bookmark, so the types rest on the positions.
TInv == TypeOK /\ Positions

-----------------------------------------------------------------------------
(* Types. *)

\* Record, Put and the end of a run keep the types of what they change.
LEMMA RecordTypes ==
  ASSUME TypeOK, NEW k \in Keys, Record(k)
  PROVE  /\ tracked' \subseteq Keys /\ Cardinality(tracked') <= MaxKeys
         /\ overflowed' \in BOOLEAN
  <1> USE CompleteReadAssumption
  <1>1. IsFiniteSet(tracked) /\ Cardinality(tracked) \in Nat
    BY FS_Subset, FS_CardinalityType DEF TypeOK
  <1>2. CASE UNCHANGED <<tracked, overflowed>>
    BY <1>2 DEF TypeOK
  <1>3. CASE overflowed' = TRUE /\ tracked' = {}
    BY <1>3, FS_EmptySet
  <1>4. CASE ~Full /\ k \notin tracked /\ tracked' = tracked \cup {k} /\ UNCHANGED overflowed
    <2>1. Cardinality(tracked') = Cardinality(tracked) + 1
      BY <1>1, <1>4, FS_AddElement
    <2> QED
      BY <1>1, <1>4, <2>1 DEF TypeOK, Full
  <1> QED
    BY <1>2, <1>3, <1>4 DEF Record

LEMMA HeldTypes ==
  ASSUME NEW b \in Bookmarks
  PROVE  {b} \subseteq Bookmarks /\ Cardinality({b}) <= 1
  BY FS_Singleton

LEMMA PutTypes ==
  ASSUME TypeOK, Put(bm)
  PROVE  /\ stored' \in Bookmarks /\ midway' \in BOOLEAN
         /\ held' \subseteq Bookmarks /\ Cardinality(held') <= 1
         /\ stored' \in {stored, bm} /\ held' \subseteq held \cup {bm}
  <1>1. CASE Holds
    BY <1>1, HeldTypes DEF TypeOK, Put
  <1>2. CASE ~Holds
    BY <1>2 DEF TypeOK, Put
  <1> QED
    BY <1>1, <1>2

LEMMA EndRunTypes ==
  ASSUME EndRun
  PROVE  /\ pc' \in Controls /\ signal' \in {"Partial", "Reading", "Complete"}
         /\ bm' \in Bookmarks /\ Pos(bm') = 0 /\ cursor' = 0 /\ toScan' \subseteq Keys
         /\ tracked' \subseteq Keys /\ Cardinality(tracked') <= MaxKeys
         /\ overflowed' \in BOOLEAN /\ cancelled' \in BOOLEAN
         /\ held' = {} /\ held' \subseteq Bookmarks /\ Cardinality(held') <= 1
  <1>1. Cardinality({}) = 0
    BY FS_EmptySet
  <1>2. Opened(0) \in Bookmarks /\ Pos(Opened(0)) = 0
    BY DEF Opened, Bookmarks, Pos
  <1>3. /\ pc' = "idle" /\ signal' = "Partial" /\ bm' = Opened(0) /\ cursor' = 0
        /\ toScan' = {} /\ tracked' = {} /\ held' = {} /\ ~overflowed' /\ ~cancelled'
        /\ overflowed' \in BOOLEAN /\ cancelled' \in BOOLEAN
    BY DEF EndRun
  <1>4. Cardinality(tracked') <= MaxKeys /\ Cardinality(held') <= 1
    BY <1>1, <1>3, CompleteReadAssumption
  <1> QED
    BY <1>2, <1>3, <1>4 DEF Controls

LEMMA TypeInit == Init => TInv
  <1> SUFFICES ASSUME Init PROVE TInv
    OBVIOUS
  <1>1. Cardinality({}) = 0
    BY FS_EmptySet
  <1>2. Opened(0) \in Bookmarks /\ Pos(Opened(0)) = 0
    BY DEF Opened, Bookmarks, Pos
  <1>3. log = <<>> /\ log \in Seq(Events) /\ Len(log) = 0
    BY DEF Init
  <1>4. TypeOK
    <2>1. tracked = {} /\ held = {}
      BY DEF Init
    <2>2. Cardinality(tracked) <= MaxKeys /\ Cardinality(held) <= 1
      BY <1>1, <2>1, CompleteReadAssumption
    <2>3. /\ overflowed \in BOOLEAN /\ cancelled \in BOOLEAN
          /\ gaveUp \in BOOLEAN /\ midway \in BOOLEAN
      BY DEF Init
    <2>4. /\ table \in [Keys -> Row] /\ dest \in [Keys -> Row]
          /\ horizon \in 0..Len(log) /\ cursor \in 0..Len(log) /\ faults \in 0..MaxFaults
      BY <1>3, CompleteReadAssumption DEF Init
    <2>5. /\ stored \in Bookmarks /\ bm \in Bookmarks /\ deletes \in Deletions
          /\ pc \in Controls /\ signal \in {"Partial", "Reading", "Complete"}
          /\ toScan \subseteq Keys /\ tracked \subseteq Keys /\ held \subseteq Bookmarks
      BY <1>2 DEF Init, Controls
    <2> QED
      BY <1>3, <2>2, <2>3, <2>4, <2>5 DEF TypeOK, Events, Controls
  <1> QED
    BY <1>2, <1>3, <1>4 DEF Init, TInv, Positions

LEMMA TypeStep == TInv /\ [Next]_vars => TInv'
  <1> SUFFICES ASSUME TInv, [Next]_vars
               PROVE  TInv'
    OBVIOUS
  <1> USE CompleteReadAssumption DEF TInv
  <1>0. Len(log) \in Nat /\ Pos(stored) \in Nat /\ Pos(bm) \in Nat
    BY DEF TypeOK, Pos, Bookmarks
  <1>1. ASSUME NEW k \in Keys, NEW v \in Row, Change(k, v)
        PROVE  TInv'
    <2>1. log' \in Seq(Events) /\ Len(log') = Len(log) + 1
      BY <1>1 DEF Change, TypeOK, Events
    <2>2. TypeOK'
      BY <1>1, <2>1 DEF Change, TypeOK, Events, run, hist
    <2>3. \A b \in Bookmarks : Pos(b) \in Nat
      BY DEF Bookmarks, Pos
    <2>4. UNCHANGED <<stored, bm, held>>
      BY <1>1 DEF Change, run
    <2>5. \A b \in {stored, bm} \cup held : b \in Bookmarks /\ Pos(b) <= Len(log)
      BY DEF TypeOK, Positions
    <2>6. Positions'
      BY <1>0, <2>1, <2>3, <2>4, <2>5 DEF Positions
    <2> QED
      BY <2>2, <2>6
  <1>2. CASE Trim
    BY <1>0, <1>2 DEF Trim, TypeOK, Positions, run, hist
  <1>3. CASE StartRun
    <2>1. Opened(Len(log)) \in Bookmarks /\ Pos(Opened(Len(log))) = Len(log)
      BY <1>0 DEF Opened, Bookmarks, Pos
    <2>2. bm' \in {Opened(Len(log)), stored}
      BY <1>3 DEF StartRun
    <2>3. TypeOK'
      BY <1>3, <2>1, <2>2 DEF StartRun, TypeOK, service, hist
    <2>4. Positions'
      BY <1>0, <1>3, <2>1, <2>2 DEF StartRun, Positions, service
    <2> QED
      BY <2>3, <2>4
  <1>4. ASSUME NEW k \in Keys, Scan(k)
        PROVE  TInv'
    <2>1. /\ tracked' \subseteq Keys /\ Cardinality(tracked') <= MaxKeys
          /\ overflowed' \in BOOLEAN
      BY <1>4, RecordTypes DEF Scan, TypeOK
    <2>2. TypeOK'
      BY <1>4, <2>1 DEF Scan, TypeOK, service, hist
    <2> QED
      BY <1>4, <2>2 DEF Scan, Positions, service
  <1>5. CASE EndScan
    <2>1. /\ stored' \in Bookmarks /\ midway' \in BOOLEAN
          /\ held' \subseteq Bookmarks /\ Cardinality(held') <= 1
          /\ stored' \in {stored, bm} /\ held' \subseteq held \cup {bm}
      BY <1>5, PutTypes DEF EndScan
    <2>2. TypeOK'
      BY <1>5, <2>1 DEF EndScan, TypeOK, service
    <2> QED
      BY <1>5, <2>1, <2>2 DEF EndScan, Positions, service
  <1>6. CASE Open
    <2>1. cursor' \in 0..Len(log)
      BY <1>0, <1>6 DEF Open, StartFor, TypeOK, Positions, Pos, Bookmarks
    <2>2. TypeOK'
      BY <1>6, <2>1 DEF Open, TypeOK, service, hist
    <2> QED
      BY <1>6, <2>2 DEF Open, Positions, service
  <1>7. CASE Read
    <2> DEFINE e == log[cursor + 1]
    <2>1. e \in Events /\ cursor + 1 \in 1..Len(log)
      <3>1. log \in Seq(Events) /\ cursor \in Nat /\ cursor < Len(log)
        BY <1>0, <1>7 DEF Read, TypeOK, Events
      <3> QED
        BY <1>0, <3>1
    <2>2. After(cursor + 1) \in Bookmarks /\ Pos(After(cursor + 1)) = cursor + 1
      BY <1>0, <2>1 DEF After, Bookmarks, Pos
    <2>3. dest' \in [Keys -> Row]
      BY <1>7, <2>1 DEF Read, TypeOK, Events
    <2>4. /\ tracked' \subseteq Keys /\ Cardinality(tracked') <= MaxKeys
          /\ overflowed' \in BOOLEAN
      BY <1>7, <2>1, RecordTypes DEF Read, Events
    <2>5. TypeOK'
      BY <1>7, <2>1, <2>2, <2>3, <2>4 DEF Read, TypeOK, service
    <2>6. Positions'
      BY <1>7, <2>1, <2>2 DEF Read, Positions, service
    <2> QED
      BY <2>5, <2>6
  <1>8. CASE Checkpoint
    <2>1. /\ stored' \in Bookmarks /\ midway' \in BOOLEAN
          /\ held' \subseteq Bookmarks /\ Cardinality(held') <= 1
          /\ stored' \in {stored, bm} /\ held' \subseteq held \cup {bm}
      BY <1>8, PutTypes DEF Checkpoint
    <2>2. TypeOK'
      BY <1>8, <2>1 DEF Checkpoint, TypeOK, service
    <2> QED
      BY <1>8, <2>1, <2>2 DEF Checkpoint, Positions, service
  <1>9. CASE CaughtUp
    <2>1. Opened(Len(log)) \in Bookmarks /\ Pos(Opened(Len(log))) = Len(log)
      BY <1>0 DEF Opened, Bookmarks, Pos
    <2>2. bm' \in {Opened(Len(log)), bm}
      BY <1>9 DEF CaughtUp
    <2>3. TypeOK'
      BY <1>9, <2>1, <2>2 DEF CaughtUp, TypeOK, service, hist
    <2>4. Positions'
      BY <1>0, <1>9, <2>1, <2>2 DEF CaughtUp, Positions, service
    <2> QED
      BY <2>3, <2>4
  <1>10. CASE Cancel \/ Stop \/ IdleOut
    <2>1. cancelled' \in BOOLEAN /\ faults' \in 0..MaxFaults /\ pc' \in Controls
      <3>1. cancelled' \in BOOLEAN
        BY <1>10 DEF Cancel, Stop, IdleOut, TypeOK
      <3>2. faults' \in 0..MaxFaults
        BY <1>10 DEF Cancel, Stop, IdleOut, Fault, TypeOK
      <3>3. pc' \in Controls
        BY <1>10 DEF Cancel, Stop, IdleOut, TypeOK, Controls
      <3> QED
        BY <3>1, <3>2, <3>3
    <2>2. TypeOK'
      BY <1>10, <2>1 DEF Cancel, Stop, IdleOut, TypeOK, Controls, service, hist
    <2>3. Positions'
      BY <1>10 DEF Cancel, Stop, IdleOut, Positions, service
    <2> QED
      BY <2>2, <2>3
  <1>11. CASE Refuse
    BY <1>11 DEF Refuse, TypeOK, Positions, service
  <1>12. CASE Cleanup
    <2>1. dest' \in [Keys -> Row]
      BY <1>12 DEF Cleanup, TypeOK, Row
    <2> QED
      BY <1>12, <2>1 DEF Cleanup, TypeOK, Positions, service
  <1>13. ASSUME EndRun, stored' \in {stored} \cup held, dest' \in [Keys -> Row],
                UNCHANGED <<service, deletes, gaveUp>>, midway' \in BOOLEAN,
                faults' \in 0..MaxFaults
         PROVE  TInv'
    <2>1. stored' \in Bookmarks /\ Pos(stored') <= Len(log)
      BY <1>13 DEF TypeOK, Positions
    <2>2. TypeOK'
      BY <1>0, <1>13, <2>1, EndRunTypes DEF TypeOK, Controls, service
    <2>3. Positions'
      BY <1>0, <1>13, <2>1, EndRunTypes DEF Positions, service
    <2> QED
      BY <2>2, <2>3
  <1>14. CASE TrimmedUnderfoot \/ SkipCleanup \/ Fail
    BY <1>13, <1>14 DEF TrimmedUnderfoot, SkipCleanup, Fail, Fault, TypeOK, hist
  <1>15. CASE CleanupFails
    <2>1. dest' \in [Keys -> Row]
      BY <1>15 DEF CleanupFails, TypeOK, Row
    <2> QED
      BY <1>13, <1>15, <2>1 DEF CleanupFails, Fault, TypeOK, hist
  <1>16. CASE Release
    <2>1. stored' \in {stored} \cup held
      BY <1>16 DEF Release, Released
    <2> QED
      BY <1>13, <1>16, <2>1 DEF Release, TypeOK
  <1>17. CASE UNCHANGED vars
    BY <1>17 DEF vars, service, run, hist, TypeOK, Positions
  <1> QED
    BY <1>1, <1>2, <1>3, <1>4, <1>5, <1>6, <1>7, <1>8, <1>9, <1>10, <1>11, <1>12, <1>14, <1>15,
       <1>16, <1>17 DEF Next, RunStep

\* Every reachable state is well typed; in particular the keys that are tracked never pass
\* resnapshot_max_keys, and at most one bookmark is held (cleanup.rs, SeenKeys and
\* HoldingStateStore).
THEOREM TypeCorrect == Spec => []TypeOK
  <1>1. TInv => TypeOK
    BY DEF TInv
  <1> QED
    BY <1>1, TypeInit, TypeStep, PTL DEF Spec

-----------------------------------------------------------------------------
(* What follows a position in the stream. *)

Follows(l, k, n) == \E m \in (n + 1)..Len(l) : l[m].key = k

LEMMA FollowsEarlier ==
  ASSUME NEW l \in Seq(Events), NEW k, NEW m \in Nat, NEW n \in Nat, m <= n, Follows(l, k, n)
  PROVE  Follows(l, k, m)
  BY DEF Follows

LEMMA FollowsNext ==
  ASSUME NEW l \in Seq(Events), NEW k, NEW n \in 0..Len(l), n < Len(l), l[n + 1].key # k,
         Follows(l, k, n)
  PROVE  Follows(l, k, n + 1)
  <1>1. PICK m \in (n + 1)..Len(l) : l[m].key = k
    BY DEF Follows
  <1>2. m \in (n + 2)..Len(l)
    BY <1>1
  <1> QED
    BY <1>1, <1>2 DEF Follows

LEMMA FollowsAt ==
  ASSUME NEW l \in Seq(Events), NEW n \in Nat, NEW m \in 1..Len(l), n < m
  PROVE  Follows(l, l[m].key, n)
  BY DEF Follows

LEMMA FollowsAppend ==
  ASSUME NEW l \in Seq(Events), NEW e \in Events, NEW n \in Nat
  PROVE  /\ \A k : Follows(l, k, n) => Follows(Append(l, e), k, n)
         /\ n <= Len(l) => Follows(Append(l, e), e.key, n)
  <1>1. /\ Len(Append(l, e)) = Len(l) + 1 /\ Append(l, e)[Len(l) + 1] = e
        /\ \A m \in 1..Len(l) : Append(l, e)[m] = l[m]
    OBVIOUS
  <1>2. \A m \in (n + 1)..Len(l) : m \in 1..Len(l) /\ m \in (n + 1)..Len(Append(l, e))
    BY <1>1
  <1>3. n <= Len(l) => Len(l) + 1 \in (n + 1)..Len(Append(l, e))
    BY <1>1
  <1> QED
    BY <1>1, <1>2, <1>3 DEF Follows

-----------------------------------------------------------------------------
(* The invariant. *)

\* The destination is right about k, or a change past position n will put it right.
OkAt(k, n) == dest[k] = table[k] \/ Follows(log, k, n)

\* The table is what the stream made it.
Logged ==
  \A n \in 1..Len(log) : \/ table[log[n].key] = log[n].item
                         \/ Follows(log, log[n].key, n)

\* Where the next run resumes, and what the stored position answers for.  A replay from
\* the trim horizon that was cut short takes an empty position back to the horizon.
StoredPos == IF stored.seq = 0 /\ midway THEN horizon ELSE Pos(stored)
Covers(k) == table[k] # Absent \/ (deletes /\ ~gaveUp)
StoredHolds == ~Trimmed(stored) => \A k \in Keys : Covers(k) => OkAt(k, StoredPos)

\* The scan of a run, what follows it, and the part of that where the bookmark and the
\* iterator agree.
Scanned == pc = "scan" \/ (pc = "open" /\ signal = "Complete")
Behind == pc \in {"page", "last", "release"} \/ (pc = "settle" /\ ~cancelled)

\* A run without a scan that is about to put the position it started from answers for
\* nothing.
Idled == pc \in {"last", "settle"} /\ signal = "Partial" /\ bm = stored
Reading == (pc = "read" \/ Behind) /\ ~Idled

\* The position a run has read up to, and what it answers for: a complete read, for what
\* it has tracked; once it has cleaned up, for every key.  Until it reads a change, a
\* complete read answers for the position it captured, wherever its iterator starts.
Here == IF signal # "Partial" /\ bm.seq = 0 THEN bm.seen ELSE cursor
RunCovers(k) ==
  \/ table[k] # Absent
  \/ deletes /\ signal = "Partial" /\ ~gaveUp
  \/ deletes /\ signal # "Partial" /\ (k \in tracked \/ (pc = "release" /\ ~gaveUp))

RunHolds ==
  (Scanned \/ Reading) => \A k \in Keys \ toScan : RunCovers(k) => OkAt(k, Here)

\* What a cleanup would delete is gone, or comes back with a change that is yet to be read.
Unseen ==
  ((Scanned \/ Reading) /\ deletes /\ signal # "Partial" /\ ~overflowed) =>
    \A k \in Keys \ (toScan \cup tracked) : table[k] = Absent \/ Follows(log, k, Here)

\* The phases of a run.
Control ==
  /\ pc = "idle" => signal = "Partial" /\ toScan = {} /\ tracked = {}
  /\ pc = "scan" => signal = "Reading"
  /\ (pc \in {"open", "read"} \/ Behind) => signal # "Reading" /\ toScan = {}
  /\ pc = "release" => deletes /\ signal = "Complete"
  /\ (pc = "release" \/ (pc = "settle" /\ MayCleanUp)) => held = {bm}
  /\ tracked \cap toScan = {}

\* The stored position, the bookmark of the run and its iterator are in order.
Placed ==
  /\ Scanned => /\ bm.seq = 0 /\ cursor <= bm.seen
                /\ stored.seq > 0 => Trimmed(stored)
                /\ stored.seq = 0 => stored.seen <= bm.seen
  /\ (pc = "open" /\ signal = "Partial") => stored = bm
  /\ Reading => /\ bm.seq > 0 => bm.seq = cursor
                /\ (stored.seq > 0 /\ ~Trimmed(stored)) => stored.seq <= cursor
                /\ (stored.seq = 0 /\ midway) => horizon <= Here
                /\ (stored.seq = 0 /\ bm.seq > 0) => midway
                /\ (stored.seq = 0 /\ bm.seq = 0) => stored.seen <= bm.seen
                /\ cursor <= Here
                /\ Pos(bm) = Here \/ (pc = "read" /\ bm = stored)

\* An empty shard that was verified still holds everything since.
Fresh == (pc \in {"scan", "open"} /\ bm.seq = 0) => horizon <= bm.seen

CInv == TInv /\ Logged /\ Control /\ Placed /\ Fresh /\ StoredHolds /\ RunHolds /\ Unseen

\* What the tracker does with a key.
LEMMA Recorded ==
  ASSUME NEW k \in Keys, Record(k)
  PROVE  /\ tracked' \subseteq tracked \cup {k}
         /\ (Tracks /\ ~overflowed') => /\ ~overflowed
                                        /\ tracked' = tracked \cup {k}
  BY DEF Record

LEMMA ControlStep == TypeOK /\ Control /\ [Next]_vars => Control'
  <1> SUFFICES ASSUME TypeOK, Control, [Next]_vars
               PROVE  Control'
    OBVIOUS
  <1>1. CASE StartRun
    BY <1>1 DEF StartRun, Control, Behind, MayCleanUp, TypeOK
  <1>2. ASSUME NEW k \in Keys, Scan(k)
        PROVE  Control'
    <2>1. tracked' \subseteq tracked \cup {k}
      BY <1>2, Recorded DEF Scan
    <2> QED
      BY <1>2, <2>1 DEF Scan, Control, Behind
  <1>3. CASE EndScan
    BY <1>3 DEF EndScan, Control, Behind
  <1>4. CASE Open \/ CaughtUp \/ IdleOut
    BY <1>4 DEF Open, CaughtUp, IdleOut, Control, Behind
  <1>5. CASE Read
    BY <1>5 DEF Read, Control, Behind
  <1>6. CASE Checkpoint
    <2>1. MayCleanUp' => held' = {bm}
      BY <1>6 DEF Checkpoint, Put, Holds, MayCleanUp
    <2> QED
      BY <1>6, <2>1 DEF Checkpoint, Control, Behind
  <1>7. CASE EndRun
    BY <1>7 DEF EndRun, Control, Behind
  <1>8. CASE Cancel \/ Stop
    BY <1>8 DEF Cancel, Stop, Control, Behind, MayCleanUp
  <1>9. CASE Refuse \/ Cleanup
    BY <1>9 DEF Refuse, Cleanup, Control, Behind, MayCleanUp
  <1>10. ASSUME UNCHANGED <<deletes, run>>
         PROVE  Control'
    BY <1>10 DEF run, Control, Behind, MayCleanUp
  <1> QED
    BY <1>1, <1>2, <1>3, <1>4, <1>5, <1>6, <1>7, <1>8, <1>9, <1>10
    DEF Next, RunStep, TrimmedUnderfoot, SkipCleanup, Release, Fail, CleanupFails, Change, Trim,
        vars

LEMMA LoggedStep == TypeOK /\ Logged /\ [Next]_vars => Logged'
  <1> SUFFICES ASSUME TypeOK, Logged, [Next]_vars
               PROVE  Logged'
    OBVIOUS
  <1>1. log \in Seq(Events) /\ Len(log) \in Nat
    BY DEF TypeOK, Events
  <1>2. ASSUME NEW k \in Keys, NEW v \in Row, Change(k, v)
        PROVE  Logged'
    <2> DEFINE e == [key |-> k, item |-> v]
    <2>1. e \in Events /\ log' = Append(log, e) /\ table' = [table EXCEPT ![k] = v]
      BY <1>2 DEF Change, Events
    <2>2. /\ Len(log') = Len(log) + 1 /\ log'[Len(log) + 1] = e
          /\ \A n \in 1..Len(log) : log'[n] = log[n]
      BY <1>1, <2>1
    <2> SUFFICES ASSUME NEW n \in 1..Len(log')
                 PROVE  \/ table'[log'[n].key] = log'[n].item
                        \/ Follows(log', log'[n].key, n)
      BY DEF Logged
    <2>3. CASE n = Len(log) + 1
      BY <2>1, <2>2, <2>3 DEF TypeOK
    <2>4. CASE n \in 1..Len(log)
      <3>1. log'[n] = log[n] /\ log[n].key \in Keys
        <4>1. log[n] \in Events
          BY <1>1, <2>4
        <4> QED
          BY <2>2, <2>4, <4>1 DEF Events
      <3>2. CASE log[n].key = k
        <4>1. n \in Nat /\ n <= Len(log)
          BY <1>1, <2>4
        <4>2. Follows(log', e.key, n)
          BY <1>1, <2>1, <4>1, FollowsAppend
        <4> QED
          BY <3>1, <3>2, <4>2
      <3>3. CASE log[n].key # k
        <4>1. table'[log[n].key] = table[log[n].key]
          BY <2>1, <3>1, <3>3 DEF TypeOK
        <4>2. Follows(log, log[n].key, n) => Follows(log', log[n].key, n)
          BY <1>1, <2>1, FollowsAppend
        <4> QED
          BY <2>4, <3>1, <4>1, <4>2 DEF Logged
      <3> QED
        BY <3>2, <3>3
    <2> QED
      BY <1>1, <2>2, <2>3, <2>4
  <1>3. ASSUME UNCHANGED <<table, log>>
        PROVE  Logged'
    BY <1>3 DEF Logged
  <1> QED
    BY <1>2, <1>3
    DEF Next, RunStep, StartRun, Scan, EndScan, Open, Read, Checkpoint, CaughtUp, TrimmedUnderfoot,
        IdleOut, Cancel, Stop, SkipCleanup, Refuse, Cleanup, CleanupFails, Release, Fail, Trim,
        vars, service

LEMMA PlacedStep ==
  ASSUME AmpleRetention, TInv, Control, Placed, Fresh, [Next]_vars
  PROVE  Placed' /\ Fresh'
  <1> USE DEF TInv
  <1>1. /\ Len(log) \in Nat /\ horizon \in 0..Len(log) /\ cursor \in 0..Len(log)
        /\ stored \in Bookmarks /\ bm \in Bookmarks
        /\ Pos(stored) <= Len(log) /\ Pos(bm) <= Len(log)
        /\ stored.seq \in Nat /\ stored.seen \in Nat /\ bm.seq \in Nat /\ bm.seen \in Nat
    BY DEF TypeOK, Positions, Bookmarks
  <1>2. CASE Trim
    <2>1. /\ horizon' = horizon + 1 /\ ~Outlasted
          /\ UNCHANGED <<stored, pc, signal, bm, cursor, cancelled, midway>>
      BY <1>2 DEF Trim, run, hist
    <2>2. /\ Scanned' = Scanned /\ Behind' = Behind /\ Reading' = Reading /\ Here' = Here
          /\ Trimmed(stored) => Trimmed(stored)'
      BY <1>1, <2>1 DEF Scanned, Behind, Reading, Idled, Here, Trimmed
    <2>3. Placed'
      BY <1>1, <2>1, <2>2 DEF Placed, Outlasted, Pos
    <2>4. Fresh'
      BY <1>1, <2>1 DEF Fresh, Outlasted
    <2> QED
      BY <2>3, <2>4
  <1>3. CASE StartRun
    <2>1. pc = "idle" /\ signal = "Partial" /\ UNCHANGED <<stored, horizon, cursor>>
      BY <1>3 DEF StartRun, Control, service
    <2>2. CASE bm' = Opened(Len(log)) /\ signal' = "Reading" /\ pc' = "scan" /\ TRUE \in Gap(stored)
      <3>1. bm'.seq = 0 /\ bm'.seen = Len(log)
        BY <2>2 DEF Opened
      <3>2. stored.seq > 0 => Trimmed(stored)
        BY <2>2 DEF Gap
      <3>3. Trimmed(stored)' = Trimmed(stored)
        BY <2>1 DEF Trimmed
      <3>4. Placed'
        BY <1>1, <2>1, <2>2, <3>1, <3>2, <3>3
        DEF Placed, Scanned, Reading, Idled, Here, Behind, Pos
      <3>5. Fresh'
        BY <1>1, <2>1, <3>1 DEF Fresh
      <3> QED
        BY <3>4, <3>5
    <2>3. CASE bm' = stored /\ signal' = "Partial" /\ pc' = "open" /\ FALSE \in Gap(stored)
      <3>1. ~Trimmed(stored)
        BY <2>3 DEF Gap
      <3>2. Placed'
        BY <2>1, <2>3 DEF Placed, Scanned, Reading, Idled, Here, Behind
      <3>3. Fresh'
        BY <1>1, <2>1, <2>3, <3>1 DEF Fresh, Trimmed
      <3> QED
        BY <3>2, <3>3
    <2> QED
      <3>1. PICK gap \in Gap(stored) :
              IF gap THEN bm' = Opened(Len(log)) /\ signal' = "Reading" /\ pc' = "scan"
              ELSE bm' = stored /\ pc' = "open" /\ signal' = signal
        BY <1>3 DEF StartRun
      <3>2. gap \in BOOLEAN
        BY DEF Gap
      <3> QED
        BY <2>1, <2>2, <2>3, <3>1, <3>2
  <1>4. ASSUME NEW k \in Keys, Scan(k)
        PROVE  Placed' /\ Fresh'
    BY <1>4
    DEF Scan, Placed, Fresh, Scanned, Reading, Idled, Here, Behind, Trimmed, Pos, service,
        hist
  <1>5. CASE EndScan
    <2>1. /\ pc = "scan" /\ pc' = "open" /\ signal' = "Complete"
          /\ UNCHANGED <<bm, horizon, cursor>>
          /\ stored' = stored \/ stored' = bm
      BY <1>5 DEF EndScan, Put, service
    <2>2. /\ bm.seq = 0 /\ cursor <= bm.seen /\ (stored.seq > 0 => Trimmed(stored))
          /\ stored.seq = 0 => stored.seen <= bm.seen
      BY <2>1 DEF Placed, Scanned
    <2>3. Placed'
      BY <1>1, <2>1, <2>2 DEF Placed, Scanned, Reading, Idled, Here, Behind, Trimmed
    <2>4. Fresh'
      BY <2>1 DEF Fresh
    <2> QED
      BY <2>3, <2>4
  <1>6. CASE Open
    <2>1. /\ pc = "open" /\ pc' = "read" /\ (bm.seq > 0 => ~Trimmed(bm)) /\ cursor' = StartFor(bm)
          /\ UNCHANGED <<stored, bm, horizon, midway, signal>>
      BY <1>6 DEF Open, service, hist
    <2>2. signal \in {"Partial", "Complete"}
      BY <2>1 DEF Control, TypeOK
    <2>3. CASE signal = "Complete"
      <3>1. Scanned /\ bm.seq = 0 /\ horizon <= bm.seen /\ cursor' = horizon
        BY <2>1, <2>3 DEF Scanned, Placed, Fresh, StartFor
      <3>2. ~Scanned' /\ Here' = bm.seen
        BY <2>1, <2>3, <3>1 DEF Scanned, Here
      <3> QED
        BY <1>1, <2>1, <3>1, <3>2 DEF Placed, Fresh, Trimmed, Pos
    <2>4. CASE signal = "Partial"
      BY <1>1, <2>1, <2>4
      DEF Placed, Fresh, Scanned, Reading, Idled, Here, Behind, Trimmed, StartFor
    <2> QED
      BY <2>2, <2>3, <2>4
  <1>7. CASE Read
    <2>1. /\ pc = "read" /\ horizon <= cursor /\ cursor' = cursor + 1 /\ pc' \in {"page", "last"}
          /\ bm' = After(cursor + 1) /\ midway' = (midway \/ bm.seq = 0)
          /\ UNCHANGED <<stored, horizon, signal>>
      BY <1>7 DEF Read, service
    <2>2. bm'.seq = cursor + 1 /\ Pos(bm') = cursor + 1
      BY <1>1, <2>1 DEF After, Pos
    <2>3. stored.seq = 0 => midway'
      <3>1. stored.seq = 0 => (midway \/ bm.seq = 0)
        BY <1>1, <2>1 DEF Placed, Reading, Idled, Here
      <3> QED
        BY <2>1, <3>1
    <2> QED
      BY <1>1, <2>1, <2>2, <2>3
      DEF Placed, Fresh, Scanned, Reading, Idled, Here, Behind, Trimmed
  <1>8. CASE Checkpoint
    <2>1. /\ pc \in {"page", "last"} /\ pc' = IF pc = "page" THEN "read" ELSE "settle"
          /\ UNCHANGED <<bm, horizon, cursor, signal, cancelled>>
          /\ \/ UNCHANGED <<stored, midway>>
             \/ stored' = bm /\ ~midway'
      BY <1>8 DEF Checkpoint, Put, service, TypeOK
    <2>2. ~Scanned' /\ Fresh' /\ Here' = Here
      BY <2>1 DEF Scanned, Fresh, Here
    <2>3. CASE Idled
      <3>1. ~Reading'
        BY <2>1, <2>3 DEF Reading, Idled
      <3> QED
        BY <2>1, <2>2, <3>1 DEF Placed
    <2>4. CASE ~Idled
      <3>1. Reading /\ Pos(bm) = Here
        BY <2>1, <2>4 DEF Placed, Reading, Behind
      <3>2. CASE UNCHANGED <<stored, midway>>
        BY <1>1, <2>1, <2>2, <3>1, <3>2 DEF Placed, Trimmed, Pos
      <3>3. CASE stored' = bm /\ ~midway'
        BY <1>1, <2>1, <2>2, <3>1, <3>3 DEF Placed, Trimmed, Pos
      <3> QED
        BY <2>1, <3>2, <3>3
    <2> QED
      BY <2>3, <2>4
  <1>9. CASE CaughtUp
    <2>1. /\ pc = "read" /\ cursor = Len(log) /\ pc' \in {"read", "last"}
          /\ bm' = IF bm.seq = 0 THEN Opened(Len(log)) ELSE bm
          /\ UNCHANGED <<stored, midway, horizon, cursor, signal>>
      BY <1>9 DEF CaughtUp, service, hist
    <2>2. \/ bm.seq = 0 /\ bm'.seq = 0 /\ bm'.seen = cursor
          \/ bm.seq > 0 /\ bm' = bm
      BY <1>1, <2>1 DEF Opened
    <2> QED
      BY <1>1, <2>1, <2>2
      DEF Placed, Fresh, Scanned, Reading, Idled, Here, Behind, Trimmed, Pos
  <1>10. CASE EndRun
    BY <1>10 DEF EndRun, Placed, Fresh, Scanned, Reading, Idled, Here, Behind
  <1>11. CASE Cancel \/ Stop
    BY <1>11
    DEF Cancel, Stop, Placed, Fresh, Scanned, Reading, Idled, Here, Behind, Trimmed, Pos,
        service, hist
  <1>12. CASE Refuse \/ Cleanup
    BY <1>12
    DEF Refuse, Cleanup, MayCleanUp, Placed, Fresh, Scanned, Reading, Idled, Here, Behind,
        Trimmed, Pos, service
  <1>13. ASSUME UNCHANGED <<stored, horizon, run, hist>>
         PROVE  Placed' /\ Fresh'
    BY <1>13
    DEF run, hist, Placed, Fresh, Scanned, Reading, Idled, Here, Behind, Trimmed, Pos
  <1>14. CASE IdleOut
    <2>1. /\ pc \in {"open", "read"} /\ pc' = "last"
          /\ UNCHANGED <<stored, midway, horizon, bm, cursor, signal>>
      BY <1>14 DEF IdleOut, service, hist
    <2>2. signal \in {"Partial", "Complete"}
      BY <2>1 DEF Control, TypeOK
    <2>3. CASE signal = "Partial" /\ bm = stored
      BY <2>1, <2>3 DEF Placed, Fresh, Scanned, Reading, Idled
    <2>4. CASE pc = "open" /\ signal = "Complete"
      BY <1>1, <2>1, <2>4
      DEF Placed, Fresh, Scanned, Reading, Here, Idled, Behind, Trimmed, Pos
    <2>5. CASE pc = "read" /\ ~(signal = "Partial" /\ bm = stored)
      BY <1>1, <2>1, <2>2, <2>5
      DEF Placed, Fresh, Scanned, Reading, Here, Idled, Behind, Trimmed, Pos
    <2>6. pc = "open" /\ signal = "Partial" => bm = stored
      BY DEF Placed
    <2> QED
      BY <2>1, <2>2, <2>3, <2>4, <2>5, <2>6
  <1> QED
    BY <1>2, <1>3, <1>4, <1>5, <1>6, <1>7, <1>8, <1>9, <1>10, <1>11, <1>12, <1>13, <1>14
    DEF Next, RunStep, TrimmedUnderfoot, SkipCleanup, Release, Fail, CleanupFails, Change, vars,
        service

-----------------------------------------------------------------------------
(* What the positions answer for. *)

LEMMA OkEarlier ==
  ASSUME TypeOK, NEW k, NEW m \in Nat, NEW n \in Nat, m <= n, OkAt(k, n)
  PROVE  OkAt(k, m)
  <1>1. log \in Seq(Events)
    BY DEF TypeOK, Events
  <1> QED
    BY <1>1, FollowsEarlier DEF OkAt

LEMMA PositionTypes ==
  ASSUME TInv
  PROVE  /\ StoredPos \in 0..Len(log) /\ Len(log) \in Nat
         /\ Here \in Nat /\ (Placed => Here <= Len(log))
  <1>1. /\ Len(log) \in Nat /\ horizon \in 0..Len(log) /\ cursor \in 0..Len(log)
        /\ stored.seq \in Nat /\ stored.seen \in Nat /\ bm.seq \in Nat /\ bm.seen \in Nat
        /\ Pos(stored) <= Len(log) /\ Pos(bm) <= Len(log)
    BY DEF TInv, TypeOK, Positions, Bookmarks
  <1> QED
    BY <1>1 DEF StoredPos, Here, Reading, Behind, Idled, Pos, Placed

\* A run that is reading is past the stored position, unless that was trimmed.
LEMMA StoredBehind ==
  ASSUME TInv, Placed, Behind, ~Idled, ~Trimmed(stored)
  PROVE  StoredPos <= Here
  <1>1. /\ Len(log) \in Nat /\ horizon \in 0..Len(log) /\ cursor \in 0..Len(log)
        /\ stored.seq \in Nat /\ stored.seen \in Nat /\ bm.seq \in Nat /\ bm.seen \in Nat
    BY DEF TInv, TypeOK, Bookmarks
  <1> QED
    BY <1>1 DEF StoredPos, Here, Pos, Placed, Reading, Behind

\* The service changes the table, and trims its stream.
LEMMA ChangeHolds ==
  ASSUME CInv, NEW k \in Keys, NEW v \in Row, Change(k, v)
  PROVE  StoredHolds' /\ RunHolds' /\ Unseen'
  <1> DEFINE e == [key |-> k, item |-> v]
  <1>1. /\ TInv /\ TypeOK /\ Placed /\ log \in Seq(Events) /\ e \in Events
        /\ log' = Append(log, e) /\ table' = [table EXCEPT ![k] = v]
        /\ UNCHANGED <<stored, horizon, dest, deletes, pc, signal, bm, cursor, toScan, tracked,
                       overflowed, cancelled, gaveUp, midway>>
    BY DEF CInv, TInv, TypeOK, Change, Events, run, hist
  <1>2. /\ Trimmed(stored)' = Trimmed(stored) /\ StoredPos' = StoredPos /\ Here' = Here
        /\ Scanned' = Scanned /\ Reading' = Reading
    BY <1>1 DEF Trimmed, StoredPos, Pos, Here, Scanned, Reading, Idled, Behind
  <1>3. /\ StoredPos \in Nat /\ StoredPos <= Len(log)
        /\ Here \in Nat /\ Here <= Len(log)
    BY <1>1, PositionTypes
  <1>4. /\ \A j \in Keys \ {k} : table'[j] = table[j]
        /\ \A j \in Keys : Follows(log, j, StoredPos) => Follows(log', j, StoredPos)
        /\ \A j \in Keys : Follows(log, j, Here) => Follows(log', j, Here)
        /\ Follows(log', k, StoredPos) /\ Follows(log', k, Here)
    <2>1. \A j \in Keys \ {k} : table'[j] = table[j]
      BY <1>1 DEF TypeOK
    <2>2. \A n \in Nat : /\ \A j : Follows(log, j, n) => Follows(log', j, n)
                         /\ n <= Len(log) => Follows(log', e.key, n)
      BY <1>1, FollowsAppend
    <2> QED
      BY <1>3, <2>1, <2>2
  <1>5. StoredHolds'
    <2> SUFFICES ASSUME ~Trimmed(stored), NEW j \in Keys, Covers(j)'
                 PROVE  dest'[j] = table'[j] \/ Follows(log', j, StoredPos')
      BY <1>2 DEF StoredHolds, OkAt
    <2>1. CASE j = k
      BY <1>2, <1>4, <2>1
    <2>2. CASE j # k
      <3>1. OkAt(j, StoredPos)
        BY <1>1, <1>4, <2>2 DEF CInv, StoredHolds, Covers
      <3> QED
        BY <1>1, <1>2, <1>4, <2>2, <3>1 DEF OkAt
    <2> QED
      BY <2>1, <2>2
  <1>6. RunHolds'
    <2> SUFFICES ASSUME Scanned \/ Reading, NEW j \in Keys \ toScan, RunCovers(j)'
                 PROVE  dest'[j] = table'[j] \/ Follows(log', j, Here')
      BY <1>1, <1>2 DEF RunHolds, OkAt
    <2>1. CASE j = k
      BY <1>2, <1>4, <2>1
    <2>2. CASE j # k
      <3>1. OkAt(j, Here)
        BY <1>1, <1>4, <2>2 DEF CInv, RunHolds, RunCovers
      <3> QED
        BY <1>1, <1>2, <1>4, <2>2, <3>1 DEF OkAt
    <2> QED
      BY <2>1, <2>2
  <1>7. Unseen'
    <2> SUFFICES ASSUME Scanned \/ Reading, deletes, signal # "Partial", ~overflowed,
                        NEW j \in Keys \ (toScan \cup tracked)
                 PROVE  table'[j] = Absent \/ Follows(log', j, Here')
      BY <1>1, <1>2 DEF Unseen
    <2>1. j # k => table[j] = Absent \/ Follows(log, j, Here)
      BY DEF CInv, Unseen
    <2> QED
      BY <1>2, <1>4, <2>1
  <1> QED
    BY <1>5, <1>6, <1>7

LEMMA TrimHolds ==
  ASSUME AmpleRetention, CInv, Trim
  PROVE  StoredHolds' /\ RunHolds' /\ Unseen'
  <1>1. /\ TypeOK /\ horizon' = horizon + 1 /\ horizon \in Nat /\ ~(midway /\ stored.seq = 0)
        /\ stored.seq \in Nat /\ stored.seen \in Nat
        /\ UNCHANGED <<table, log, stored, dest, deletes, pc, signal, bm, cursor, toScan, tracked,
                       overflowed, cancelled, gaveUp, midway>>
    BY DEF CInv, TInv, TypeOK, Trim, Outlasted, Bookmarks, run, hist
  <1>2. /\ Trimmed(stored) => Trimmed(stored)'
        /\ StoredPos' = StoredPos /\ Here' = Here /\ Scanned' = Scanned /\ Reading' = Reading
    BY <1>1 DEF Trimmed, StoredPos, Pos, Here, Scanned, Reading, Idled, Behind
  <1>3. StoredHolds'
    BY <1>1, <1>2 DEF CInv, StoredHolds, Covers, OkAt
  <1>4. RunHolds'
    BY <1>1, <1>2 DEF CInv, RunHolds, RunCovers, OkAt
  <1>5. Unseen'
    BY <1>1, <1>2 DEF CInv, Unseen
  <1> QED
    BY <1>3, <1>4, <1>5

\* The stored position and the destination are left alone; or the position becomes that of
\* the run; or the run is over.
LEMMA SameStored ==
  ASSUME CInv, UNCHANGED <<service, stored, dest, deletes, hist>>
  PROVE  StoredHolds'
  <1>1. UNCHANGED <<table, log, horizon, stored, dest, deletes, gaveUp, midway>>
    BY DEF service, hist
  <1>2. Trimmed(stored)' = Trimmed(stored) /\ StoredPos' = StoredPos
    BY <1>1 DEF Trimmed, StoredPos, Pos
  <1> QED
    BY <1>1, <1>2 DEF CInv, StoredHolds, Covers, OkAt

LEMMA StoredHere ==
  ASSUME CInv, UNCHANGED <<service, dest, deletes, gaveUp>>, stored' = bm, ~midway',
         Scanned \/ Reading, toScan = {}, Pos(bm) = Here,
         \A k \in Keys : Covers(k) => RunCovers(k)
  PROVE  StoredHolds'
  <1>1. UNCHANGED <<table, log, horizon, dest, deletes, gaveUp>>
    BY DEF service
  <1>2. StoredPos' = Here
    BY DEF StoredPos, Pos
  <1>3. \A k \in Keys : Covers(k) => OkAt(k, Here)
    BY DEF CInv, RunHolds
  <1> QED
    BY <1>1, <1>2, <1>3 DEF StoredHolds, Covers, OkAt

LEMMA RunOver ==
  ASSUME ~Scanned', ~Reading'
  PROVE  RunHolds' /\ Unseen'
  BY DEF RunHolds, Unseen

LEMMA EndRunHolds ==
  ASSUME EndRun
  PROVE  RunHolds' /\ Unseen'
  <1>1. ~Scanned' /\ ~Reading'
    BY DEF EndRun, Scanned, Reading, Idled, Behind
  <1> QED
    BY <1>1, RunOver

\* The run goes on, at the same position and answering for no more.
LEMMA SameRun ==
  ASSUME CInv, UNCHANGED <<service, dest, deletes, toScan, tracked, overflowed>>,
         Scanned' \/ Reading' => Scanned \/ Reading, Here' = Here,
         signal' = "Partial" <=> signal = "Partial",
         \A k \in Keys : RunCovers(k)' => RunCovers(k)
  PROVE  RunHolds' /\ Unseen'
  <1>1. UNCHANGED <<table, log, dest, deletes, toScan, tracked, overflowed>>
    BY DEF service
  <1>2. RunHolds'
    BY <1>1 DEF CInv, RunHolds, OkAt
  <1>3. Unseen'
    BY <1>1 DEF CInv, Unseen
  <1> QED
    BY <1>2, <1>3

LEMMA StartRunHolds ==
  ASSUME CInv, StartRun
  PROVE  StoredHolds' /\ RunHolds' /\ Unseen'
  <1>1. StoredHolds'
    BY SameStored DEF StartRun
  <1>2. CASE pc' = "scan" /\ toScan' = Keys
    BY <1>1, <1>2 DEF RunHolds, Unseen
  <1>3. CASE pc' = "open" /\ signal' = signal
    <2>1. ~Scanned' /\ ~Reading'
      BY <1>3 DEF CInv, Control, StartRun, Scanned, Reading, Idled, Behind
    <2> QED
      BY <1>1, <2>1, RunOver
  <1> QED
    BY <1>1, <1>2, <1>3 DEF StartRun

LEMMA ScanHolds ==
  ASSUME CInv, NEW k \in Keys, Scan(k)
  PROVE  StoredHolds' /\ RunHolds' /\ Unseen'
  <1>1. /\ pc = "scan" /\ k \in toScan /\ toScan' = toScan \ {k} /\ TypeOK
        /\ UNCHANGED <<table, log, horizon, stored, deletes, pc, signal, bm, cursor, cancelled,
                       gaveUp, midway>>
    BY DEF CInv, TInv, Scan, service, hist
  <1>2. /\ Scanned /\ Scanned' /\ Here' = Here /\ StoredPos' = StoredPos
        /\ Trimmed(stored)' = Trimmed(stored)
    BY <1>1 DEF Scanned, Here, StoredPos, Pos, Trimmed
  <1>3. /\ signal = "Reading" /\ k \notin tracked
    BY <1>1 DEF CInv, Control
  <1>4. /\ \A j \in Keys \ {k} : dest'[j] = dest[j]
        /\ table[k] # Absent => dest'[k] = table[k]
        /\ table[k] = Absent => dest'[k] = dest[k] /\ UNCHANGED <<tracked, overflowed>>
    BY <1>1 DEF Scan, TypeOK
  <1>5. /\ tracked' \subseteq tracked \cup {k}
        /\ (deletes /\ ~overflowed' /\ table[k] # Absent) =>
             ~overflowed /\ tracked' = tracked \cup {k}
    <2>1. CASE table[k] = Absent
      BY <1>4, <2>1
    <2>2. CASE table[k] # Absent
      <3>1. Record(k)
        BY <2>2 DEF Scan
      <3> QED
        BY <1>3, <3>1, Recorded DEF Tracks
    <2> QED
      BY <2>1, <2>2
  <1>6. StoredHolds'
    <2> SUFFICES ASSUME ~Trimmed(stored), NEW j \in Keys, Covers(j)'
                 PROVE  dest'[j] = table[j] \/ Follows(log, j, StoredPos)
      BY <1>1, <1>2 DEF StoredHolds, OkAt
    <2>1. OkAt(j, StoredPos)
      BY <1>1 DEF CInv, StoredHolds, Covers
    <2> QED
      BY <1>4, <2>1 DEF OkAt
  <1>7. RunHolds'
    <2> SUFFICES ASSUME NEW j \in Keys \ toScan', RunCovers(j)'
                 PROVE  dest'[j] = table[j] \/ Follows(log, j, Here)
      BY <1>1, <1>2 DEF RunHolds, OkAt
    <2>1. CASE j = k
      BY <1>1, <1>3, <1>4, <2>1 DEF RunCovers
    <2>2. CASE j # k
      <3>1. j \in Keys \ toScan /\ RunCovers(j)
        BY <1>1, <1>5, <2>2 DEF RunCovers
      <3>2. OkAt(j, Here)
        BY <1>2, <3>1 DEF CInv, RunHolds
      <3> QED
        BY <1>4, <2>2, <3>2 DEF OkAt
    <2> QED
      BY <2>1, <2>2
  <1>8. Unseen'
    <2> SUFFICES ASSUME deletes, ~overflowed', NEW j \in Keys \ (toScan' \cup tracked')
                 PROVE  table[j] = Absent \/ Follows(log, j, Here)
      BY <1>1, <1>2 DEF Unseen
    <2>1. CASE j = k
      BY <1>5, <2>1
    <2>2. CASE j # k
      <3>1. ~overflowed /\ j \in Keys \ (toScan \cup tracked)
        BY <1>1, <1>4, <1>5, <2>2
      <3> QED
        BY <1>2, <1>3, <3>1 DEF CInv, Unseen
    <2> QED
      BY <2>1, <2>2
  <1> QED
    BY <1>6, <1>7, <1>8

LEMMA EndScanHolds ==
  ASSUME CInv, EndScan
  PROVE  StoredHolds' /\ RunHolds' /\ Unseen'
  <1>1. /\ pc = "scan" /\ toScan = {} /\ pc' = "open" /\ signal = "Reading" /\ signal' = "Complete"
        /\ UNCHANGED <<service, dest, deletes, bm, toScan, tracked, overflowed, gaveUp>>
    BY DEF CInv, Control, EndScan
  <1>2. /\ Scanned /\ Scanned' /\ Here' = Here /\ Here = bm.seen /\ bm.seq = 0 /\ Pos(bm) = Here
    BY <1>1 DEF Scanned, Here, Reading, Behind, Idled, CInv, Placed, Pos
  <1>3. StoredHolds'
    <2>1. CASE Holds
      BY <1>1, <2>1, SameStored DEF EndScan, Put, hist
    <2>2. CASE ~Holds
      <3>1. stored' = bm /\ ~midway' /\ ~deletes
        BY <1>1, <2>2 DEF EndScan, Put, Holds
      <3>2. \A k \in Keys : Covers(k) => RunCovers(k)
        BY <3>1 DEF Covers, RunCovers
      <3> QED
        BY <1>1, <1>2, <3>1, <3>2, StoredHere
    <2> QED
      BY <2>1, <2>2
  <1>4. \A k \in Keys : RunCovers(k)' => RunCovers(k)
    BY <1>1 DEF RunCovers, service
  <1> QED
    BY <1>1, <1>2, <1>3, <1>4, SameRun

\* The iterator starts at the stored position, or at the horizon, which a verified or a
\* scanned position is not behind.
LEMMA OpenHolds ==
  ASSUME CInv, Open
  PROVE  StoredHolds' /\ RunHolds' /\ Unseen'
  <1>1. /\ pc = "open" /\ pc' = "read" /\ cursor' = StartFor(bm) /\ (bm.seq > 0 => ~Trimmed(bm))
        /\ UNCHANGED <<service, stored, dest, deletes, signal, bm, toScan, tracked, overflowed,
                       cancelled, hist>>
    BY DEF Open
  <1>2. UNCHANGED <<table, log, horizon, gaveUp, midway>>
    BY <1>1 DEF service, hist
  <1>3. /\ TypeOK /\ log \in Seq(Events) /\ horizon \in Nat /\ Len(log) \in Nat
        /\ stored.seq \in Nat /\ stored.seen \in Nat /\ bm.seq \in Nat /\ bm.seen \in Nat
        /\ signal \in {"Partial", "Complete"} /\ toScan = {}
    BY <1>1 DEF CInv, TInv, TypeOK, Bookmarks, Control, Events
  <1>4. ~Scanned' /\ Reading' /\ cursor' \in Nat
    BY <1>1, <1>3 DEF Scanned, Reading, Idled, StartFor
  <1>5. StoredHolds'
    BY <1>1, SameStored
  <1>6. CASE signal = "Partial"
    <2>1. stored = bm /\ ~Trimmed(stored) /\ cursor' <= StoredPos /\ StoredPos \in Nat
      BY <1>1, <1>3, <1>6 DEF CInv, Placed, Fresh, Trimmed, StoredPos, StartFor, Pos
    <2>2. ASSUME NEW k \in Keys, RunCovers(k)'
          PROVE  OkAt(k, cursor')
      <3>1. Covers(k)
        BY <1>1, <1>2, <1>6, <2>2 DEF RunCovers, Covers
      <3>2. OkAt(k, StoredPos)
        BY <2>1, <3>1 DEF CInv, StoredHolds
      <3> QED
        BY <1>3, <1>4, <2>1, <3>2, OkEarlier
    <2>3. RunHolds'
      BY <1>1, <1>2, <1>4, <1>6, <2>2 DEF RunHolds, OkAt, Here
    <2>4. Unseen'
      BY <1>1, <1>6 DEF Unseen
    <2> QED
      BY <1>5, <2>3, <2>4
  <1>7. CASE signal = "Complete"
    <2>1. Scanned /\ Here' = Here
      BY <1>1, <1>3, <1>7 DEF Scanned, Here, CInv, Placed
    <2>2. \A k \in Keys : RunCovers(k)' => RunCovers(k)
      BY <1>1, <1>2 DEF RunCovers
    <2> QED
      BY <1>1, <1>5, <2>1, <2>2, SameRun
  <1> QED
    BY <1>3, <1>6, <1>7

\* A change that is applied is past the stored position, and what it leaves out of date is
\* changed again further on.
LEMMA ReadHolds ==
  ASSUME CInv, Read
  PROVE  StoredHolds' /\ RunHolds' /\ Unseen'
  <1> DEFINE e == log[cursor + 1]
             k == e.key
  <1>1. /\ pc = "read" /\ horizon <= cursor /\ cursor < Len(log) /\ cursor' = cursor + 1
        /\ pc' \in {"page", "last"} /\ midway' = (midway \/ bm.seq = 0)
        /\ dest' = [dest EXCEPT ![k] = e.item] /\ Record(k)
        /\ bm' = After(cursor + 1)
        /\ UNCHANGED <<table, log, horizon, stored, deletes, signal, toScan, gaveUp>>
    BY DEF Read, service
  <1>2. /\ TypeOK /\ TInv /\ Placed /\ log \in Seq(Events) /\ horizon \in Nat /\ Len(log) \in Nat
        /\ cursor \in 0..Len(log) /\ cursor + 1 \in 1..Len(log)
        /\ stored.seq \in Nat /\ stored.seen \in Nat /\ bm.seq \in Nat
    BY <1>1 DEF CInv, TInv, TypeOK, Bookmarks, Events
  <1>3. /\ k \in Keys
        /\ dest'[k] = e.item /\ \A j \in Keys \ {k} : dest'[j] = dest[j]
    <2>1. e \in Events
      BY <1>2
    <2>2. k \in Keys
      BY <2>1 DEF Events
    <2> QED
      BY <1>1, <1>2, <2>2 DEF TypeOK
  <1>4. /\ Reading /\ ~Scanned /\ cursor <= Here /\ Here \in Nat
        /\ ~Scanned' /\ Here' = cursor + 1
    <2>1. Reading /\ ~Scanned /\ ~Scanned'
      BY <1>1 DEF Reading, Idled, Scanned
    <2>2. bm'.seq = cursor + 1
      BY <1>1 DEF After
    <2> QED
      BY <1>1, <1>2, <2>1, <2>2, PositionTypes DEF Placed, Here
  <1>5. toScan = {}
    BY <1>1 DEF CInv, Control
  <1>6. ASSUME NEW j \in Keys \ {k}, Follows(log, j, cursor)
        PROVE  Follows(log, j, cursor + 1)
    BY <1>1, <1>2, <1>6, FollowsNext
  <1>7. StoredHolds'
    <2>1. Trimmed(stored)' = Trimmed(stored)
      BY <1>1 DEF Trimmed
    <2> SUFFICES ASSUME ~Trimmed(stored), NEW j \in Keys, Covers(j)
                 PROVE  dest'[j] = table[j] \/ Follows(log, j, StoredPos')
      <3>1. \A j \in Keys : Covers(j)' = Covers(j)
        BY <1>1 DEF Covers
      <3> QED
        BY <1>1, <2>1, <3>1 DEF StoredHolds, OkAt
    <2>2. stored.seq = 0 => midway'
      <3>1. stored.seq = 0 => (midway \/ bm.seq = 0)
        BY <1>2, <1>4 DEF Placed
      <3> QED
        BY <1>1, <3>1
    <2>3. StoredPos' \in Nat /\ StoredPos' <= cursor /\ StoredPos' <= StoredPos /\ StoredPos \in Nat
      <3>1. CASE stored.seq = 0
        <4>1. StoredPos' = horizon
          BY <1>1, <2>2, <3>1 DEF StoredPos
        <4> QED
          BY <1>1, <1>2, <3>1, <4>1 DEF StoredPos, Pos, Trimmed
      <3>2. CASE stored.seq # 0
        <4>1. StoredPos' = stored.seq /\ StoredPos = stored.seq
          BY <1>1, <3>2 DEF StoredPos, Pos
        <4> QED
          BY <1>2, <1>4, <3>2, <4>1 DEF Placed
      <3> QED
        BY <3>1, <3>2
    <2>4. CASE j = k
      <3>1. Follows(log, k, StoredPos')
        BY <1>2, <2>3, FollowsAt
      <3> QED
        BY <2>4, <3>1
    <2>5. CASE j # k
      <3>1. OkAt(j, StoredPos)
        BY DEF CInv, StoredHolds
      <3>2. OkAt(j, StoredPos')
        BY <1>2, <2>3, <3>1, OkEarlier
      <3> QED
        BY <1>3, <2>5, <3>2 DEF OkAt
    <2> QED
      BY <2>4, <2>5
  <1>8. RunHolds'
    <2> SUFFICES ASSUME NEW j \in Keys, RunCovers(j)'
                 PROVE  dest'[j] = table[j] \/ Follows(log, j, cursor + 1)
      BY <1>1, <1>4 DEF RunHolds, OkAt
    <2>1. CASE j = k
      BY <1>2, <1>3, <2>1 DEF CInv, Logged
    <2>2. CASE j # k
      <3>1. RunCovers(j)
        <4>1. tracked' \subseteq tracked \cup {k}
          BY <1>1, <1>3, Recorded
        <4> QED
          BY <1>1, <2>2, <4>1 DEF RunCovers
      <3>2. OkAt(j, Here)
        BY <1>4, <1>5, <3>1 DEF CInv, RunHolds
      <3>3. OkAt(j, cursor)
        BY <1>2, <1>4, <3>2, OkEarlier
      <3> QED
        BY <1>3, <1>6, <2>2, <3>3 DEF OkAt
    <2> QED
      BY <2>1, <2>2
  <1>9. Unseen'
    <2> SUFFICES ASSUME deletes, signal # "Partial", ~overflowed', NEW j \in Keys \ tracked'
                 PROVE  table[j] = Absent \/ Follows(log, j, cursor + 1)
      BY <1>1, <1>4 DEF Unseen
    <2>1. ~overflowed /\ tracked' = tracked \cup {k}
      BY <1>1, <1>3, Recorded DEF Tracks
    <2>2. j # k /\ j \in Keys \ (toScan \cup tracked)
      BY <1>5, <2>1
    <2>3. table[j] = Absent \/ Follows(log, j, Here)
      BY <1>4, <2>1, <2>2 DEF CInv, Unseen
    <2>4. table[j] = Absent \/ Follows(log, j, cursor)
      BY <1>2, <1>4, <2>3, FollowsEarlier
    <2> QED
      BY <1>6, <2>2, <2>4
  <1> QED
    BY <1>7, <1>8, <1>9

LEMMA CheckpointHolds ==
  ASSUME CInv, Checkpoint
  PROVE  StoredHolds' /\ RunHolds' /\ Unseen'
  <1>1. /\ pc \in {"page", "last"} /\ pc' \in {"read", "settle"} /\ toScan = {}
        /\ UNCHANGED <<service, dest, deletes, signal, bm, cursor, toScan, tracked, overflowed,
                       cancelled, gaveUp>>
    BY DEF CInv, Control, Behind, Checkpoint
  <1>2. Behind /\ ~Scanned /\ ~Scanned' /\ Here' = Here
    BY <1>1 DEF Behind, Scanned, Here
  <1>3. StoredHolds'
    <2>1. CASE Holds
      BY <1>1, <2>1, SameStored DEF Checkpoint, Put, hist
    <2>2. CASE ~Holds /\ signal = "Partial" /\ bm = stored
      <3>1. UNCHANGED <<stored, midway>>
        BY <2>2 DEF Checkpoint, Put, CInv, TInv, TypeOK
      <3> QED
        BY <1>1, <3>1, SameStored DEF hist
    <2>3. CASE ~Holds /\ ~(signal = "Partial" /\ bm = stored)
      <3>1. stored' = bm /\ ~midway'
        BY <2>3 DEF Checkpoint, Put
      <3>2. \A k \in Keys : Covers(k) => RunCovers(k)
        BY <2>3 DEF Holds, Covers, RunCovers
      <3>3. Reading /\ Pos(bm) = Here
        BY <1>1, <1>2, <2>3 DEF Reading, Idled, CInv, Placed
      <3> QED
        BY <1>1, <3>1, <3>2, <3>3, StoredHere
    <2> QED
      BY <2>1, <2>2, <2>3
  <1>4. \A k \in Keys : RunCovers(k)' => RunCovers(k)
    BY <1>1 DEF RunCovers, service
  <1>5. Reading' => Reading
    <2>1. CASE signal = "Partial" /\ bm = stored
      <3>1. pc = "last" => Idled'
        BY <1>1, <2>1 DEF Checkpoint, Put, Holds, Idled
      <3> QED
        BY <1>1, <1>2, <3>1 DEF Reading, Idled
    <2>2. CASE ~(signal = "Partial" /\ bm = stored)
      BY <1>2, <2>2 DEF Reading, Idled
    <2> QED
      BY <2>1, <2>2
  <1> QED
    BY <1>1, <1>2, <1>3, <1>4, <1>5, SameRun

LEMMA CaughtUpHolds ==
  ASSUME CInv, CaughtUp
  PROVE  StoredHolds' /\ RunHolds' /\ Unseen'
  <1>1. /\ pc = "read" /\ cursor = Len(log) /\ pc' \in {"read", "last"}
        /\ bm' = IF bm.seq = 0 THEN Opened(Len(log)) ELSE bm
        /\ UNCHANGED <<service, stored, dest, deletes, signal, cursor, toScan, tracked, overflowed,
                       cancelled, hist>>
    BY DEF CaughtUp
  <1>2. Reading /\ ~Scanned /\ ~Scanned' /\ Here' = Here
    <2>1. Reading /\ ~Scanned /\ ~Scanned'
      BY <1>1 DEF Reading, Idled, Scanned
    <2>2. Here = Len(log)
      BY <1>1, <2>1, PositionTypes DEF CInv, Placed
    <2> QED
      BY <1>1, <2>1, <2>2 DEF Here, Opened
  <1>3. \A k \in Keys : RunCovers(k)' => RunCovers(k)
    BY <1>1 DEF RunCovers, service, hist
  <1> QED
    BY <1>1, <1>2, <1>3, SameStored, SameRun

\* A throttled reader ends where it is; without a scan, with the position it started from.
LEMMA IdleOutHolds ==
  ASSUME CInv, IdleOut
  PROVE  StoredHolds' /\ RunHolds' /\ Unseen'
  <1>1. /\ pc \in {"open", "read"} /\ pc' = "last"
        /\ UNCHANGED <<service, stored, dest, deletes, signal, bm, cursor, toScan, tracked,
                       overflowed, hist>>
    BY DEF IdleOut
  <1>2. signal \in {"Partial", "Complete"}
    BY <1>1 DEF CInv, Control, TInv, TypeOK
  <1>3. ~Scanned' /\ Here' = Here
    BY <1>1 DEF Scanned, Here
  <1>4. Reading' => Scanned \/ Reading
    <2>1. (pc = "open" /\ signal = "Partial") => Idled'
      BY <1>1 DEF CInv, Placed, Idled
    <2> QED
      BY <1>1, <1>2, <2>1 DEF Reading, Idled, Scanned
  <1>5. \A k \in Keys : RunCovers(k)' => RunCovers(k)
    BY <1>1 DEF RunCovers, service, hist
  <1> QED
    BY <1>1, <1>3, <1>4, <1>5, SameStored, SameRun

LEMMA CancelHolds ==
  ASSUME CInv, Cancel \/ Stop
  PROVE  StoredHolds' /\ RunHolds' /\ Unseen'
  <1>1. UNCHANGED <<service, stored, dest, deletes, signal, bm, cursor, toScan, tracked,
                    overflowed, hist>>
    BY DEF Cancel, Stop
  <1>2. StoredHolds'
    BY <1>1, SameStored
  <1>3. CASE Cancel
    <2>1. pc' = pc /\ cancelled'
      BY <1>3 DEF Cancel
    <2>2. Scanned' = Scanned /\ (Reading' => Reading) /\ Here' = Here
      BY <1>1, <2>1 DEF Scanned, Reading, Idled, Behind, Here
    <2>3. \A k \in Keys : RunCovers(k)' => RunCovers(k)
      BY <1>1, <2>1 DEF RunCovers, service, hist
    <2> QED
      BY <1>1, <1>2, <2>2, <2>3, SameRun
  <1>4. CASE Stop
    <2>1. ~Scanned' /\ ~Reading'
      BY <1>4 DEF Stop, Scanned, Reading, Idled, Behind
    <2> QED
      BY <1>2, <2>1, RunOver
  <1> QED
    BY <1>3, <1>4

LEMMA RefuseHolds ==
  ASSUME CInv, Refuse
  PROVE  StoredHolds' /\ RunHolds' /\ Unseen'
  <1>1. /\ pc = "settle" /\ ~cancelled /\ overflowed /\ pc' = "release" /\ gaveUp' = TRUE
        /\ UNCHANGED <<table, log, horizon, service, stored, dest, deletes, signal, bm, cursor,
                       toScan, tracked, overflowed, cancelled, midway>>
    BY DEF Refuse, MayCleanUp, service
  <1>2. Reading /\ ~Scanned /\ ~Scanned' /\ Here' = Here
    BY <1>1 DEF Refuse, MayCleanUp, Reading, Idled, Behind, Scanned, Here
  <1>3. StoredHolds'
    <2>1. Trimmed(stored)' = Trimmed(stored) /\ StoredPos' = StoredPos
      BY <1>1 DEF Trimmed, StoredPos, Pos
    <2> QED
      BY <1>1, <2>1 DEF CInv, StoredHolds, Covers, OkAt
  <1>4. \A k \in Keys : RunCovers(k)' => RunCovers(k)
    BY <1>1 DEF RunCovers
  <1> QED
    BY <1>1, <1>2, <1>3, <1>4, SameRun

\* A row that a cleanup deletes, all of them or some, belongs to no item of the table, or
\* to one that a change past the iterator, and so past the stored position, brings back.
LEMMA DeletedOk ==
  ASSUME CInv, pc = "settle", MayCleanUp, ~overflowed, NEW k \in Keys \ tracked
  PROVE  /\ table[k] = Absent \/ Follows(log, k, Here)
         /\ ~Trimmed(stored) => table[k] = Absent \/ Follows(log, k, StoredPos)
  <1>1. /\ Behind /\ ~Idled /\ Reading /\ ~Scanned /\ toScan = {} /\ deletes
        /\ signal = "Complete"
    BY DEF Behind, Reading, Idled, Scanned, Here, MayCleanUp, CInv, Control
  <1>2. table[k] = Absent \/ Follows(log, k, Here)
    BY <1>1 DEF CInv, Unseen
  <1>3. ~Trimmed(stored) => StoredPos <= Here
    BY <1>1, StoredBehind DEF CInv
  <1>4. log \in Seq(Events) /\ StoredPos \in Nat /\ Here \in Nat
    BY PositionTypes DEF CInv, TInv, TypeOK, Events
  <1> QED
    BY <1>2, <1>3, <1>4, FollowsEarlier

LEMMA CleanupHolds ==
  ASSUME CInv, Cleanup
  PROVE  StoredHolds' /\ RunHolds' /\ Unseen'
  <1>1. /\ pc = "settle" /\ MayCleanUp /\ ~overflowed /\ pc' = "release" /\ gaveUp' = FALSE
        /\ dest' = [k \in Keys |-> IF k \in tracked THEN dest[k] ELSE Absent]
        /\ UNCHANGED <<table, log, horizon, stored, deletes, signal, bm, cursor, toScan, tracked,
                       overflowed, cancelled, midway>>
    BY DEF Cleanup, service
  <1>2. /\ Behind /\ ~Idled /\ Reading /\ ~Scanned /\ ~Scanned' /\ Here' = Here
        /\ toScan = {} /\ deletes /\ signal = "Complete"
    BY <1>1 DEF Behind, Reading, Idled, Scanned, Here, MayCleanUp, CInv, Control
  <1>3. ASSUME NEW k \in Keys
        PROVE  /\ dest'[k] = table[k] \/ Follows(log, k, Here)
               /\ ~Trimmed(stored) => dest'[k] = table[k] \/ Follows(log, k, StoredPos)
    <2>1. CASE k \in tracked
      <3>1. OkAt(k, Here)
        BY <1>2, <2>1 DEF CInv, RunHolds, RunCovers
      <3>2. ~Trimmed(stored) => OkAt(k, StoredPos)
        <4>1. ~Trimmed(stored) => StoredPos <= Here
          BY <1>2, StoredBehind DEF CInv
        <4>2. TypeOK /\ StoredPos \in Nat /\ Here \in Nat
          BY PositionTypes DEF CInv, TInv, TypeOK
        <4> QED
          BY <3>1, <4>1, <4>2, OkEarlier
      <3> QED
        BY <1>1, <2>1, <3>1, <3>2 DEF OkAt
    <2>2. CASE k \notin tracked
      BY <1>1, <2>2, DeletedOk
    <2> QED
      BY <2>1, <2>2
  <1>4. StoredHolds'
    <2>1. Trimmed(stored)' = Trimmed(stored) /\ StoredPos' = StoredPos
      BY <1>1 DEF Trimmed, StoredPos, Pos
    <2> QED
      BY <1>1, <1>3, <2>1 DEF StoredHolds, OkAt
  <1>5. RunHolds'
    BY <1>1, <1>2, <1>3 DEF RunHolds, OkAt
  <1>6. Unseen'
    BY <1>1, <1>2 DEF CInv, Unseen
  <1> QED
    BY <1>4, <1>5, <1>6

LEMMA CleanupFailsHolds ==
  ASSUME CInv, CleanupFails
  PROVE  StoredHolds' /\ RunHolds' /\ Unseen'
  <1>1. /\ pc = "settle" /\ MayCleanUp /\ ~overflowed /\ EndRun
        /\ UNCHANGED <<table, log, horizon, stored, deletes, gaveUp, midway>>
    BY DEF CleanupFails, service, hist
  <1>2. PICK S \in SUBSET (Keys \ tracked) :
          dest' = [k \in Keys |-> IF k \in S THEN Absent ELSE dest[k]]
    BY DEF CleanupFails
  <1>3. StoredHolds'
    <2>1. Trimmed(stored)' = Trimmed(stored) /\ StoredPos' = StoredPos
      BY <1>1 DEF Trimmed, StoredPos, Pos
    <2> SUFFICES ASSUME ~Trimmed(stored), NEW k \in Keys, Covers(k)
                 PROVE  dest'[k] = table[k] \/ Follows(log, k, StoredPos)
      <3>1. \A k \in Keys : Covers(k)' = Covers(k)
        BY <1>1 DEF Covers
      <3> QED
        BY <1>1, <2>1, <3>1 DEF StoredHolds, OkAt
    <2>2. CASE k \in S
      <3>1. k \in Keys \ tracked /\ dest'[k] = Absent
        BY <1>2, <2>2
      <3> QED
        BY <1>1, <3>1, DeletedOk
    <2>3. CASE k \notin S
      BY <1>2, <2>3 DEF CInv, StoredHolds, OkAt
    <2> QED
      BY <2>2, <2>3
  <1> QED
    BY <1>1, <1>3, EndRunHolds

\* The held bookmark is where the run has read up to.
LEMMA ReleaseHolds ==
  ASSUME CInv, Release
  PROVE  StoredHolds' /\ RunHolds' /\ Unseen'
  <1>1. /\ pc = "release" /\ EndRun /\ UNCHANGED <<service, dest, deletes, gaveUp>>
    BY DEF Release
  <1>2. /\ held = {bm} /\ deletes /\ signal = "Complete" /\ toScan = {}
    BY <1>1 DEF CInv, Control, Behind
  <1>3. stored' = bm /\ ~midway'
    BY <1>2 DEF Release, Released
  <1>4. Reading /\ ~Scanned /\ Pos(bm) = Here
    BY <1>1 DEF Reading, Idled, Scanned, Behind, Here, CInv, Placed
  <1>5. \A k \in Keys : Covers(k) => RunCovers(k)
    BY <1>1, <1>2 DEF Covers, RunCovers
  <1> QED
    BY <1>1, <1>2, <1>3, <1>4, <1>5, StoredHere, EndRunHolds

LEMMA InvInit == Init => CInv
  <1> SUFFICES ASSUME Init PROVE CInv
    OBVIOUS
  <1>1. TInv
    BY TypeInit
  <1>2. /\ pc = "idle" /\ signal = "Partial" /\ toScan = {} /\ tracked = {} /\ dest = table
        /\ log = <<>> /\ Len(log) = 0
    BY DEF Init
  <1>3. ~Scanned /\ ~Reading /\ ~Behind
    BY <1>2 DEF Scanned, Reading, Idled, Behind
  <1>4. Logged
    BY <1>2 DEF Logged
  <1>5. Control /\ Placed /\ Fresh
    BY <1>2, <1>3 DEF Control, Placed, Fresh
  <1>6. StoredHolds /\ RunHolds /\ Unseen
    BY <1>2, <1>3 DEF StoredHolds, RunHolds, Unseen, OkAt
  <1> QED
    BY <1>1, <1>4, <1>5, <1>6 DEF CInv

LEMMA InvStep ==
  ASSUME AmpleRetention
  PROVE  CInv /\ [Next]_vars => CInv'
  <1> SUFFICES ASSUME CInv, [Next]_vars
               PROVE  CInv'
    OBVIOUS
  <1>1. TInv' /\ Logged' /\ Control' /\ Placed' /\ Fresh'
    BY TypeStep, LoggedStep, ControlStep, PlacedStep DEF CInv, TInv
  <1>2. ASSUME TrimmedUnderfoot \/ SkipCleanup \/ Fail
        PROVE  StoredHolds' /\ RunHolds' /\ Unseen'
    BY <1>2, SameStored, EndRunHolds DEF TrimmedUnderfoot, SkipCleanup, Fail
  <1>3. ASSUME UNCHANGED vars
        PROVE  StoredHolds' /\ RunHolds' /\ Unseen'
    <2>1. /\ UNCHANGED <<service, stored, dest, deletes, hist>>
          /\ UNCHANGED <<pc, signal, bm, cursor, toScan, tracked, overflowed, cancelled, gaveUp>>
      BY <1>3 DEF vars, run, hist
    <2>2. Scanned' = Scanned /\ Reading' = Reading /\ Here' = Here
      BY <2>1 DEF Scanned, Reading, Idled, Behind, Here
    <2>3. \A k \in Keys : RunCovers(k)' => RunCovers(k)
      BY <2>1 DEF RunCovers, service
    <2> QED
      BY <2>1, <2>2, <2>3, SameStored, SameRun
  <1>4. StoredHolds' /\ RunHolds' /\ Unseen'
    BY <1>2, <1>3, ChangeHolds, TrimHolds, StartRunHolds, ScanHolds, EndScanHolds, OpenHolds,
       ReadHolds, CheckpointHolds, CaughtUpHolds, IdleOutHolds, CancelHolds,
       RefuseHolds, CleanupHolds, CleanupFailsHolds, ReleaseHolds
    DEF Next, RunStep
  <1> QED
    BY <1>1, <1>4 DEF CInv

LEMMA Invariant == AmpleRetention => (Spec => []CInv)
  <1> SUFFICES ASSUME AmpleRetention PROVE Spec => []CInv
    OBVIOUS
  <1>1. CInv /\ [Next]_vars => CInv'
    BY InvStep
  <1> QED
    BY <1>1, InvInit, PTL DEF Spec

\* A replay from where the next run starts makes good what the stored position leaves open.
LEMMA ReplayHolds ==
  ASSUME CInv, ~Trimmed(stored), NEW k \in Keys, Covers(k)
  PROVE  dest[k] = table[k] \/ Pending(k, StartFor(stored))
  <1>1. OkAt(k, StoredPos)
    BY DEF CInv, StoredHolds
  <1>2. /\ TypeOK /\ StoredPos \in Nat /\ StartFor(stored) \in Nat
        /\ StartFor(stored) <= StoredPos
    <2>1. /\ TInv /\ TypeOK /\ horizon \in Nat /\ stored.seq \in Nat /\ stored.seen \in Nat
      BY DEF CInv, TInv, TypeOK, Bookmarks
    <2> QED
      BY <2>1 DEF StoredPos, Pos, StartFor, Trimmed
  <1>3. OkAt(k, StartFor(stored))
    BY <1>1, <1>2, OkEarlier
  <1> QED
    BY <1>3 DEF OkAt, Follows, Pending

\* As long as the stream outlasts the runs, whatever the destination has wrong about an item
\* of the table is put right by a change past the stored position, unless the next run finds
\* a gap (stream.rs, cdc_stream; pipeline.rs, the end of Pipeline::run).
THEOREM NothingIsLost == AmpleRetention => (Spec => []NothingLost)
  <1>1. CInv => NothingLost
    BY ReplayHolds DEF NothingLost, Covers
  <1> QED
    BY <1>1, Invariant, PTL

\* And a row whose item is gone is removed by a change past the stored position, but for the
\* two exceptions the code documents (cleanup.rs, HoldingStateStore::release).
THEOREM GhostsAreRemoved == AmpleRetention => (Spec => []NoGhostRows)
  <1>1. CInv => NoGhostRows
    BY ReplayHolds DEF NoGhostRows, Covers
  <1> QED
    BY <1>1, Invariant, PTL
=============================================================================
