----------------------------- MODULE CompleteRead -----------------------------
(***************************************************************************)
(* A change stream that is resumed too late, and the run that repairs it:  *)
(* the DynamoDB Streams source with on_gap: resnapshot                     *)
(* (crates/source/dynamodb/src/stream.rs, lineage.rs, state.rs), the       *)
(* cleanup tracker and the held bookmarks of crates/core/src/cleanup.rs,   *)
(* and the end of Pipeline::run in crates/core/src/pipeline.rs.            *)
(*                                                                         *)
(* A run whose position has been trimmed scans the whole table, replays    *)
(* the retained stream, deletes the destination rows it did not write and  *)
(* only then saves its position.  Any other run applies the changes past   *)
(* its position and saves it page by page.  The stream has one shard here; *)
(* a page is one record.                                                   *)
(***************************************************************************)
EXTENDS Naturals, Sequences, FiniteSets

CONSTANTS
  Keys, Items,
  Absent,         \* no item, no row
  Deletions,      \* the values of resnapshot_deletes to consider
  MaxKeys,        \* resnapshot_max_keys
  MaxEvents,      \* changes of the table (bound)
  MaxFaults,      \* crashes, errors, cancels and throttled readers (bound)
  AmpleRetention  \* the stream is kept for long enough: see Trim

ASSUME CompleteReadAssumption ==
  /\ IsFiniteSet(Keys)
  /\ Absent \notin Items
  /\ Deletions \subseteq BOOLEAN
  /\ MaxKeys \in Nat \ {0}
  /\ MaxEvents \in Nat
  /\ MaxFaults \in Nat
  /\ AmpleRetention \in BOOLEAN

VARIABLES
  \* The service: the table, the changes made to it, how many were trimmed.
  table, log, horizon,
  \* The state store and the destination.
  stored, dest,
  deletes,        \* resnapshot_deletes of this pipeline
  \* The run, lost with the process.
  pc,
  signal,         \* ReadCompleteness
  bm,             \* the bookmark of the source
  cursor,         \* its shard iterator: the changes read or skipped
  toScan,         \* what the scan has not come to
  tracked,        \* SeenKeys
  overflowed,
  held,           \* HoldingStateStore: the bookmark held back, if there is one
  cancelled,
  faults,
  \* History, read by properties and by the bound on Trim only.
  gaveUp,         \* the last complete read had more keys than it could track
  midway          \* part of the stream was replayed from the trim horizon, and the
                  \* stored position does not say so

service == <<table, log, horizon>>
run == <<pc, signal, bm, cursor, toScan, tracked, overflowed, held, cancelled>>
hist == <<gaveUp, midway>>
vars == <<service, stored, dest, deletes, run, faults, hist>>

Row == Items \cup {Absent}

(* StreamBookmark: after a record, or opened and empty.  `seen` stands for
   verified_at, the changes made when the shard was last known to hold nothing
   that was not read. *)
Bookmarks == [seq : Nat, seen : Nat]
After(n) == [seq |-> n, seen |-> 0]
Opened(n) == [seq |-> 0, seen |-> n]

TypeOK ==
  /\ table \in [Keys -> Row] /\ dest \in [Keys -> Row]
  /\ log \in Seq([key : Keys, item : Row])
  /\ horizon \in 0..Len(log)
  /\ stored \in Bookmarks /\ bm \in Bookmarks
  /\ deletes \in Deletions
  /\ pc \in {"idle", "scan", "open", "read", "page", "last", "settle", "release"}
  /\ signal \in {"Partial", "Reading", "Complete"}
  /\ cursor \in 0..Len(log)
  /\ toScan \subseteq Keys
  /\ tracked \subseteq Keys /\ Cardinality(tracked) <= MaxKeys
  /\ overflowed \in BOOLEAN /\ cancelled \in BOOLEAN
  /\ gaveUp \in BOOLEAN /\ midway \in BOOLEAN
  /\ held \subseteq Bookmarks /\ Cardinality(held) <= 1
  /\ faults \in 0..MaxFaults
-------------------------------------------------------------------------------
(* What follows position b in the stream has been trimmed, or the record b names. *)
Trimmed(b) == IF b.seq = 0 THEN b.seen < horizon ELSE b.seq <= horizon

(* Where an iterator acquired at b starts: start_for, after its record or at the
   trim horizon, which never reports trimming. *)
StartFor(b) == IF b.seq = 0 THEN horizon ELSE b.seq

(* detect_gaps and the checks that follow it: a trimmed record is reported by the
   service; an empty shard is a gap once verified_at is 23 hours old, before any
   change since can be trimmed, and maybe with none to trim. *)
Gap(b) == {g \in BOOLEAN : (Trimmed(b) => g) /\ ((g /\ b.seq > 0) => Trimmed(b))}

(* Mutants: what follows the scan is not tracked, or not held back. *)
ScanOnly == deletes /\ signal = "Reading"

(* The gate of the tracker, and that of the held bookmarks; without a cleanup
   there is neither. *)
Tracks == deletes /\ signal # "Partial"
Holds == deletes /\ signal # "Partial"

(* Mutant: the ceiling is checked one key too late. *)
FullLate == Cardinality(tracked) > MaxKeys

Full == Cardinality(tracked) >= MaxKeys

(* SeenKeys::record_page: past the ceiling it forgets everything, for good. *)
Record(k) ==
  IF ~Tracks \/ overflowed \/ k \in tracked THEN UNCHANGED <<tracked, overflowed>>
  ELSE IF Full THEN overflowed' = TRUE /\ tracked' = {}
  ELSE tracked' = tracked \cup {k} /\ UNCHANGED overflowed

(* The store the run puts its bookmarks to: HoldingStateStore when there is a
   cleanup, the versioned store otherwise.  (A run without a scan that puts the
   position it started from has resumed nothing.) *)
Put(b) ==
  IF Holds
  THEN held' = {b} /\ UNCHANGED <<stored, midway>>
  ELSE /\ stored' = b /\ UNCHANGED held
       /\ midway' = (midway /\ signal = "Partial" /\ b = stored)

Fault == faults < MaxFaults /\ faults' = faults + 1

EndRun ==
  /\ pc' = "idle" /\ signal' = "Partial" /\ bm' = Opened(0) /\ cursor' = 0
  /\ toScan' = {} /\ tracked' = {} /\ overflowed' = FALSE /\ held' = {} /\ cancelled' = FALSE
-------------------------------------------------------------------------------
(* A pipeline whose destination was seeded with a snapshot (faucet mirror), its
   position captured at the start of the stream. *)
Init ==
  /\ table \in [Keys -> Row] /\ log = <<>> /\ horizon = 0
  /\ stored = Opened(0) /\ dest = table
  /\ deletes \in Deletions
  /\ pc = "idle" /\ signal = "Partial" /\ bm = Opened(0) /\ cursor = 0
  /\ toScan = {} /\ tracked = {} /\ overflowed = FALSE /\ held = {} /\ cancelled = FALSE
  /\ faults = 0 /\ gaveUp = FALSE /\ midway = FALSE

(* The table changes. *)
Change(k, v) ==
  /\ Len(log) < MaxEvents /\ v # table[k]
  /\ table' = [table EXCEPT ![k] = v]
  /\ log' = Append(log, [key |-> k, item |-> v])
  /\ UNCHANGED <<horizon, stored, dest, deletes, run, faults, hist>>

(* The service trims the oldest change.  AmpleRetention names two things the code
   relies on: what was written since an empty shard was verified is still there
   when the run acquires its iterator (after the scan, if there is one), and a
   replay that was cut short is resumed before its rest is trimmed. *)
Outlasted ==
  \/ pc \in {"scan", "open"} /\ bm.seq = 0 /\ bm.seen <= horizon
  \/ midway /\ stored.seq = 0

Trim ==
  /\ horizon < Len(log)
  /\ AmpleRetention => ~Outlasted
  /\ horizon' = horizon + 1
  /\ UNCHANGED <<table, log, stored, dest, deletes, run, faults, hist>>

(* cdc_stream: past a gap the run captures the position of the stream, before
   the scan, and starts a complete read. *)
StartRun ==
  /\ pc = "idle"
  /\ \E gap \in Gap(stored) :
       IF gap
       THEN /\ bm' = Opened(Len(log)) /\ toScan' = Keys /\ signal' = "Reading"
            /\ pc' = "scan"
       ELSE /\ bm' = stored /\ pc' = "open"
            /\ UNCHANGED <<toScan, signal>>
  /\ UNCHANGED <<service, stored, dest, deletes, cursor, tracked, overflowed, held, cancelled,
                 faults, hist>>

(* One item of the scan is read, written and tracked. *)
Scan(k) ==
  /\ pc = "scan" /\ k \in toScan
  /\ toScan' = toScan \ {k}
  /\ IF table[k] = Absent
     THEN UNCHANGED <<dest, tracked, overflowed>>
     ELSE dest' = [dest EXCEPT ![k] = table[k]] /\ Record(k)
  /\ UNCHANGED <<service, stored, deletes, pc, signal, bm, cursor, held, cancelled, faults,
                 hist>>

(* The last page of the scan carries the captured position. *)
EndScan ==
  /\ pc = "scan" /\ toScan = {}
  /\ Put(bm)
  /\ signal' = "Complete" /\ pc' = "open"
  /\ UNCHANGED <<service, dest, deletes, bm, cursor, toScan, tracked, overflowed, cancelled,
                 faults, gaveUp>>

(* read_slice acquires the iterator of the shard. *)
Open ==
  /\ pc = "open"
  /\ bm.seq > 0 => ~Trimmed(bm)
  /\ cursor' = StartFor(bm) /\ pc' = "read"
  /\ UNCHANGED <<service, stored, dest, deletes, signal, bm, toScan, tracked, overflowed, held,
                 cancelled, faults, hist>>

(* One change is read and written; max_messages may make it the last. *)
Read ==
  /\ pc = "read" /\ horizon <= cursor /\ cursor < Len(log)
  /\ LET e == log[cursor + 1]
     IN  /\ dest' = [dest EXCEPT ![e.key] = e.item]
         /\ Record(e.key)
  /\ cursor' = cursor + 1 /\ bm' = After(cursor + 1)
  /\ pc' \in {"page", "last"}
  /\ midway' = (midway \/ bm.seq = 0)
  /\ UNCHANGED <<service, stored, deletes, signal, toScan, held, cancelled, faults, gaveUp>>

(* The page is durable and its bookmark is put. *)
Checkpoint ==
  /\ pc \in {"page", "last"}
  /\ Put(bm)
  /\ pc' = IF pc = "page" THEN "read" ELSE "settle"
  /\ UNCHANGED <<service, dest, deletes, signal, bm, cursor, toScan, tracked, overflowed,
                 cancelled, faults, gaveUp>>

(* An empty read: an empty shard has been verified.  After idle_termination_secs
   the source ends with a page that carries its bookmark. *)
CaughtUp ==
  /\ pc = "read" /\ cursor = Len(log)
  /\ bm' = IF bm.seq = 0 THEN Opened(Len(log)) ELSE bm
  /\ pc' \in {"read", "last"}
  /\ UNCHANGED <<service, stored, dest, deletes, signal, cursor, toScan, tracked, overflowed,
                 held, cancelled, faults, hist>>

(* These seconds count from the last record, not from an empty read: a reader that
   is throttled for as long ends the same way, wherever it is. *)
IdleOut ==
  /\ pc \in {"open", "read"} /\ Fault
  /\ pc' = "last"
  /\ UNCHANGED <<service, stored, dest, deletes, signal, bm, cursor, toScan, tracked, overflowed,
                 held, cancelled, hist>>

(* The position was trimmed under the reader: the run fails. *)
TrimmedUnderfoot ==
  /\ \/ pc = "open" /\ bm.seq > 0 /\ Trimmed(bm)
     \/ pc = "read" /\ cursor < horizon
  /\ EndRun
  /\ UNCHANGED <<service, stored, dest, deletes, faults, hist>>

(* The run is cancelled; the page loop ends, with success, at a page boundary. *)
Cancel ==
  /\ pc # "idle" /\ ~cancelled /\ Fault
  /\ cancelled' = TRUE
  /\ UNCHANGED <<service, stored, dest, deletes, pc, signal, bm, cursor, toScan, tracked,
                 overflowed, held, hist>>

Stop ==
  /\ pc \in {"scan", "open", "read"} /\ cancelled
  /\ pc' = "settle"
  /\ UNCHANGED <<service, stored, dest, deletes, signal, bm, cursor, toScan, tracked, overflowed,
                 held, cancelled, faults, hist>>

(* Pipeline::run after the page loop.  No cleanup is due ... *)
MayCleanUp == deletes /\ ~cancelled /\ signal = "Complete"

SkipCleanup ==
  /\ pc = "settle" /\ ~MayCleanUp
  /\ EndRun
  /\ UNCHANGED <<service, stored, dest, deletes, faults, hist>>

(* ... or there were too many keys: the position is saved all the same ... *)
Refuse ==
  /\ pc = "settle" /\ MayCleanUp /\ overflowed
  /\ pc' = "release" /\ gaveUp' = TRUE
  /\ UNCHANGED <<service, stored, dest, deletes, signal, bm, cursor, toScan, tracked, overflowed,
                 held, cancelled, faults, midway>>

(* ... or the rows the run did not write are deleted. *)
Cleanup ==
  /\ pc = "settle" /\ MayCleanUp /\ ~overflowed
  /\ dest' = [k \in Keys |-> IF k \in tracked THEN dest[k] ELSE Absent]
  /\ pc' = "release" /\ gaveUp' = FALSE
  /\ UNCHANGED <<service, stored, deletes, signal, bm, cursor, toScan, tracked, overflowed, held,
                 cancelled, faults, midway>>

(* A delete that fails may have deleted some of them. *)
CleanupFails ==
  /\ pc = "settle" /\ MayCleanUp /\ ~overflowed /\ Fault
  /\ \E S \in SUBSET (Keys \ tracked) :
       dest' = [k \in Keys |-> IF k \in S THEN Absent ELSE dest[k]]
  /\ EndRun
  /\ UNCHANGED <<service, stored, deletes, hist>>

(* Mutant: the bookmark that was held is forgotten. *)
Dropped == UNCHANGED stored

(* HoldingStateStore::release writes through what was held. *)
Released == stored' = IF held = {} THEN stored ELSE CHOOSE b \in held : TRUE

Release ==
  /\ pc = "release"
  /\ Released
  /\ EndRun
  /\ midway' = (midway /\ held = {})
  /\ UNCHANGED <<service, dest, deletes, faults, gaveUp>>

(* The process dies, or a call of the source, the sink or the store fails. *)
Fail ==
  /\ pc # "idle" /\ Fault
  /\ EndRun
  /\ UNCHANGED <<service, stored, dest, deletes, hist>>

RunStep ==
  \/ StartRun \/ EndScan \/ Open \/ Read \/ Checkpoint \/ CaughtUp \/ TrimmedUnderfoot
  \/ Stop \/ SkipCleanup \/ Refuse \/ Cleanup \/ Release
  \/ \E k \in Keys : Scan(k)

Next ==
  \/ RunStep
  \/ \E k \in Keys, v \in Row : Change(k, v)
  \/ Trim \/ Cancel \/ IdleOut \/ CleanupFails \/ Fail

Spec == Init /\ [][Next]_vars

(* The pipeline is run again and again, and a run that is not killed goes on. *)
FairSpec == Spec /\ WF_vars(RunStep)
-------------------------------------------------------------------------------
(* A change of k follows position n in the stream. *)
Pending(k, n) == \E m \in (n + 1)..Len(log) : log[m].key = k

(* The position claims no more than the destination holds: unless the next run
   finds a gap, whatever the destination has wrong about an item of the table is
   put right by a change past the stored position.  Neither the delete of what a
   complete read did not see nor a replay from the trim horizon may lose a live
   item (lineage.rs: "Replaying the retained window after a snapshot converges").  It
   rests on AmpleRetention. *)
NothingLost ==
  ~Trimmed(stored) =>
    \A k \in Keys : table[k] # Absent => (dest[k] = table[k] \/ Pending(k, StartFor(stored)))

(* The position never passes a delete that is due: unless the next run finds a
   gap, a row whose item is gone is removed by a change past the stored position
   (cleanup.rs: "a crash, a cancel or a failed delete leaves the previous
   bookmark").  Two exceptions are by design: resnapshot_deletes: false, and a
   table too large to track.  It rests on AmpleRetention too. *)
NoGhostRows ==
  (~Trimmed(stored) /\ deletes /\ ~gaveUp) =>
    \A k \in Keys : table[k] = Absent => (dest[k] = Absent \/ Pending(k, StartFor(stored)))

(* Once the table is left alone, the destination becomes its copy and stays so
   (but for the rows of the two exceptions), whatever failed on the way: no gap,
   overflow or failed delete makes the runs go round for ever. *)
MirrorConverges ==
  <>[](\A k \in Keys : \/ dest[k] = table[k]
                       \/ table[k] = Absent /\ (gaveUp \/ ~deletes))
===============================================================================
