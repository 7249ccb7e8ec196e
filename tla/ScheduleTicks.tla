---------------------------- MODULE ScheduleTicks ----------------------------
(***************************************************************************)
(* The ticks of one schedule on a cluster (cli/src/serve/schedules).  Every *)
(* member fires every tick: it looks for a run of another tick that is      *)
(* still going, claims the tick's idempotency key, writes the run's record, *)
(* and records the tick as committed.  The claim is all that keeps the      *)
(* members apart; the record of the last tick is all that a restarted       *)
(* member knows.  A member that finds the history unreachable degrades to a *)
(* store in memory until the history answers again.                         *)
(*                                                                          *)
(* Time is counted in ticks: tick t is due once now >= t.  The schedule was *)
(* created through the API at time 0, which is what its record says.        *)
(***************************************************************************)
EXTENDS Integers, Sequences

CONSTANTS Members,    \* the servers that share the history
          Configs,    \* the schedules to look at
          MaxTick,    \* the last tick
          MaxFaults   \* crashes, outages, refusals and edits of the schedule

ASSUME ScheduleTicksAssumption ==
  /\ Configs \subseteq [overlap : {"skip", "queue", "forbid"},
                          catchUp : BOOLEAN,
                          stamped : BOOLEAN]   \* a param holds the time of the try
  /\ MaxTick \in Nat
  /\ MaxFaults \in Nat

Ticks == 1..MaxTick

\* How a tick may go for a member.  One that finds the key claimed by another request is
\* "started" too (classify).
Outcomes == {"started", "overlap", "refused", "error", "orphan", "missed"}

VARIABLES
  config,            \* the schedule's options
  edited,            \* whether its definition has changed
  now,               \* the latest tick that is due
  last,              \* the record of the last committed tick
  claim,             \* tick -> the run its idempotency key is claimed for, or 0
  runs,              \* tick -> the runs it was claimed for, in order
  lost,              \* ticks with a run whose write failed after its effect
  outcomes,          \* how ticks went: pairs of a tick and an outcome
  pc,                \* member -> its next call
  next,              \* member -> the tick its entry waits for or is firing
  resumed,           \* member -> whether its entry has read the record
  hand,              \* member -> the run of the tick being fired, or 0
  why,               \* member -> how the tick it is firing went
  degraded,          \* member -> whether it serves calls from memory
  faults

history == <<last, claim, runs, lost, outcomes>>
entry   == <<pc, next, resumed, hand, why>>
vars    == <<config, edited, now, history, entry, degraded, faults>>

Written(t, n) == runs[t][n] # "unwritten"
Started(t)    == \E n \in DOMAIN runs[t] : Written(t, n)

\* Two tries of a tick may make different requests: a parameter holds the time of the try,
\* or the definition has changed in between.
Varies == config.stamped \/ edited

\* A run of another tick is queued or running (earlier_run_going).
OtherGoing(t) == \E s \in Ticks \ {t} : \E n \in DOMAIN runs[s] : runs[s][n] = "going"

Init ==
  /\ config \in Configs
  /\ edited = FALSE
  /\ now = 0
  /\ last = 0
  /\ claim = [t \in Ticks |-> 0]
  /\ runs = [t \in Ticks |-> <<>>]
  /\ lost = {}
  /\ outcomes = {}
  /\ pc = [m \in Members |-> "check"]
  /\ next = [m \in Members |-> 1]
  /\ resumed = [m \in Members |-> FALSE]
  /\ hand = [m \in Members |-> 0]
  /\ why = [m \in Members |-> "none"]
  /\ degraded = [m \in Members |-> FALSE]
  /\ faults = 0

\* How a call to the history goes.  An outage that outlives the retries of a call degrades
\* the member; one that does not, and any other error, leaves it as it is.
Fault   == faults < MaxFaults /\ faults' = faults + 1
Trip(m) == Fault /\ ~degraded[m] /\ degraded' = [degraded EXCEPT ![m] = TRUE]
Glitch  == Fault /\ UNCHANGED degraded
Fine    == UNCHANGED <<faults, degraded>>

Goto(m, l) == pc' = [pc EXCEPT ![m] = l]

\* The tick has an outcome for m, to be committed; or it is tried again later.
Ends(m, o) == Goto(m, "commit") /\ why' = [why EXCEPT ![m] = o]
Retry(m)   == Goto(m, "check") /\ hand' = [hand EXCEPT ![m] = 0] /\ UNCHANGED why

-----------------------------------------------------------------------------
(* The place of an entry in time. *)

\* settle_missed: of the due ticks after t all but the latest never run, and without
\* catch_up the latest does not either.
Missed(t) == {s \in Ticks : t < s /\ s <= now /\ (s < now \/ ~config.catchUp)} \X {"missed"}
AfterGapNone == now + 1  \* mutant: catch_up is forgotten
AfterGap == IF config.catchUp THEN now ELSE now + 1

(* Mutant: the record is not read. *)
ResumeBlindly(m) ==
  /\ pc[m] = "check" /\ ~resumed[m] /\ ~degraded[m]
  /\ resumed' = [resumed EXCEPT ![m] = TRUE]
  /\ Fine
  /\ UNCHANGED <<config, edited, now, history, pc, next, hand, why>>

\* The first half of step: an entry that is new in this process reads the record.
ResumeFrom(m) ==
  /\ pc[m] = "check" /\ ~resumed[m] /\ ~degraded[m]
  /\ resumed' = [resumed EXCEPT ![m] = TRUE]
  /\ next' = [next EXCEPT ![m] = IF now > last THEN AfterGap ELSE @]
  /\ outcomes' = outcomes \union Missed(last)
  /\ Fine
  /\ UNCHANGED <<config, edited, now, last, claim, runs, lost, pc, hand, why>>

\* record_tick
Recorded(t) == IF last >= t THEN last ELSE t

\* The end of step: the tick is recorded, never backwards, if the history can be reached,
\* and the entry advances past it; one more tick that is due is only late.
Commit(m) ==
  /\ pc[m] = "commit"
  /\ LET t == next[m]
         behind == now > t + 1
     IN  /\ \/ ~degraded[m] /\ Fine /\ last' = Recorded(t)
            \/ degraded[m] /\ Fine /\ UNCHANGED last
            \/ ~degraded[m] /\ Glitch /\ UNCHANGED last
            \/ Trip(m) /\ last' \in {last, Recorded(t)}
         /\ next' = [next EXCEPT ![m] = IF behind THEN AfterGap ELSE t + 1]
         /\ outcomes' = outcomes \union {<<t, why[m]>>}
                                 \union (IF behind THEN Missed(t) ELSE {})
  /\ Goto(m, "check")
  /\ hand' = [hand EXCEPT ![m] = 0]
  /\ why' = [why EXCEPT ![m] = "none"]
  /\ UNCHANGED <<config, edited, now, claim, runs, lost, resumed>>

-----------------------------------------------------------------------------
(* Firing a tick: fire_target, and enqueue on a clustered server. *)

\* What is refused before a claim, and the overlap rule.  A degraded member lists the runs
\* of its memory: none.
Look(m) ==
  /\ pc[m] = "check" /\ resumed[m] /\ next[m] <= now
  /\ \/ /\ ~degraded[m] /\ Fine /\ OtherGoing(next[m]) /\ config.overlap # "queue"
        /\ Ends(m, "overlap")
     \/ (degraded[m] \/ ~OtherGoing(next[m])) /\ Fine /\ Goto(m, "claim") /\ UNCHANGED why
     \/ Trip(m) /\ Goto(m, "claim") /\ UNCHANGED why
     \/ Glitch /\ Ends(m, "refused")
  /\ UNCHANGED <<config, edited, now, history, next, resumed, hand>>

\* The run a fresh claim of t is for.
Fresh(t) == Len(runs[t]) + 1

(* Mutant: the claim replaces another. *)
UpsertClaim(t) ==
  /\ claim' = [claim EXCEPT ![t] = Fresh(t)]
  /\ runs' = [runs EXCEPT ![t] = Append(@, "unwritten")]

InsertClaim(t) ==
  /\ claim[t] = 0
  /\ claim' = [claim EXCEPT ![t] = Fresh(t)]
  /\ runs' = [runs EXCEPT ![t] = Append(@, "unwritten")]

\* The template is read and the key claimed.  A call whose answer is lost is made again,
\* and finds the claim it has just inserted.  A claim for another request is a conflict,
\* which classify takes for a run that another server started; nobody looks for the run.
Claim(m) ==
  /\ pc[m] = "claim"
  /\ LET t == next[m] IN
     \/ /\ degraded[m] /\ Fine /\ Retry(m)
        /\ UNCHANGED <<claim, runs>>
     \/ /\ ~degraded[m] /\ Fine /\ InsertClaim(t)
        /\ Goto(m, "write") /\ hand' = [hand EXCEPT ![m] = Fresh(t)] /\ UNCHANGED why
     \/ /\ ~degraded[m] /\ Glitch /\ InsertClaim(t)
        /\ Goto(m, "replay") /\ hand' = [hand EXCEPT ![m] = Fresh(t)] /\ UNCHANGED why
     \/ /\ ~degraded[m] /\ Fine /\ claim[t] # 0
        /\ \/ Goto(m, "replay") /\ hand' = [hand EXCEPT ![m] = claim[t]] /\ UNCHANGED why
           \/ Varies /\ Ends(m, "started") /\ UNCHANGED hand
        /\ UNCHANGED <<claim, runs>>
     \/ /\ Trip(m) /\ Retry(m)
        /\ InsertClaim(t) \/ UNCHANGED <<claim, runs>>
     \/ /\ ~degraded[m] /\ Glitch /\ \E o \in {"error", "refused"} : Ends(m, o)
        /\ UNCHANGED <<claim, runs, hand>>
  /\ UNCHANGED <<config, edited, now, last, lost, outcomes, next, resumed>>

\* replay_response: the run of an existing claim is read.  Memory knows of none.
Replay(m) ==
  /\ pc[m] = "replay"
  /\ \/ ~degraded[m] /\ Fine /\ Ends(m, IF Written(next[m], hand[m]) THEN "started" ELSE "orphan")
     \/ degraded[m] /\ Fine /\ Ends(m, "orphan")
     \/ Trip(m) /\ Ends(m, "orphan")
     \/ ~degraded[m] /\ Glitch /\ Ends(m, "error")
  /\ UNCHANGED <<config, edited, now, history, next, resumed, hand>>

PutRun(t, n, s) == runs' = [runs EXCEPT ![t][n] = s]

\* The run's record.  A server that is already degraded turns the run away and leaves the
\* claim; after a failed write it releases it.
WriteRun(m) ==
  /\ pc[m] = "write"
  /\ LET t == next[m]
         keep == UNCHANGED <<runs, lost>>
     IN  \/ degraded[m] /\ Fine /\ Retry(m) /\ keep
         \/ /\ ~degraded[m] /\ Fine /\ Ends(m, "started")
            /\ PutRun(t, hand[m], "going") /\ UNCHANGED <<lost, hand>>
         \/ /\ ~degraded[m] /\ Glitch /\ Goto(m, "release")
            /\ why' = [why EXCEPT ![m] = "error"] /\ keep /\ UNCHANGED hand
         \/ /\ Trip(m) /\ Goto(m, "release") /\ UNCHANGED <<why, hand>>
            /\ keep \/ (PutRun(t, hand[m], "going") /\ lost' = lost \union {t})
  /\ UNCHANGED <<config, edited, now, last, claim, outcomes, next, resumed>>

\* release_orphaned_claim: best effort, by run; in memory there is nothing to release.
Release(m) ==
  /\ pc[m] = "release"
  /\ LET t == next[m]
         keep == UNCHANGED claim
     IN  \/ degraded[m] /\ Fine /\ keep
         \/ ~degraded[m] /\ Fine
            /\ claim' = [claim EXCEPT ![t] = IF @ = hand[m] THEN 0 ELSE @]
         \/ ~degraded[m] /\ Glitch /\ keep
         \/ Trip(m) /\ keep
  /\ IF why[m] = "error" THEN Goto(m, "commit") /\ UNCHANGED <<hand, why>> ELSE Retry(m)
  /\ UNCHANGED <<config, edited, now, last, runs, lost, outcomes, next, resumed>>

-----------------------------------------------------------------------------
(* What happens around the loop. *)

\* A tick falls due.
Tick ==
  /\ now < MaxTick
  /\ now' = now + 1
  /\ UNCHANGED <<config, edited, history, entry, degraded, faults>>

EndRun(t, n) ==
  /\ n \in DOMAIN runs[t] /\ runs[t][n] = "going"
  /\ PutRun(t, n, "over")
  /\ UNCHANGED <<config, edited, now, last, claim, lost, outcomes, entry, degraded, faults>>

\* An entry starts over: Entry::new.
NewEntry(m) ==
  /\ next' = [next EXCEPT ![m] = now + 1]
  /\ resumed' = [resumed EXCEPT ![m] = FALSE]
  /\ hand' = [hand EXCEPT ![m] = 0]
  /\ why' = [why EXCEPT ![m] = "none"]

Crash(m) ==
  /\ pc[m] # "down" /\ Fault
  /\ Goto(m, "down")
  /\ degraded' = [degraded EXCEPT ![m] = FALSE]
  /\ NewEntry(m)
  /\ UNCHANGED <<config, edited, now, history>>

Restart(m) ==
  /\ pc[m] = "down"
  /\ Goto(m, "check")
  /\ NewEntry(m)
  /\ UNCHANGED <<config, edited, now, history, degraded, faults>>

\* reconcile: the schedule was edited, cron and timezone apart, and m rebuilds its entry.
Reload(m) ==
  /\ pc[m] = "check" /\ ~degraded[m] /\ Glitch
  /\ edited' = TRUE
  /\ NewEntry(m)
  /\ UNCHANGED <<config, now, history, pc>>

\* Some other call of the member finds the history unreachable.
Degrade(m) ==
  /\ pc[m] # "down" /\ Trip(m)
  /\ UNCHANGED <<config, edited, now, history, entry>>

\* try_recover
Recover(m) ==
  /\ degraded[m]
  /\ degraded' = [degraded EXCEPT ![m] = FALSE]
  /\ UNCHANGED <<config, edited, now, history, entry, faults>>

Step(m) ==
  ResumeFrom(m) \/ Look(m) \/ Claim(m) \/ Replay(m) \/ WriteRun(m) \/ Release(m) \/ Commit(m)

Next ==
  \/ Tick
  \/ \E t \in Ticks : \E n \in DOMAIN runs[t] : EndRun(t, n)
  \/ \E m \in Members : Step(m) \/ Crash(m) \/ Restart(m) \/ Reload(m) \/ Degrade(m) \/ Recover(m)

Spec == Init /\ [][Next]_vars

\* A live member goes on with its loop and probes a history it lost; runs end; a member
\* that died is started again.
Fairness ==
  /\ \A m \in Members : WF_vars(Step(m)) /\ WF_vars(Recover(m)) /\ WF_vars(Restart(m))
  /\ WF_vars(\E t \in Ticks : \E n \in DOMAIN runs[t] : EndRun(t, n))

FairSpec == Spec /\ Fairness

-----------------------------------------------------------------------------
ClockOK ==
  /\ config \in Configs /\ edited \in BOOLEAN
  /\ now \in 0..MaxTick /\ last \in 0..MaxTick
  /\ lost \subseteq Ticks
  /\ outcomes \subseteq Ticks \X Outcomes

RunsOK ==
  /\ runs \in [Ticks -> Seq({"unwritten", "going", "over"})]
  /\ claim \in [Ticks -> Nat]
  /\ \A t \in Ticks : claim[t] <= Len(runs[t])

EntriesOK ==
  /\ pc \in [Members -> {"down", "check", "claim", "replay", "write", "release", "commit"}]
  /\ next \in [Members -> 1..(MaxTick + 1)]
  /\ resumed \in [Members -> BOOLEAN]
  /\ hand \in [Members -> Nat]
  /\ why \in [Members -> Outcomes \union {"none"}]

FaultsOK ==
  /\ degraded \in [Members -> BOOLEAN]
  /\ faults \in 0..MaxFaults

TypeOK == ClockOK /\ RunsOK /\ EntriesOK /\ FaultsOK

\* What stands behind a tick that is said to have started: a run; or no more than a claim,
\* where tries may differ and one that meets another's claim does not look for its run.
Vouched(t) == Started(t) \/ (Varies /\ runs[t] # <<>>)

\* A tick the record has passed, which a restarted member will not look at again, has an
\* outcome.  While all tries of a tick make the same request, it is said to have started
\* only if it has a run; with a stamped parameter or after an edit, only if somebody has
\* claimed it, who may have died before the run was written (step, resume_from,
\* record_tick, classify).
RecordIsSettled ==
  /\ \A t \in Ticks : t <= last => \E o \in Outcomes : <<t, o>> \in outcomes
  /\ \A t \in Ticks : <<t, "started">> \in outcomes => Vouched(t)

\* However many members fire a tick and however often they retry it, it has at most one
\* run, unless the write of a run's record failed after its effect (enqueue).
OneRunPerTick ==
  \A t \in Ticks \ lost : \A n, k \in DOMAIN runs[t] : Written(t, n) /\ Written(t, k) => n = k

\* A tick that is due starts a run or gets another outcome, whatever is down, held up or
\* edited meanwhile (step, settle_missed, back_off).
TickIsSettled ==
  \A t \in Ticks : now >= t ~> Started(t) \/ \E o \in Outcomes : <<t, o>> \in outcomes

\* docs/book/src/cookbook/schedules.md: a tick that cannot start for a passing reason is
\* retried until it starts.  So it ends with a run unless it is refused, held off by the
\* overlap rule or missed.
TickStarts ==
  \A t \in Ticks : now >= t ~>
    Started(t) \/ \E o \in {"overlap", "refused", "error", "missed"} : <<t, o>> \in outcomes
=============================================================================
