------------------------ MODULE ScheduleTicksProofs ------------------------
(***************************************************************************)
(* For any number of members, ticks and faults: a tick that the record has  *)
(* passed has an outcome, and no tick has two runs.                         *)
(***************************************************************************)
EXTENDS ScheduleTicks, TLAPS

Labels == {"down", "check", "claim", "replay", "write", "release", "commit"}
States == {"unwritten", "going", "over"}

LEMMA TicksFact == \A t \in Ticks : t \in Nat /\ t >= 1 /\ t <= MaxTick
  BY ScheduleTicksAssumption DEF Ticks

-----------------------------------------------------------------------------
(* Types. *)

\* Which run a member has in hand where, and where in time its entry is.
Placed ==
  /\ last <= now
  /\ \A m \in Members :
       /\ next[m] <= now + 1
       /\ pc[m] \notin {"down", "check"} => resumed[m] /\ next[m] <= now
       /\ pc[m] \in {"replay", "write", "release"} => hand[m] \in 1..Len(runs[next[m]])
       /\ pc[m] = "commit" => why[m] \in Outcomes

TInv == TypeOK /\ Placed

\* What every run a tick was claimed for looks like after a step: as before, but for one
\* that is added unwritten or changes its state.
LEMMA InsertTypes ==
  ASSUME RunsOK, NEW t \in Ticks, InsertClaim(t)
  PROVE  /\ runs' \in [Ticks -> Seq(States)]
         /\ claim' \in [Ticks -> Nat]
         /\ \A s \in Ticks : claim'[s] <= Len(runs'[s])
         /\ \A s \in Ticks : Len(runs[s]) <= Len(runs'[s])
         /\ Len(runs'[t]) = Fresh(t)
         /\ Len(runs'[t]) = Len(runs[t]) + 1
         /\ \A s \in Ticks \ {t} : runs'[s] = runs[s]
         /\ \A n \in 1..Len(runs[t]) : runs'[t][n] = runs[t][n]
         /\ runs'[t][Fresh(t)] = "unwritten"
         /\ claim' = [claim EXCEPT ![t] = Fresh(t)]
         /\ Fresh(t) \in Nat \ {0}
         /\ claim[t] = 0
  <1> USE DEF RunsOK, States
  <1>1. runs[t] \in Seq(States) /\ Len(runs[t]) \in Nat
    OBVIOUS
  <1>2. runs'[t] = Append(runs[t], "unwritten") /\ \A s \in Ticks \ {t} : runs'[s] = runs[s]
    BY DEF InsertClaim
  <1>3. runs'[t] \in Seq(States) /\ Len(runs'[t]) = Len(runs[t]) + 1
    BY <1>1, <1>2
  <1>4. runs' \in [Ticks -> Seq(States)]
    BY <1>1, <1>3 DEF InsertClaim
  <1>5. Fresh(t) = Len(runs[t]) + 1 /\ Fresh(t) \in Nat \ {0}
    BY <1>1 DEF Fresh
  <1>6. claim' \in [Ticks -> Nat] /\ claim' = [claim EXCEPT ![t] = Fresh(t)] /\ claim[t] = 0
    BY <1>5 DEF InsertClaim
  <1>7. ASSUME NEW s \in Ticks
        PROVE  Len(runs[s]) \in Nat /\ Len(runs[s]) <= Len(runs'[s])
    <2>1. runs[s] \in Seq(States)
      OBVIOUS
    <2> QED
      BY <1>2, <1>3, <2>1
  <1>8. \A s \in Ticks : claim'[s] <= Len(runs'[s])
    BY <1>2, <1>3, <1>5, <1>6, <1>7
  <1>9. /\ \A n \in 1..Len(runs[t]) : runs'[t][n] = runs[t][n]
        /\ runs'[t][Fresh(t)] = "unwritten"
    BY <1>1, <1>2, <1>5
  <1> QED
    BY <1>2, <1>3, <1>4, <1>5, <1>6, <1>7, <1>8, <1>9

LEMMA PutTypes ==
  ASSUME RunsOK, NEW t \in Ticks, NEW n \in 1..Len(runs[t]), NEW s \in States, PutRun(t, n, s)
  PROVE  /\ runs' \in [Ticks -> Seq(States)]
         /\ \A u \in Ticks : Len(runs'[u]) = Len(runs[u])
         /\ \A u \in Ticks \ {t} : runs'[u] = runs[u]
         /\ runs'[t][n] = s
         /\ \A k \in 1..Len(runs[t]) : k # n => runs'[t][k] = runs[t][k]
  <1> USE DEF RunsOK, States
  <1>1. runs[t] \in Seq(States) /\ Len(runs[t]) \in Nat
    OBVIOUS
  <1>2. runs'[t] = [runs[t] EXCEPT ![n] = s] /\ \A u \in Ticks \ {t} : runs'[u] = runs[u]
    BY DEF PutRun
  <1>3. runs'[t] \in Seq(States) /\ Len(runs'[t]) = Len(runs[t])
    BY <1>1, <1>2
  <1>4. runs' \in [Ticks -> Seq(States)]
    BY <1>1, <1>2, <1>3 DEF PutRun
  <1>5. runs'[t][n] = s /\ \A k \in 1..Len(runs[t]) : k # n => runs'[t][k] = runs[t][k]
    BY <1>1, <1>2
  <1>6. \A u \in Ticks : Len(runs'[u]) = Len(runs[u])
    BY <1>2, <1>3
  <1> QED
    BY <1>2, <1>4, <1>5, <1>6

\* A member that is firing a tick is firing one that is due.
LEMMA FiringTick ==
  ASSUME ClockOK, EntriesOK, Placed, NEW m \in Members, pc[m] \notin {"down", "check"}
  PROVE  next[m] \in Ticks /\ next[m] <= now /\ resumed[m]
  <1>1. next[m] \in 1..(MaxTick + 1) /\ now \in 0..MaxTick
    BY DEF EntriesOK, ClockOK
  <1>2. next[m] <= now /\ resumed[m]
    BY DEF Placed
  <1> QED
    BY <1>1, <1>2, ScheduleTicksAssumption DEF Ticks

\* Calls of a member only ever count faults and degrade it.
LEMMA CallTypes ==
  ASSUME FaultsOK, NEW m \in Members, Fine \/ Trip(m) \/ Glitch
  PROVE  FaultsOK'
  <1>1. CASE Fine
    BY <1>1 DEF Fine, FaultsOK
  <1>2. CASE Trip(m)
    <2>1. degraded' \in [Members -> BOOLEAN]
      BY <1>2 DEF Trip, FaultsOK
    <2>2. faults' \in 0..MaxFaults
      BY <1>2, ScheduleTicksAssumption DEF Trip, Fault, FaultsOK
    <2> QED
      BY <2>1, <2>2 DEF FaultsOK
  <1>3. CASE Glitch
    BY <1>3, ScheduleTicksAssumption DEF Glitch, Fault, FaultsOK
  <1> QED
    BY <1>1, <1>2, <1>3

LEMMA TypeInit == Init => TInv
  <1> SUFFICES ASSUME Init PROVE TInv
    OBVIOUS
  <1>1. \A t \in Ticks : runs[t] = <<>> /\ claim[t] = 0
    BY DEF Init
  <1>2. RunsOK
    BY <1>1 DEF Init, RunsOK
  <1>3. ClockOK
    <2>1. now \in 0..MaxTick /\ last \in 0..MaxTick
      BY ScheduleTicksAssumption DEF Init
    <2> QED
      BY <2>1, Zenon DEF Init, ClockOK
  <1>4. EntriesOK
    BY ScheduleTicksAssumption DEF Init, EntriesOK
  <1>5. FaultsOK
    BY ScheduleTicksAssumption DEF Init, FaultsOK
  <1>6. Placed
    BY DEF Init, Placed
  <1> QED
    BY <1>2, <1>3, <1>4, <1>5, <1>6 DEF TInv, TypeOK

LEMMA TypeStep == TInv /\ [Next]_vars => TInv'
  <1> SUFFICES ASSUME ClockOK, RunsOK, EntriesOK, FaultsOK, Placed, [Next]_vars
               PROVE  ClockOK' /\ RunsOK' /\ EntriesOK' /\ FaultsOK' /\ Placed'
    BY DEF TInv, TypeOK
  <1> DEFINE Goal == ClockOK' /\ RunsOK' /\ EntriesOK' /\ FaultsOK' /\ Placed'
  <1> USE ScheduleTicksAssumption
  <1>1. ASSUME NEW m \in Members, ResumeFrom(m)
        PROVE  Goal
    <2>1. Missed(last) \subseteq Ticks \X Outcomes
      BY DEF Missed, Outcomes
    <2>2. ClockOK'
      BY <1>1, <2>1 DEF ResumeFrom, ClockOK
    <2>3. RunsOK'
      BY <1>1 DEF ResumeFrom, RunsOK
    <2>4. EntriesOK'
      BY <1>1 DEF ResumeFrom, EntriesOK, ClockOK, Placed, AfterGap
    <2>5. FaultsOK'
      BY <1>1, CallTypes DEF ResumeFrom
    <2>6. Placed'
      BY <1>1 DEF ResumeFrom, EntriesOK, ClockOK, Placed, AfterGap
    <2> QED
      BY <2>2, <2>3, <2>4, <2>5, <2>6
  <1>2. ASSUME NEW m \in Members, Commit(m)
        PROVE  Goal
    <2>1. Missed(next[m]) \subseteq Ticks \X Outcomes
      BY DEF Missed, Outcomes
    <2>2. next[m] \in Ticks /\ why[m] \in Outcomes /\ next[m] <= now
      BY <1>2, FiringTick DEF Commit, Placed
    <2>3. outcomes' \subseteq Ticks \X Outcomes
      BY <1>2, <2>1, <2>2 DEF Commit, ClockOK
    <2>4. FaultsOK'
      BY <1>2, CallTypes DEF Commit
    <2>5. last' \in 0..MaxTick /\ last' <= now
      BY <1>2, <2>2, TicksFact DEF Commit, ClockOK, Placed, Recorded
    <2>6. next' \in [Members -> 1..(MaxTick + 1)] /\ \A k \in Members : next'[k] <= now + 1
      BY <1>2, <2>2, TicksFact DEF Commit, EntriesOK, ClockOK, Placed, AfterGap
    <2>7. ClockOK' /\ RunsOK'
      BY <1>2, <2>3, <2>5 DEF Commit, ClockOK, RunsOK
    <2>8. EntriesOK'
      BY <1>2, <2>6 DEF Commit, Goto, EntriesOK
    <2>9. Placed'
      BY <1>2, <2>2, <2>5, <2>6 DEF Commit, Goto, Placed, EntriesOK
    <2> QED
      BY <2>4, <2>7, <2>8, <2>9
  <1>3. ASSUME NEW m \in Members, Look(m)
        PROVE  Goal
    <2>1. ClockOK' /\ RunsOK'
      BY <1>3 DEF Look, ClockOK, RunsOK, history
    <2>2. FaultsOK'
      BY <1>3, CallTypes DEF Look
    <2>3. EntriesOK'
      BY <1>3 DEF Look, EntriesOK, Goto, Ends, Outcomes
    <2>4. Placed'
      BY <1>3 DEF Look, EntriesOK, Placed, Goto, Ends, history, Outcomes
    <2> QED
      BY <2>1, <2>2, <2>3, <2>4
  <1>4. ASSUME NEW m \in Members, Claim(m)
        PROVE  Goal
    <2> DEFINE t == next[m]
    <2>1. t \in Ticks /\ t <= now /\ resumed[m]
      BY <1>4, FiringTick DEF Claim
    <2>2. InsertClaim(t) \/ UNCHANGED <<claim, runs>>
      BY <1>4 DEF Claim
    <2>3. RunsOK' /\ \A s \in Ticks : Len(runs[s]) \in Nat /\ Len(runs'[s]) \in Nat
                                      /\ Len(runs[s]) <= Len(runs'[s])
      BY <2>1, <2>2, InsertTypes DEF RunsOK, States
    <2>4. /\ hand' \in [Members -> Nat]
          /\ pc'[m] = "replay" \/ pc'[m] = "write" => hand'[m] \in 1..Len(runs'[t])
      <3>1. CASE InsertClaim(t)
        <4>1. Fresh(t) \in 1..Len(runs'[t]) /\ claim[t] = 0 /\ Fresh(t) \in Nat
          BY <2>1, <3>1, InsertTypes
        <4> QED
          BY <1>4, <4>1 DEF Claim, EntriesOK, Goto, Ends, Retry
      <3>2. CASE ~InsertClaim(t)
        <4>1. claim[t] # 0 => claim[t] \in 1..Len(runs'[t])
          BY <2>1, <2>2, <2>3, <3>2 DEF RunsOK
        <4> QED
          BY <1>4, <2>1, <3>2, <4>1 DEF Claim, EntriesOK, Goto, Ends, Retry, Varies
      <3> QED
        BY <3>1, <3>2
    <2>5. /\ why' \in [Members -> Outcomes \union {"none"}]
          /\ pc' \in [Members -> Labels]
          /\ pc'[m] \in {"check", "write", "replay", "commit"}
          /\ pc'[m] = "commit" => why'[m] \in Outcomes
          /\ \A k \in Members \ {m} : pc'[k] = pc[k] /\ hand'[k] = hand[k] /\ why'[k] = why[k]
      BY <1>4 DEF Claim, EntriesOK, Goto, Ends, Retry, Outcomes, Labels
    <2>6. FaultsOK'
      BY <1>4, CallTypes DEF Claim
    <2>7. ClockOK' /\ EntriesOK'
      BY <1>4, <2>4, <2>5 DEF Claim, ClockOK, EntriesOK, Labels
    <2>8. ASSUME NEW k \in Members
          PROVE  pc'[k] \in {"replay", "write", "release"} => hand'[k] \in 1..Len(runs'[next[k]])
      <3>1. pc[k] \in {"replay", "write", "release"} =>
              next[k] \in Ticks /\ hand[k] \in 1..Len(runs[next[k]])
        BY FiringTick DEF Placed
      <3> QED
        BY <2>3, <2>4, <2>5, <3>1
    <2>9. Placed'
      BY <1>4, <2>1, <2>5, <2>8 DEF Claim, Placed
    <2> QED
      BY <2>3, <2>6, <2>7, <2>9
  <1>5. ASSUME NEW m \in Members, Replay(m)
        PROVE  Goal
    <2>1. ClockOK' /\ RunsOK'
      BY <1>5 DEF Replay, ClockOK, RunsOK, history
    <2>2. FaultsOK'
      BY <1>5, CallTypes DEF Replay
    <2>3. EntriesOK'
      BY <1>5 DEF Replay, EntriesOK, Goto, Ends, Outcomes
    <2>4. Placed'
      BY <1>5 DEF Replay, EntriesOK, Placed, Goto, Ends, history, Outcomes
    <2> QED
      BY <2>1, <2>2, <2>3, <2>4
  <1>6. ASSUME NEW m \in Members, WriteRun(m)
        PROVE  Goal
    <2> DEFINE t == next[m]
    <2>1. t \in Ticks /\ t <= now /\ resumed[m] /\ hand[m] \in 1..Len(runs[t])
      BY <1>6, FiringTick DEF WriteRun, Placed
    <2>2. PutRun(t, hand[m], "going") \/ UNCHANGED runs
      BY <1>6 DEF WriteRun
    <2>3. /\ runs' \in [Ticks -> Seq(States)]
          /\ \A u \in Ticks : Len(runs'[u]) = Len(runs[u])
      BY <2>1, <2>2, PutTypes DEF States, RunsOK
    <2>4. RunsOK'
      BY <1>6, <2>3 DEF WriteRun, RunsOK, States
    <2>5. ClockOK'
      BY <1>6, <2>1 DEF WriteRun, ClockOK
    <2>6. FaultsOK'
      BY <1>6, CallTypes DEF WriteRun
    <2>7. EntriesOK'
      BY <1>6 DEF WriteRun, EntriesOK, Goto, Ends, Retry, Outcomes
    <2>8. /\ pc'[m] \in {"check", "commit", "release"}
          /\ pc'[m] = "commit" => why'[m] \in Outcomes
          /\ pc'[m] = "release" => hand'[m] = hand[m]
          /\ \A k \in Members \ {m} : pc'[k] = pc[k] /\ hand'[k] = hand[k] /\ why'[k] = why[k]
      BY <1>6 DEF WriteRun, EntriesOK, Goto, Ends, Retry, Outcomes
    <2>9. ASSUME NEW k \in Members
          PROVE  pc'[k] \in {"replay", "write", "release"} => hand'[k] \in 1..Len(runs'[next[k]])
      <3>1. pc[k] \in {"replay", "write", "release"} =>
              next[k] \in Ticks /\ hand[k] \in 1..Len(runs[next[k]])
        BY FiringTick DEF Placed
      <3> QED
        BY <2>1, <2>3, <2>8, <3>1
    <2>10. Placed'
      BY <1>6, <2>1, <2>8, <2>9 DEF WriteRun, Placed
    <2> QED
      BY <2>4, <2>5, <2>6, <2>7, <2>10
  <1>7. ASSUME NEW m \in Members, Release(m)
        PROVE  Goal
    <2>1. next[m] \in Ticks /\ resumed[m] /\ next[m] <= now
      BY <1>7, FiringTick DEF Release
    <2>2. claim' \in [Ticks -> Nat] /\ \A u \in Ticks : claim'[u] \in {0, claim[u]}
      BY <1>7, <2>1 DEF Release, RunsOK
    <2>3. RunsOK'
      <3>1. \A u \in Ticks : runs[u] \in Seq(States) /\ Len(runs[u]) \in Nat
        BY DEF RunsOK, States
      <3> QED
        BY <1>7, <2>2, <3>1 DEF Release, RunsOK
    <2>4. ClockOK'
      BY <1>7 DEF Release, ClockOK
    <2>5. FaultsOK'
      BY <1>7, CallTypes DEF Release
    <2>6. EntriesOK'
      BY <1>7 DEF Release, EntriesOK, Goto, Retry
    <2>7. Placed'
      BY <1>7, <2>1 DEF Release, EntriesOK, Placed, Goto, Retry, Outcomes
    <2> QED
      BY <2>3, <2>4, <2>5, <2>6, <2>7
  <1>8. CASE Tick
    <2>1. ClockOK'
      BY <1>8 DEF Tick, ClockOK, history
    <2>2. RunsOK' /\ EntriesOK' /\ FaultsOK'
      BY <1>8 DEF Tick, history, entry, RunsOK, EntriesOK, FaultsOK
    <2>3. Placed'
      BY <1>8 DEF Tick, history, entry, Placed, ClockOK, EntriesOK
    <2> QED
      BY <2>1, <2>2, <2>3
  <1>9. ASSUME NEW t \in Ticks, NEW n \in DOMAIN runs[t], EndRun(t, n)
        PROVE  Goal
    <2>1. n \in 1..Len(runs[t])
      BY DEF RunsOK
    <2>2. /\ runs' \in [Ticks -> Seq(States)]
          /\ \A u \in Ticks : Len(runs'[u]) = Len(runs[u])
      BY <1>9, <2>1, PutTypes DEF EndRun, States
    <2>3. RunsOK'
      BY <1>9, <2>2 DEF EndRun, RunsOK, States
    <2>4. ClockOK' /\ EntriesOK' /\ FaultsOK'
      BY <1>9 DEF EndRun, entry, ClockOK, EntriesOK, FaultsOK
    <2>5. ASSUME NEW k \in Members, pc[k] \in {"replay", "write", "release"}
          PROVE  hand[k] \in 1..Len(runs'[next[k]])
      BY <2>2, <2>5, FiringTick DEF Placed
    <2>6. Placed'
      BY <1>9, <2>5 DEF EndRun, entry, Placed
    <2> QED
      BY <2>3, <2>4, <2>6
  <1>10. ASSUME NEW m \in Members, Crash(m) \/ Restart(m) \/ Reload(m)
         PROVE  Goal
    <2>1. ClockOK' /\ RunsOK'
      BY <1>10 DEF Crash, Restart, Reload, history, ClockOK, RunsOK
    <2>2. faults' \in 0..MaxFaults
      BY <1>10 DEF Crash, Restart, Reload, Glitch, Fault, FaultsOK
    <2>3. FaultsOK'
      BY <1>10, <2>2 DEF Crash, Restart, Reload, Glitch, FaultsOK
    <2>4. EntriesOK'
      <3>1. next' \in [Members -> 1..(MaxTick + 1)] /\ hand' \in [Members -> Nat]
        BY <1>10 DEF Crash, Restart, Reload, NewEntry, EntriesOK, ClockOK
      <3>2. pc' \in [Members -> Labels] /\ why' \in [Members -> Outcomes \union {"none"}]
        BY <1>10 DEF Crash, Restart, Reload, NewEntry, Goto, EntriesOK, Labels
      <3>3. resumed' \in [Members -> BOOLEAN]
        BY <1>10 DEF Crash, Restart, Reload, NewEntry, EntriesOK
      <3> QED
        BY <3>1, <3>2, <3>3 DEF EntriesOK, Labels
    <2>5. Placed'
      BY <1>10 DEF Crash, Restart, Reload, NewEntry, Goto, Placed, EntriesOK, ClockOK, history
    <2> QED
      BY <2>1, <2>3, <2>4, <2>5
  <1>11. ASSUME NEW m \in Members, Degrade(m) \/ Recover(m)
         PROVE  Goal
    <2>1. ClockOK' /\ RunsOK' /\ EntriesOK'
      BY <1>11 DEF Degrade, Recover, history, entry, ClockOK, RunsOK, EntriesOK
    <2>2. FaultsOK'
      <3>1. CASE Degrade(m)
        BY <3>1, CallTypes DEF Degrade
      <3>2. CASE Recover(m)
        BY <3>2 DEF Recover, FaultsOK
      <3> QED
        BY <1>11, <3>1, <3>2
    <2>3. Placed'
      BY <1>11 DEF Degrade, Recover, history, entry, Placed
    <2> QED
      BY <2>1, <2>2, <2>3
  <1>12. CASE UNCHANGED vars
    BY <1>12 DEF vars, history, entry, ClockOK, RunsOK, EntriesOK, FaultsOK, Placed
  <1> QED
    BY <1>1, <1>2, <1>3, <1>4, <1>5, <1>6, <1>7, <1>8, <1>9, <1>10, <1>11, <1>12
       DEF Next, Step

(* Every variable keeps its type in every behaviour of the schedule's loops. *)
THEOREM TypeCorrect == Spec => []TypeOK
  <1>1. TInv => TypeOK
    BY DEF TInv
  <1> QED
    BY TypeInit, TypeStep, <1>1, PTL DEF Spec

LEMMA TypeAlways == Spec => []TInv
  BY TypeInit, TypeStep, PTL DEF Spec

-----------------------------------------------------------------------------
(* Runs are added and written, and never taken back. *)

LEMMA RunsKeep ==
  ASSUME TInv, [Next]_vars, NEW t \in Ticks
  PROVE  /\ Len(runs[t]) \in Nat /\ Len(runs'[t]) \in Nat /\ Len(runs[t]) <= Len(runs'[t])
         /\ \A n \in 1..Len(runs[t]) : Written(t, n) => Written(t, n)'
         /\ Started(t) => Started(t)'
  <1>0. /\ ClockOK /\ RunsOK /\ EntriesOK /\ Placed
        /\ runs[t] \in Seq(States) /\ Len(runs[t]) \in Nat
    BY DEF TInv, TypeOK, RunsOK, States
  <1>1. /\ Len(runs'[t]) \in Nat /\ Len(runs[t]) <= Len(runs'[t])
        /\ \A n \in 1..Len(runs[t]) : Written(t, n) => Written(t, n)'
    <2>1. ASSUME NEW m \in Members, Claim(m), InsertClaim(next[m])
          PROVE  <1>1!:
      <3>1. next[m] \in Ticks
        BY <1>0, <2>1, FiringTick DEF Claim
      <3>2. /\ \A s \in Ticks : Len(runs[s]) <= Len(runs'[s])
            /\ runs' \in [Ticks -> Seq(States)]
            /\ \A s \in Ticks \ {next[m]} : runs'[s] = runs[s]
            /\ \A n \in 1..Len(runs[next[m]]) : runs'[next[m]][n] = runs[next[m]][n]
        BY <1>0, <2>1, <3>1, InsertTypes
      <3>3. Len(runs'[t]) \in Nat /\ Len(runs[t]) <= Len(runs'[t])
        BY <3>2
      <3>4. \A n \in 1..Len(runs[t]) : runs'[t][n] = runs[t][n]
        BY <3>2
      <3> QED
        BY <3>3, <3>4 DEF Written
    <2>2. ASSUME NEW m \in Members, WriteRun(m), PutRun(next[m], hand[m], "going")
          PROVE  <1>1!:
      <3>1. next[m] \in Ticks /\ hand[m] \in 1..Len(runs[next[m]])
        BY <1>0, <2>2, FiringTick DEF WriteRun, Placed
      <3> QED
        BY <1>0, <2>2, <3>1, PutTypes DEF Written, States
    <2>3. ASSUME NEW u \in Ticks, NEW n \in DOMAIN runs[u], EndRun(u, n)
          PROVE  <1>1!:
      <3>1. n \in 1..Len(runs[u]) /\ PutRun(u, n, "over")
        BY <1>0, <2>3 DEF EndRun, RunsOK
      <3> QED
        BY <1>0, <3>1, PutTypes DEF Written, States
    <2>4. CASE UNCHANGED runs
      BY <1>0, <2>4 DEF Written
    <2>5. \/ UNCHANGED runs
          \/ \E m \in Members : Claim(m) /\ InsertClaim(next[m])
          \/ \E m \in Members : WriteRun(m) /\ PutRun(next[m], hand[m], "going")
          \/ \E u \in Ticks : \E n \in DOMAIN runs[u] : EndRun(u, n)
      BY DEF Next, Step, vars, history, ResumeFrom, Commit, Look, Claim, Replay, WriteRun,
             Release, Tick, Crash, Restart, Reload, Degrade, Recover
    <2> QED
      BY <2>1, <2>2, <2>3, <2>4, <2>5
  <1>2. runs' \in [Ticks -> Seq(States)]
    BY TypeStep DEF TInv, TypeOK, RunsOK, States
  <1>3. Started(t) => Started(t)'
    BY <1>0, <1>1, <1>2 DEF Started
  <1> QED
    BY <1>0, <1>1, <1>3

-----------------------------------------------------------------------------
(* Outcomes. *)

HasOutcome(t) == \E o \in Outcomes : <<t, o>> \in outcomes

\* What a resumed entry has left behind has an outcome, as has what the record passed; and
\* a member calls a tick started once it is vouched for.
Settled ==
  /\ \A t \in Ticks : t <= last => HasOutcome(t)
  /\ \A m \in Members, t \in Ticks : resumed[m] /\ t < next[m] => HasOutcome(t)
  /\ \A m \in Members : pc[m] = "commit" /\ why[m] = "started" => Vouched(next[m])
  /\ \A t \in Ticks : <<t, "started">> \in outcomes => Vouched(t)

LEMMA VouchedKeep ==
  ASSUME TInv, [Next]_vars, NEW t \in Ticks, Vouched(t)
  PROVE  Vouched(t)'
  <1>1. CASE Started(t)
    BY <1>1, RunsKeep DEF Vouched
  <1>2. CASE Varies /\ runs[t] # <<>>
    <2>1. Varies'
      BY <1>2 DEF Varies, Next, Step, vars, ResumeFrom, Commit, Look, Claim, Replay, WriteRun,
                  Release, Tick, EndRun, Crash, Restart, Reload, Degrade, Recover
    <2>2. runs[t] \in Seq(States) /\ runs'[t] \in Seq(States)
      BY TypeStep DEF TInv, TypeOK, RunsOK, States
    <2>3. Len(runs[t]) # 0 /\ Len(runs[t]) \in Nat /\ Len(runs'[t]) \in Nat
          /\ Len(runs[t]) <= Len(runs'[t])
      BY <1>2, <2>2, RunsKeep
    <2>4. runs'[t] # <<>>
      BY <2>2, <2>3
    <2> QED
      BY <2>1, <2>4 DEF Vouched
  <1> QED
    BY <1>1, <1>2 DEF Vouched

LEMMA SettledInit == Init => Settled
  BY ScheduleTicksAssumption, TicksFact DEF Init, Settled

LEMMA SettledStep == TInv /\ Settled /\ [Next]_vars => Settled'
  <1> SUFFICES ASSUME TInv, Settled, [Next]_vars
               PROVE  Settled'
    OBVIOUS
  <1>0. ClockOK /\ RunsOK /\ EntriesOK /\ Placed /\ EntriesOK'
    BY TypeStep DEF TInv, TypeOK
  <1>s. \A t \in Ticks : Vouched(t) => Vouched(t)'
    BY VouchedKeep
  <1>1. ASSUME NEW m \in Members, ResumeFrom(m)
        PROVE  Settled'
    <2>1. \A t \in Ticks : HasOutcome(t) => HasOutcome(t)'
      BY <1>1 DEF ResumeFrom, HasOutcome
    <2>3. \A t \in Ticks : <<t, "started">> \in outcomes' => <<t, "started">> \in outcomes
      BY <1>1 DEF ResumeFrom, Missed
    <2>4. ASSUME NEW t \in Ticks, t < next'[m]
          PROVE  HasOutcome(t)'
      <3>1. CASE t <= last
        BY <2>1, <3>1 DEF Settled
      <3>2. CASE t > last
        <4>1. now > last /\ t <= now /\ (t < now \/ ~config.catchUp)
          BY <1>0, <1>1, <2>4, <3>2, TicksFact
             DEF ResumeFrom, AfterGap, EntriesOK, ClockOK, Placed
        <4>2. <<t, "missed">> \in outcomes'
          BY <1>1, <3>2, <4>1 DEF ResumeFrom, Missed
        <4> QED
          BY <4>2 DEF HasOutcome, Outcomes
      <3> QED
        BY <1>0, <3>1, <3>2, TicksFact DEF ClockOK
    <2>5. \A k \in Members \ {m} : next'[k] = next[k] /\ resumed'[k] = resumed[k]
      BY <1>0, <1>1 DEF ResumeFrom, EntriesOK
    <2>6. last' = last /\ pc' = pc /\ why' = why /\ pc[m] = "check"
      BY <1>1 DEF ResumeFrom
    <2>7. \A u \in Ticks : u <= last' => HasOutcome(u)'
      BY <2>1, <2>6 DEF Settled
    <2>8. \A k \in Members, u \in Ticks : resumed'[k] /\ u < next'[k] => HasOutcome(u)'
      BY <2>1, <2>4, <2>5 DEF Settled
    <2>9. \A k \in Members : pc'[k] = "commit" /\ why'[k] = "started" => Vouched(next[k])'
      <3> SUFFICES ASSUME NEW k \in Members, pc[k] = "commit", why[k] = "started"
                   PROVE  Vouched(next[k])'
        BY <2>6
      <3>1. next'[k] = next[k] /\ next[k] \in Ticks
        BY <1>0, <2>5, <2>6, FiringTick
      <3> QED
        BY <1>s, <3>1 DEF Settled
    <2>10. \A u \in Ticks : <<u, "started">> \in outcomes' => Vouched(u)'
      BY <1>s, <2>3 DEF Settled
    <2> QED
      BY <2>7, <2>8, <2>9, <2>10 DEF Settled
  <1>2. ASSUME NEW m \in Members, Commit(m)
        PROVE  Settled'
    <2>t. PICK t \in Ticks : t = next[m]
      BY <1>0, <1>2, FiringTick DEF Commit
    <2>0. t = next[m] /\ t <= now /\ resumed[m] /\ why[m] \in Outcomes
      BY <1>0, <1>2, <2>t, FiringTick DEF Commit, Placed
    <2>1. \A u \in Ticks : HasOutcome(u) => HasOutcome(u)'
      BY <1>2 DEF Commit, HasOutcome
    <2>2. HasOutcome(t)'
      <3>1. <<t, why[m]>> \in outcomes'
        BY <1>2, <2>0 DEF Commit
      <3> QED
        BY <2>0, <3>1 DEF HasOutcome
    <2>3. \A u \in Ticks : <<u, "started">> \in outcomes' => Vouched(u)
      BY <1>2, <2>0 DEF Commit, Missed, Settled
    <2>4. ASSUME NEW u \in Ticks, u <= t
          PROVE  HasOutcome(u)'
      <3>1. CASE u = t
        BY <2>2, <3>1
      <3>2. CASE u < t
        BY <2>0, <2>1, <3>2 DEF Settled
      <3> QED
        BY <2>0, <2>4, <3>1, <3>2, TicksFact
    <2>5. \A u \in Ticks : u <= last' => HasOutcome(u)'
      BY <1>2, <2>0, <2>1, <2>4 DEF Commit, Recorded, Settled
    <2>6. ASSUME NEW u \in Ticks, u < next'[m]
          PROVE  HasOutcome(u)'
      <3>1. CASE u <= t
        BY <2>4, <3>1
      <3>2. CASE u > t
        <4>1. now > t + 1 /\ u <= now /\ (u < now \/ ~config.catchUp)
          BY <1>0, <1>2, <2>0, <2>6, <3>2, TicksFact
             DEF Commit, AfterGap, EntriesOK, ClockOK
        <4>2. <<u, "missed">> \in outcomes'
          BY <1>2, <2>0, <3>2, <4>1 DEF Commit, Missed
        <4> QED
          BY <4>2 DEF HasOutcome, Outcomes
      <3> QED
        BY <2>0, <3>1, <3>2, TicksFact
    <2>7. /\ \A k \in Members \ {m} : next'[k] = next[k] /\ pc'[k] = pc[k] /\ why'[k] = why[k]
          /\ pc'[m] = "check" /\ resumed' = resumed
      BY <1>0, <1>2 DEF Commit, Goto, EntriesOK
    <2>8. \A k \in Members, u \in Ticks : resumed'[k] /\ u < next'[k] => HasOutcome(u)'
      BY <2>1, <2>6, <2>7 DEF Settled
    <2>9. \A k \in Members : pc'[k] = "commit" /\ why'[k] = "started" => Vouched(next[k])'
      <3> SUFFICES ASSUME NEW k \in Members, pc'[k] = "commit", why'[k] = "started"
                   PROVE  Vouched(next[k])'
        OBVIOUS
      <3>1. k # m /\ next'[k] = next[k] /\ pc[k] = "commit" /\ why[k] = "started"
        BY <2>7
      <3>2. next[k] \in Ticks
        BY <1>0, <3>1, FiringTick
      <3> QED
        BY <1>s, <3>1, <3>2 DEF Settled
    <2>10. \A u \in Ticks : <<u, "started">> \in outcomes' => Vouched(u)'
      BY <1>s, <2>3
    <2> QED
      BY <2>5, <2>8, <2>9, <2>10 DEF Settled
  \* The other steps record nothing and move no resumed entry.
  <1>3. ASSUME UNCHANGED <<last, outcomes>>,
               \A k \in Members : resumed'[k] => resumed[k] /\ next'[k] = next[k],
               \A k \in Members : pc'[k] = "commit" /\ why'[k] = "started" =>
                 /\ next'[k] \in Ticks
                 /\ next'[k] = next[k]
                 /\ (pc[k] = "commit" /\ why[k] = "started") \/ Vouched(next[k])'
        PROVE  Settled'
    <2>1. \A u \in Ticks : HasOutcome(u) <=> HasOutcome(u)'
      BY <1>3 DEF HasOutcome
    <2>2. \A u \in Ticks : u <= last' => HasOutcome(u)'
      BY <1>3, <2>1 DEF Settled
    <2>3. \A k \in Members, u \in Ticks : resumed'[k] /\ u < next'[k] => HasOutcome(u)'
      BY <1>3, <2>1 DEF Settled
    <2>4. \A k \in Members : pc'[k] = "commit" /\ why'[k] = "started" => Vouched(next[k])'
      BY <1>3, <1>s DEF Settled
    <2>5. \A u \in Ticks : <<u, "started">> \in outcomes' => Vouched(u)'
      BY <1>3, <1>s DEF Settled
    <2> QED
      BY <2>2, <2>3, <2>4, <2>5 DEF Settled
  <1>9. ASSUME NEW m \in Members, Claim(m)
        PROVE  Settled'
    <2>1. UNCHANGED <<last, outcomes, next, resumed>> /\ pc[m] = "claim"
      BY <1>9 DEF Claim
    <2>2. /\ \A k \in Members \ {m} : pc'[k] = pc[k] /\ why'[k] = why[k]
          /\ pc'[m] = "commit" /\ why'[m] = "started" => Varies /\ claim[next[m]] # 0
      BY <1>0, <1>9 DEF Claim, Goto, Ends, Retry, EntriesOK
    <2>3. next[m] \in Ticks /\ \A k \in Members : pc[k] = "commit" => next[k] \in Ticks
      BY <1>0, <2>1, FiringTick
    <2>4. claim[next[m]] # 0 => runs[next[m]] # <<>>
      <3>1. /\ claim[next[m]] \in Nat /\ claim[next[m]] <= Len(runs[next[m]])
            /\ runs[next[m]] \in Seq(States)
        BY <1>0, <2>3 DEF RunsOK, States
      <3> QED
        BY <3>1
    <2>5. pc'[m] = "commit" /\ why'[m] = "started" => Vouched(next[m])
      BY <2>2, <2>4 DEF Vouched
    <2>6. pc'[m] = "commit" /\ why'[m] = "started" => Vouched(next[m])'
      BY <1>s, <2>1, <2>3, <2>5
    <2> QED
      BY <1>3, <2>1, <2>2, <2>3, <2>6
  <1>4. ASSUME NEW m \in Members, Look(m) \/ Release(m)
        PROVE  Settled'
    <2>1. UNCHANGED <<last, outcomes, next, resumed>>
      BY <1>4 DEF Look, Release, history
    <2>2. /\ \A k \in Members \ {m} : pc'[k] = pc[k] /\ why'[k] = why[k]
          /\ pc'[m] = "commit" => why'[m] # "started"
      BY <1>0, <1>4 DEF Look, Release, Goto, Ends, Retry, EntriesOK
    <2>3. \A k \in Members : pc[k] = "commit" => next[k] \in Ticks
      BY <1>0, FiringTick
    <2> QED
      BY <1>3, <2>1, <2>2, <2>3
  <1>5. ASSUME NEW m \in Members, Replay(m)
        PROVE  Settled'
    <2>1. UNCHANGED <<last, outcomes, next, resumed>> /\ pc[m] = "replay"
      BY <1>5 DEF Replay, history
    <2>2. /\ \A k \in Members \ {m} : pc'[k] = pc[k] /\ why'[k] = why[k]
          /\ why'[m] = "started" => Written(next[m], hand[m])
      BY <1>0, <1>5 DEF Replay, Goto, Ends, EntriesOK
    <2>3. next[m] \in Ticks /\ hand[m] \in 1..Len(runs[next[m]])
      BY <1>0, <2>1, FiringTick DEF Placed
    <2>4. Written(next[m], hand[m]) => Vouched(next[m])
      BY <1>0, <2>3 DEF Vouched, Started, RunsOK
    <2>5. \A k \in Members : pc[k] = "commit" => next[k] \in Ticks
      BY <1>0, FiringTick
    <2> QED
      BY <1>3, <1>s, <2>1, <2>2, <2>3, <2>4, <2>5
  <1>6. ASSUME NEW m \in Members, WriteRun(m)
        PROVE  Settled'
    <2>1. UNCHANGED <<last, outcomes, next, resumed>> /\ pc[m] = "write"
      BY <1>6 DEF WriteRun
    <2>2. /\ \A k \in Members \ {m} : pc'[k] = pc[k] /\ why'[k] = why[k]
          /\ pc'[m] = "commit" => PutRun(next[m], hand[m], "going")
      BY <1>0, <1>6 DEF WriteRun, Goto, Ends, Retry, EntriesOK
    <2>3. next[m] \in Ticks /\ hand[m] \in 1..Len(runs[next[m]])
      BY <1>0, <2>1, FiringTick DEF Placed
    <2>4. PutRun(next[m], hand[m], "going") => Vouched(next[m])'
      <3> SUFFICES ASSUME PutRun(next[m], hand[m], "going") PROVE Vouched(next[m])'
        OBVIOUS
      <3>1. /\ runs' \in [Ticks -> Seq(States)] /\ Len(runs'[next[m]]) = Len(runs[next[m]])
            /\ runs'[next[m]][hand[m]] = "going"
        BY <1>0, <2>3, PutTypes DEF States
      <3>2. hand[m] \in DOMAIN runs'[next[m]]
        BY <2>3, <3>1
      <3> QED
        BY <2>1, <3>1, <3>2 DEF Vouched, Started, Written
    <2>5. \A k \in Members : pc[k] = "commit" => next[k] \in Ticks
      BY <1>0, FiringTick
    <2> QED
      BY <1>3, <2>1, <2>2, <2>3, <2>4, <2>5
  <1>7. ASSUME NEW m \in Members, Crash(m) \/ Restart(m) \/ Reload(m)
        PROVE  Settled'
    <2>1. UNCHANGED <<last, outcomes>>
      BY <1>7 DEF Crash, Restart, Reload, history
    <2>2. /\ ~resumed'[m] /\ pc'[m] # "commit"
          /\ \A k \in Members \ {m} : /\ pc'[k] = pc[k] /\ why'[k] = why[k]
                                       /\ next'[k] = next[k] /\ resumed'[k] = resumed[k]
      BY <1>0, <1>7 DEF Crash, Restart, Reload, NewEntry, Goto, EntriesOK
    <2>3. \A k \in Members : pc[k] = "commit" => next[k] \in Ticks
      BY <1>0, FiringTick
    <2> QED
      BY <1>3, <2>1, <2>2, <2>3
  <1>8. CASE \/ Tick \/ UNCHANGED vars
             \/ \E m \in Members : Degrade(m) \/ Recover(m)
             \/ \E t \in Ticks : \E n \in DOMAIN runs[t] : EndRun(t, n)
    <2>1. UNCHANGED <<last, outcomes, next, resumed, pc, why>>
      BY <1>8 DEF Tick, vars, Degrade, Recover, EndRun, history, entry
    <2>2. \A k \in Members : pc[k] = "commit" => next[k] \in Ticks
      BY <1>0, FiringTick
    <2> QED
      BY <1>3, <2>1, <2>2
  <1> QED
    BY <1>1, <1>2, <1>4, <1>5, <1>6, <1>7, <1>8, <1>9 DEF Next, Step

(* A tick that the record has passed has an outcome: what a restarted member takes on trust
   from the record was settled.  A tick that is said to have started has a run, if all its
   tries make the same request; if not, it was at least claimed for one. *)
THEOREM RecordSettled == Spec => []RecordIsSettled
  <1>1. Settled => RecordIsSettled
    BY DEF Settled, HasOutcome, RecordIsSettled
  <1> QED
    BY SettledInit, SettledStep, TypeAlways, <1>1, PTL DEF Spec

-----------------------------------------------------------------------------
(* Claims. *)

Has(m) == pc[m] \in {"write", "release"}

\* A run is written under the claim of its tick, which only its own member takes back and
\* only while the run is unwritten; no two members have the same run to write.
Sole ==
  /\ \A t \in Ticks \ lost : \A n \in 1..Len(runs[t]) : Written(t, n) => claim[t] = n
  /\ \A m \in Members : pc[m] = "write" => claim[next[m]] = hand[m]
  /\ \A m \in Members : Has(m) /\ next[m] \notin lost => ~Written(next[m], hand[m])
  /\ \A m, k \in Members : m # k /\ Has(m) /\ Has(k) /\ next[m] = next[k] => hand[m] # hand[k]

LEMMA SoleInit == Init => Sole
  <1> SUFFICES ASSUME Init PROVE Sole
    OBVIOUS
  <1>1. \A t \in Ticks : Len(runs[t]) = 0
    BY DEF Init
  <1>2. \A m \in Members : pc[m] = "check"
    BY DEF Init
  <1> QED
    BY <1>1, <1>2 DEF Sole, Has

LEMMA SoleStep == TInv /\ Sole /\ [Next]_vars => Sole'
  <1> SUFFICES ASSUME TInv, Sole, [Next]_vars
               PROVE  Sole'
    OBVIOUS
  <1>0. ClockOK /\ RunsOK /\ EntriesOK /\ Placed
    BY DEF TInv, TypeOK
  <1>h. \A m \in Members : Has(m) => next[m] \in Ticks /\ hand[m] \in 1..Len(runs[next[m]])
    BY <1>0, FiringTick DEF Has, Placed
  <1>l. \A t \in Ticks : runs[t] \in Seq(States) /\ Len(runs[t]) \in Nat
    BY <1>0 DEF RunsOK, States
  \* Steps that leave claims and runs alone and give no member a run to write.
  <1>1. ASSUME UNCHANGED <<claim, runs, lost>>,
               \A k \in Members : Has(k)' => /\ pc'[k] = pc[k]
                                            /\ next'[k] = next[k] /\ hand'[k] = hand[k]
        PROVE  Sole'
    BY <1>1 DEF Sole, Has, Written
  <1>2. ASSUME NEW m \in Members, Claim(m), InsertClaim(next[m])
        PROVE  Sole'
    <2>t. PICK t \in Ticks : t = next[m]
      BY <1>0, <1>2, FiringTick DEF Claim
    <2>i. /\ Len(runs'[t]) = Len(runs[t]) + 1 /\ Fresh(t) = Len(runs[t]) + 1
          /\ \A u \in Ticks \ {t} : runs'[u] = runs[u] /\ claim'[u] = claim[u]
          /\ \A n \in 1..Len(runs[t]) : runs'[t][n] = runs[t][n]
          /\ runs'[t][Fresh(t)] = "unwritten"
          /\ claim'[t] = Fresh(t) /\ claim[t] = 0
      BY <1>0, <1>2, <2>t, InsertTypes DEF Fresh, RunsOK
    <2>f. /\ UNCHANGED <<lost, next>>
          /\ pc'[m] = "write" => hand'[m] = Fresh(t)
          /\ pc'[m] # "release"
          /\ \A k \in Members \ {m} : pc'[k] = pc[k] /\ hand'[k] = hand[k]
      BY <1>0, <1>2, <2>t DEF Claim, Goto, Ends, Retry, EntriesOK
    <2>1. ASSUME NEW u \in Ticks \ lost', NEW n \in 1..Len(runs'[u]), Written(u, n)'
          PROVE  claim'[u] = n
      <3>1. CASE u # t
        BY <2>1, <2>i, <2>f, <3>1 DEF Sole, Written
      <3>2. CASE u = t
        <4>1. n \in 1..Len(runs[t]) \/ n = Fresh(t)
          BY <1>l, <2>i, <3>2
        <4>2. n # Fresh(t)
          BY <2>1, <2>i, <3>2 DEF Written
        <4>3. n \in 1..Len(runs[t]) /\ Written(t, n)
          BY <2>1, <2>i, <3>2, <4>1, <4>2 DEF Written
        <4>4. claim[t] = n
          BY <2>f, <3>2, <4>3 DEF Sole
        <4> QED
          BY <1>l, <2>i, <4>3, <4>4
      <3> QED
        BY <3>1, <3>2
    <2>2. ASSUME NEW k \in Members, pc'[k] = "write"
          PROVE  claim'[next'[k]] = hand'[k]
      <3>1. CASE k = m
        BY <2>2, <2>t, <2>i, <2>f, <3>1
      <3>2. CASE k # m
        <4>1. Has(k) /\ next[k] \in Ticks /\ claim[next[k]] = hand[k] /\ hand[k] # 0
          BY <1>h, <1>l, <2>2, <2>f, <3>2 DEF Has, Sole
        <4> QED
          BY <2>i, <2>f, <3>2, <4>1
      <3> QED
        BY <3>1, <3>2
    <2>3. ASSUME NEW k \in Members, Has(k)', next'[k] \notin lost'
          PROVE  ~Written(next[k], hand[k])'
      <3>1. CASE k = m
        BY <2>3, <2>t, <2>i, <2>f, <3>1 DEF Has, Written
      <3>2. CASE k # m
        <4>1. Has(k) /\ next[k] \in Ticks /\ hand[k] \in 1..Len(runs[next[k]])
          BY <1>h, <2>3, <2>f, <3>2 DEF Has
        <4>2. runs'[next[k]][hand[k]] = runs[next[k]][hand[k]]
          BY <2>i, <4>1
        <4> QED
          BY <2>3, <2>f, <3>2, <4>1, <4>2 DEF Sole, Written
      <3> QED
        BY <3>1, <3>2
    <2>4. ASSUME NEW k \in Members, NEW j \in Members, k # j, Has(k)', Has(j)',
                 next'[k] = next'[j]
          PROVE  hand'[k] # hand'[j]
      <3>1. ASSUME NEW i \in Members \ {m}, Has(i)', next[i] = t
            PROVE  hand'[i] # Fresh(t)
        <4>1. hand'[i] = hand[i] /\ hand[i] \in 1..Len(runs[t])
          BY <1>h, <2>f, <3>1 DEF Has
        <4> QED
          BY <1>l, <2>i, <4>1
      <3>2. CASE k = m
        BY <2>4, <2>t, <2>f, <3>1, <3>2 DEF Has
      <3>3. CASE j = m
        BY <2>4, <2>t, <2>f, <3>1, <3>3 DEF Has
      <3>4. CASE k # m /\ j # m
        BY <2>4, <2>f, <3>4 DEF Has, Sole
      <3> QED
        BY <3>2, <3>3, <3>4
    <2> QED
      BY <2>1, <2>2, <2>3, <2>4 DEF Sole
  <1>3. ASSUME NEW m \in Members, WriteRun(m), PutRun(next[m], hand[m], "going")
        PROVE  Sole'
    <2>t. PICK t \in Ticks : t = next[m]
      BY <1>0, <1>3, FiringTick DEF WriteRun
    <2>n. PICK n \in 1..Len(runs[t]) : n = hand[m]
      BY <1>0, <1>3, <2>t DEF WriteRun, Placed
    <2>p. /\ \A u \in Ticks : Len(runs'[u]) = Len(runs[u])
          /\ \A u \in Ticks \ {t} : runs'[u] = runs[u]
          /\ \A k \in 1..Len(runs[t]) : k # n => runs'[t][k] = runs[t][k]
      BY <1>0, <1>3, <2>t, <2>n, PutTypes DEF States
    <2>f. /\ UNCHANGED <<claim, next>> /\ lost \subseteq lost' /\ Has(m) /\ claim[t] = n
          /\ Has(m)' => t \in lost' /\ pc'[m] # "write" /\ hand'[m] = hand[m]
          /\ \A k \in Members \ {m} : pc'[k] = pc[k] /\ hand'[k] = hand[k]
      <3>1. claim[t] = n /\ Has(m)
        BY <1>3, <2>t, <2>n DEF WriteRun, Sole, Has
      <3>2. pc'[m] # "write"
        BY <1>0, <1>3 DEF WriteRun, Goto, Ends, Retry, EntriesOK
      <3>3. Has(m)' => t \in lost' /\ hand'[m] = hand[m]
        BY <1>0, <1>3, <2>t, <2>n
           DEF WriteRun, Goto, Ends, Retry, EntriesOK, Has, PutRun, Written, Sole, RunsOK
      <3>4. \A k \in Members \ {m} : pc'[k] = pc[k] /\ hand'[k] = hand[k]
        BY <1>0, <1>3 DEF WriteRun, Goto, Ends, Retry, EntriesOK
      <3> QED
        BY <1>3, <3>1, <3>2, <3>3, <3>4 DEF WriteRun
    <2>1. ASSUME NEW u \in Ticks \ lost', NEW k \in 1..Len(runs'[u]), Written(u, k)'
          PROVE  claim'[u] = k
      <3>1. CASE u # t
        BY <2>1, <2>p, <2>f, <3>1 DEF Sole, Written
      <3>2. CASE u = t /\ k # n
        BY <2>1, <2>p, <2>f, <3>2 DEF Sole, Written
      <3>3. CASE u = t /\ k = n
        BY <2>f, <3>3
      <3> QED
        BY <3>1, <3>2, <3>3
    <2>2. \A k \in Members : pc'[k] = "write" => claim'[next'[k]] = hand'[k]
      BY <2>f DEF Sole, Has
    <2>3. ASSUME NEW k \in Members, Has(k)', next'[k] \notin lost'
          PROVE  ~Written(next[k], hand[k])'
      <3>1. k # m
        BY <2>3, <2>t, <2>f
      <3>2. Has(k) /\ next[k] \in Ticks /\ hand[k] \in 1..Len(runs[next[k]])
        BY <1>h, <2>3, <2>f, <3>1 DEF Has
      <3>3. next[k] = t => hand[k] # n
        BY <2>t, <2>n, <2>f, <3>1, <3>2 DEF Sole
      <3>4. runs'[next[k]][hand[k]] = runs[next[k]][hand[k]]
        BY <2>p, <3>2, <3>3
      <3> QED
        BY <2>3, <2>f, <3>1, <3>2, <3>4 DEF Sole, Written
    <2>4. \A k, j \in Members : k # j /\ Has(k)' /\ Has(j)' /\ next'[k] = next'[j] =>
            hand'[k] # hand'[j]
      <3>1. \A k \in Members : Has(k)' => Has(k) /\ hand'[k] = hand[k]
        BY <2>f DEF Has
      <3> QED
        BY <2>f, <3>1 DEF Sole
    <2> QED
      BY <2>1, <2>2, <2>3, <2>4 DEF Sole
  <1>4. ASSUME NEW m \in Members, WriteRun(m), UNCHANGED <<runs, lost>>
        PROVE  Sole'
    <2>f. /\ UNCHANGED <<claim, next, runs, lost>> /\ Has(m)
          /\ Has(m)' => hand'[m] = hand[m] /\ pc'[m] # "write"
          /\ \A k \in Members \ {m} : pc'[k] = pc[k] /\ hand'[k] = hand[k]
      BY <1>0, <1>4 DEF WriteRun, Goto, Ends, Retry, EntriesOK, Has
    <2>1. \A k \in Members : Has(k)' => Has(k) /\ hand'[k] = hand[k]
      BY <2>f DEF Has
    <2>2. \A k \in Members : pc'[k] = "write" => pc[k] = "write" /\ hand'[k] = hand[k]
      BY <2>f DEF Has
    <2> QED
      BY <2>f, <2>1, <2>2 DEF Sole, Written
  <1>5. ASSUME NEW m \in Members, Release(m)
        PROVE  Sole'
    <2>t. PICK t \in Ticks : t = next[m]
      BY <1>0, <1>5, FiringTick DEF Release
    <2>f. /\ UNCHANGED <<runs, lost, next>> /\ Has(m) /\ ~Has(m)'
          /\ UNCHANGED claim \/ (claim[t] = hand[m] /\ claim' = [claim EXCEPT ![t] = 0])
          /\ \A k \in Members \ {m} : pc'[k] = pc[k] /\ hand'[k] = hand[k]
      <3>1. UNCHANGED claim \/ (claim[t] = hand[m] /\ claim' = [claim EXCEPT ![t] = 0])
        BY <1>0, <1>5, <2>t DEF Release, RunsOK
      <3>2. pc'[m] \in {"check", "commit"} /\ pc[m] = "release"
        BY <1>0, <1>5 DEF Release, Goto, Retry, EntriesOK
      <3>3. \A k \in Members \ {m} : pc'[k] = pc[k] /\ hand'[k] = hand[k]
        BY <1>0, <1>5 DEF Release, Goto, Retry, EntriesOK
      <3> QED
        BY <1>5, <3>1, <3>2, <3>3 DEF Release, Has
    <2>1. CASE UNCHANGED claim
      BY <1>1, <2>1, <2>f
    <2>2. CASE claim[t] = hand[m] /\ claim' = [claim EXCEPT ![t] = 0]
      <3>0. \A u \in Ticks \ {t} : claim'[u] = claim[u]
        BY <1>0, <2>2 DEF RunsOK
      <3>1. ASSUME NEW u \in Ticks \ lost', NEW k \in 1..Len(runs'[u]), Written(u, k)'
            PROVE  claim'[u] = k
        <4>1. claim[u] = k
          BY <2>f, <3>1 DEF Sole, Written
        <4>2. u # t
          BY <2>t, <2>f, <2>2, <3>1, <4>1 DEF Sole, Written
        <4> QED
          BY <3>0, <4>1, <4>2
      <3>2. ASSUME NEW k \in Members, pc'[k] = "write"
            PROVE  claim'[next'[k]] = hand'[k]
        <4>1. k # m /\ Has(k) /\ next[k] \in Ticks /\ claim[next[k]] = hand[k]
          BY <1>h, <2>f, <3>2 DEF Has, Sole
        <4>2. next[k] # t
          BY <2>t, <2>f, <2>2, <4>1 DEF Sole
        <4> QED
          BY <2>f, <3>0, <4>1, <4>2
      <3>3. \A k \in Members : Has(k)' => Has(k) /\ hand'[k] = hand[k]
        BY <2>f DEF Has
      <3> QED
        BY <2>f, <3>1, <3>2, <3>3 DEF Sole, Written
    <2> QED
      BY <2>f, <2>1, <2>2
  <1>6. ASSUME NEW t \in Ticks, NEW n \in DOMAIN runs[t], EndRun(t, n)
        PROVE  Sole'
    <2>1. n \in 1..Len(runs[t]) /\ PutRun(t, n, "over") /\ runs[t][n] = "going"
      BY <1>0, <1>6 DEF EndRun, RunsOK
    <2>p. /\ \A u \in Ticks : Len(runs'[u]) = Len(runs[u])
          /\ \A u \in Ticks \ {t} : runs'[u] = runs[u]
          /\ runs'[t][n] = "over"
          /\ \A k \in 1..Len(runs[t]) : k # n => runs'[t][k] = runs[t][k]
      BY <1>0, <2>1, PutTypes DEF States
    <2>2. \A u \in Ticks : \A k \in 1..Len(runs[u]) : Written(u, k)' <=> Written(u, k)
      BY <2>1, <2>p DEF Written
    <2>f. UNCHANGED <<claim, lost, pc, next, hand>>
      BY <1>6 DEF EndRun, entry
    <2>3. \A m \in Members : Has(m)' <=> Has(m)
      BY <2>f DEF Has
    <2>4. \A m \in Members : Has(m) =>
            (Written(next[m], hand[m])' <=> Written(next[m], hand[m]))
      BY <1>h, <2>2, <2>f DEF Written
    <2>5. \A u \in Ticks \ lost' : \A k \in 1..Len(runs'[u]) : Written(u, k)' => claim'[u] = k
      BY <2>2, <2>f, <2>p DEF Sole
    <2>6. \A m \in Members : Has(m)' /\ next'[m] \notin lost' => ~Written(next[m], hand[m])'
      BY <2>3, <2>4, <2>f DEF Sole
    <2> QED
      BY <2>3, <2>5, <2>6, <2>f DEF Sole
  <1>7. ASSUME NEW m \in Members, Claim(m), ~InsertClaim(next[m])
        PROVE  Sole'
    <2>1. UNCHANGED <<claim, runs, lost, next>>
      BY <1>7 DEF Claim
    <2>2. /\ ~Has(m)'
          /\ \A k \in Members \ {m} : pc'[k] = pc[k] /\ hand'[k] = hand[k]
      BY <1>0, <1>7 DEF Claim, Goto, Ends, Retry, EntriesOK, Has
    <2> QED
      BY <1>1, <2>1, <2>2
  <1>8. ASSUME NEW m \in Members, ResumeFrom(m) \/ Look(m) \/ Replay(m) \/ Commit(m)
        PROVE  Sole'
    <2>1. UNCHANGED <<claim, runs, lost>>
      BY <1>8 DEF ResumeFrom, Look, Replay, Commit, history
    <2>2. /\ ~Has(m)'
          /\ \A k \in Members \ {m} : pc'[k] = pc[k] /\ hand'[k] = hand[k] /\ next'[k] = next[k]
      BY <1>0, <1>8 DEF ResumeFrom, Look, Replay, Commit, Goto, Ends, EntriesOK, Has
    <2> QED
      BY <1>1, <2>1, <2>2
  <1>9. ASSUME NEW m \in Members, Crash(m) \/ Restart(m) \/ Reload(m)
        PROVE  Sole'
    <2>1. UNCHANGED <<claim, runs, lost>>
      BY <1>9 DEF Crash, Restart, Reload, history
    <2>2. /\ ~Has(m)'
          /\ \A k \in Members \ {m} : pc'[k] = pc[k] /\ hand'[k] = hand[k] /\ next'[k] = next[k]
      BY <1>0, <1>9 DEF Crash, Restart, Reload, NewEntry, Goto, EntriesOK, Has
    <2> QED
      BY <1>1, <2>1, <2>2
  <1>10. CASE \/ Tick \/ UNCHANGED vars
              \/ \E m \in Members : Degrade(m) \/ Recover(m)
    <2>1. UNCHANGED <<claim, runs, lost, pc, next, hand>>
      BY <1>10 DEF Tick, vars, Degrade, Recover, history, entry
    <2> QED
      BY <1>1, <2>1
  <1>11. \A m \in Members : WriteRun(m) =>
           PutRun(next[m], hand[m], "going") \/ UNCHANGED <<runs, lost>>
    BY DEF WriteRun
  <1> QED
    BY <1>2, <1>3, <1>4, <1>5, <1>6, <1>7, <1>8, <1>9, <1>10, <1>11 DEF Next, Step

(* At most one run of a tick is ever written, however many members fire and retry it, as
   long as no write of its record failed after its effect. *)
THEOREM OneRun == Spec => []OneRunPerTick
  <1>1. TInv /\ Sole => OneRunPerTick
    BY DEF TInv, TypeOK, RunsOK, Sole, OneRunPerTick
  <1> QED
    BY SoleInit, SoleStep, TypeAlways, <1>1, PTL DEF Spec
=============================================================================
