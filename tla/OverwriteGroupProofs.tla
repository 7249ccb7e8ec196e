------------------------ MODULE OverwriteGroupProofs ------------------------
(***************************************************************************)
(* For any number of runs, units, destinations, pages and faults: a         *)
(* destination is replaced by all of its units' rows or not at all, and a   *)
(* unit that is reported ok has had its rows swapped in.                    *)
(***************************************************************************)
EXTENDS OverwriteGroup, TLAPS

Statuses == {"planned", "unresolved", "running", "ended", "broke", "ok", "error", "skipped"}
Tables == [there : BOOLEAN, rows : SUBSET Rows]

-----------------------------------------------------------------------------
(* Types. *)

\* Updates of a run's groups and of a run's units keep their type.
LEMMA AddedTypes ==
  ASSUME NEW f \in [Runs -> SUBSET Dests], NEW r \in Runs, NEW D \in SUBSET Dests
  PROVE  [f EXCEPT ![r] = @ \cup D] \in [Runs -> SUBSET Dests]
  <1>1. f[r] \cup D \in SUBSET Dests
    OBVIOUS
  <1> QED
    BY <1>1

LEMMA PutTypes ==
  ASSUME NEW A, NEW S, NEW f \in [Runs -> [A -> S]], NEW r \in Runs, NEW a \in A, NEW x \in S
  PROVE  [f EXCEPT ![r][a] = x] \in [Runs -> [A -> S]]
  OBVIOUS

\* What a begin makes of the stagings.
LEMMA StagedTypes ==
  ASSUME TypeOK, NEW r \in Runs, NEW d \in Dests
  PROVE  /\ Staged(r, d) \in [Runs -> [Dests -> Tables]]
         /\ \A s \in Runs \ {r}, e \in Dests :
              Staged(r, d)[s][e] = IF aged[s] /\ e = d THEN Absent ELSE staging[s][e]
         /\ \A e \in Dests :
              Staged(r, d)[r][e] = IF e # d THEN staging[r][e]
                                   ELSE IF target[d].there THEN Empty ELSE Absent
  <1>1. Absent \in Tables /\ Empty \in Tables
    BY DEF Absent, Empty, Tables
  <1>2. staging \in [Runs -> [Dests -> Tables]]
    BY DEF TypeOK, Tables
  <1> QED
    BY <1>1, <1>2 DEF Staged, Abandoned

LEMMA TypeInit == Init => TypeOK
  <1> SUFFICES ASSUME Init PROVE TypeOK
    OBVIOUS
  <1>1. PICK c \in Configs :
          /\ plan = c.plan /\ onError = c.onError /\ limited = c.limited
          /\ target = [d \in Dests |-> [there |-> c.there, by |-> Nobody, rows |-> {}]]
    BY DEF Init
  <1>2. c \in [plan : [Units -> Dests], onError : {"stop", "continue"},
               limited : BOOLEAN, there : BOOLEAN]
    BY OverwriteGroupAssumption
  <1>3. /\ plan \in [Units -> Dests] /\ onError \in {"stop", "continue"} /\ limited \in BOOLEAN
        /\ target \in [Dests -> [there : BOOLEAN, by : Runs \cup {Nobody}, rows : SUBSET Rows]]
    BY <1>1, <1>2
  <1> QED
    BY <1>3, OverwriteGroupAssumption DEF Init, TypeOK, Absent, Ended

LEMMA TypeStep == TypeOK /\ [Next]_vars => TypeOK'
  <1> SUFFICES ASSUME TypeOK, [Next]_vars
               PROVE  TypeOK'
    OBVIOUS
  <1> USE OverwriteGroupAssumption
  <1>1. ASSUME NEW r \in Runs, Plan(r)
        PROVE  TypeOK'
    BY <1>1 DEF TypeOK, Plan, Fault, config, db
  <1>2. ASSUME NEW r \in Runs, NEW d \in Dests, Begin(r, d)
        PROVE  TypeOK'
    <2>1. staging' \in [Runs -> [Dests -> Tables]]
      <3>1. staging \in [Runs -> [Dests -> Tables]]
        BY DEF TypeOK, Tables
      <3>2. Staged(r, d) \in [Runs -> [Dests -> Tables]]
        BY StagedTypes
      <3> QED
        BY <1>2, <3>1, <3>2 DEF Begin
    <2>2. todo' \in [Runs -> SUBSET Dests]
      BY <1>2 DEF TypeOK, Begin
    <2>3. beginFailed' \in [Runs -> SUBSET Dests] /\ failed' \in [Runs -> SUBSET Dests]
      <3>1. /\ [beginFailed EXCEPT ![r] = @ \cup {d}] \in [Runs -> SUBSET Dests]
            /\ [failed EXCEPT ![r] = @ \cup {d}] \in [Runs -> SUBSET Dests]
        BY AddedTypes DEF TypeOK
      <3> QED
        BY <1>2, <3>1 DEF TypeOK, Begin
    <2>4. faults' \in 0..MaxFaults
      BY <1>2 DEF TypeOK, Begin, Fault
    <2> QED
      BY <1>2, <2>1, <2>2, <2>3, <2>4 DEF TypeOK, Begin, config, units, Tables
  <1>3. ASSUME NEW r \in Runs, NEW u \in Units, Spawn(r, u)
        PROVE  TypeOK'
    BY <1>3 DEF TypeOK, Spawn, config, db, flow
  <1>4. ASSUME NEW r \in Runs, NEW u \in Units, Write(r, u)
        PROVE  TypeOK'
    <2>1. <<u, written[r][u] + 1>> \in Rows /\ written[r][u] + 1 \in 0..Pages
      BY <1>4 DEF TypeOK, Write, HasPage, Rows
    <2>2. staging' \in [Runs -> [Dests -> Tables]]
      <3>1. staging \in [Runs -> [Dests -> Tables]] /\ plan[u] \in Dests
        BY DEF TypeOK, Tables
      <3>2. [there |-> TRUE, rows |-> staging[r][plan[u]].rows \cup {<<u, written[r][u] + 1>>}]
              \in Tables
        <4>1. staging[r][plan[u]].rows \in SUBSET Rows
          BY <3>1 DEF Tables
        <4>2. staging[r][plan[u]].rows \cup {<<u, written[r][u] + 1>>} \in SUBSET Rows
          BY <2>1, <4>1
        <4> QED
          BY <4>2 DEF Tables
      <3> QED
        <4> DEFINE page == [there |-> TRUE,
                            rows |-> staging[r][plan[u]].rows \cup {<<u, written[r][u] + 1>>}]
        <4>1. staging' \in {staging, [staging EXCEPT ![r][plan[u]] = page]}
          BY <1>4 DEF Write
        <4>2. page \in Tables
          BY <3>2
        <4> HIDE DEF page
        <4>3. [staging EXCEPT ![r][plan[u]] = page] \in [Runs -> [Dests -> Tables]]
          BY <3>1, <4>2, PutTypes
        <4> QED
          BY <3>1, <4>1, <4>3
    <2>3. written' \in [Runs -> [Units -> 0..Pages]]
      <3>1. [written EXCEPT ![r][u] = @ + 1] \in [Runs -> [Units -> 0..Pages]]
        BY <2>1, PutTypes DEF TypeOK
      <3> QED
        BY <1>4, <3>1 DEF TypeOK, Write
    <2>4. task' \in [Runs -> [Units -> Statuses]]
      <3>1. task \in [Runs -> [Units -> Statuses]] /\ "broke" \in Statuses
        BY DEF TypeOK, Statuses
      <3>2. [task EXCEPT ![r][u] = "broke"] \in [Runs -> [Units -> Statuses]]
        BY <3>1, PutTypes
      <3> QED
        BY <1>4, <3>1, <3>2 DEF Write
    <2> QED
      BY <1>4, <2>2, <2>3, <2>4 DEF TypeOK, Write, config, flow, Statuses, Tables
  <1>5. ASSUME NEW r \in Runs, NEW u \in Units, Return(r, u)
        PROVE  TypeOK'
    BY <1>5 DEF TypeOK, Return, config, db, flow
  <1>6. ASSUME NEW r \in Runs, NEW u \in Units, Break(r, u)
        PROVE  TypeOK'
    BY <1>6 DEF TypeOK, Break, Fault, config, db, flow
  <1>7. ASSUME NEW r \in Runs, NEW u \in Units, Join(r, u)
        PROVE  TypeOK'
    <2>1. task' \in [Runs -> [Units -> Statuses]]
      <3>1. task \in [Runs -> [Units -> Statuses]] /\ {"ok", "error"} \subseteq Statuses
        BY DEF TypeOK, Statuses
      <3>2. \A x \in {"ok", "error"} :
              [task EXCEPT ![r][u] = x] \in [Runs -> [Units -> Statuses]]
        BY <3>1, PutTypes
      <3> QED
        BY <1>7, <3>2 DEF Join
    <2>2. failed' \in [Runs -> SUBSET Dests]
      <3>1. [failed EXCEPT ![r] = @ \cup {plan[u]}] \in [Runs -> SUBSET Dests]
        BY AddedTypes DEF TypeOK
      <3> QED
        BY <1>7, <3>1 DEF TypeOK, Join
    <2>3. level' \in [Runs -> BOOLEAN] /\ stopping' \in [Runs -> BOOLEAN]
      BY <1>7 DEF TypeOK, Join
    <2> QED
      BY <1>7, <2>1, <2>2, <2>3 DEF TypeOK, Join, config, db, Statuses
  <1>8. ASSUME NEW r \in Runs, Grace(r)
        PROVE  TypeOK'
    BY <1>8 DEF TypeOK, Grace, Aborts, config, db, flow
  <1>9. ASSUME NEW r \in Runs, Joined(r)
        PROVE  TypeOK'
    BY <1>9 DEF TypeOK, Joined, Cancelled, Groups, config, db, units
  <1>10. ASSUME NEW r \in Runs, NEW d \in Dests, Commit(r, d)
         PROVE  TypeOK'
    <2>1. /\ target' \in [Dests -> [there : BOOLEAN, by : Runs \cup {Nobody}, rows : SUBSET Rows]]
          /\ staging' \in [Runs -> [Dests -> [there : BOOLEAN, rows : SUBSET Rows]]]
          /\ swapped' \in [Runs -> SUBSET Dests]
      <3>1. CASE Swap(r, d)
        <4>1. staging \in [Runs -> [Dests -> Tables]] /\ Absent \in Tables
          BY DEF TypeOK, Tables, Absent
        <4>2. [staging EXCEPT ![r][d] = Absent] \in [Runs -> [Dests -> Tables]]
          BY <4>1, PutTypes
        <4>3. staging[r][d].rows \in SUBSET Rows
          BY <4>1 DEF Tables
        <4>4. [swapped EXCEPT ![r] = @ \cup {d}] \in [Runs -> SUBSET Dests]
          BY AddedTypes DEF TypeOK
        <4>5. target' \in [Dests -> [there : BOOLEAN, by : Runs \cup {Nobody}, rows : SUBSET Rows]]
          <5> DEFINE Filled == [there : BOOLEAN, by : Runs \cup {Nobody}, rows : SUBSET Rows]
                     new == [there |-> TRUE, by |-> r, rows |-> staging[r][d].rows]
          <5>1. target \in [Dests -> Filled] /\ new \in Filled
            BY <4>3 DEF TypeOK
          <5>2. target' \in {target, [target EXCEPT ![d] = new]}
            BY <3>1 DEF Swap, db
          <5> HIDE DEF Filled, new
          <5>3. target' \in [Dests -> Filled]
            BY <5>1, <5>2
          <5> QED
            BY <5>3 DEF Filled
        <4>6. staging' \in [Runs -> [Dests -> Tables]] /\ swapped' \in [Runs -> SUBSET Dests]
          BY <3>1, <4>1, <4>2, <4>4 DEF TypeOK, Swap, db
        <4> QED
          BY <4>5, <4>6 DEF Tables
      <3>2. CASE UNCHANGED <<db, swapped>>
        BY <3>2 DEF TypeOK, db
      <3> QED
        BY <1>10, <3>1, <3>2 DEF Commit
    <2>2. todo' \in [Runs -> SUBSET Dests]
      BY <1>10 DEF TypeOK, Commit
    <2>3. unswapped' \in [Runs -> SUBSET Dests] /\ faults' \in 0..MaxFaults
      <3>1. [unswapped EXCEPT ![r] = @ \cup {d}] \in [Runs -> SUBSET Dests]
        BY AddedTypes DEF TypeOK
      <3>2. faults' = faults \/ Fault
        BY <1>10 DEF Commit, Maybe
      <3>3. faults' \in 0..MaxFaults
        BY <3>2 DEF Fault, TypeOK
      <3> QED
        BY <1>10, <3>1, <3>3 DEF TypeOK, Commit
    <2> QED
      BY <1>10, <2>1, <2>2, <2>3 DEF TypeOK, Commit, config, units
  <1>11. ASSUME NEW r \in Runs, NEW d \in Dests, Abort(r, d)
         PROVE  TypeOK'
    <2>1. staging' \in [Runs -> [Dests -> [there : BOOLEAN, rows : SUBSET Rows]]]
      <3>1. [staging EXCEPT ![r][d] = Absent]
              \in [Runs -> [Dests -> [there : BOOLEAN, rows : SUBSET Rows]]]
        BY DEF TypeOK, Absent
      <3> QED
        BY <1>11, <3>1 DEF TypeOK, Abort
    <2>2. todo' \in [Runs -> SUBSET Dests]
      BY <1>11 DEF TypeOK, Abort
    <2>3. unswapped' \in [Runs -> SUBSET Dests]
      <3>1. PICK D \in SUBSET {d} : unswapped' = [unswapped EXCEPT ![r] = @ \cup D]
        BY <1>11 DEF Abort
      <3> QED
        BY <3>1, AddedTypes DEF TypeOK
    <2>4. faults' \in 0..MaxFaults
      BY <1>11 DEF TypeOK, Abort, Fault
    <2> QED
      BY <1>11, <2>1, <2>2, <2>3, <2>4 DEF TypeOK, Abort, config, units
  <1>12. ASSUME NEW r \in Runs, Report(r)
         PROVE  TypeOK'
    BY <1>12 DEF TypeOK, Report, Ended, config, db, flow
  <1>13. ASSUME NEW r \in Runs, Cancel(r)
         PROVE  TypeOK'
    BY <1>13 DEF TypeOK, Cancel, Fault, config, db, units
  <1>14. ASSUME NEW r \in Runs, Crash(r)
         PROVE  TypeOK'
    BY <1>14 DEF TypeOK, Crash, Ended, Fault, config, db, flow, units
  <1>15. ASSUME NEW r \in Runs, Age(r)
         PROVE  TypeOK'
    BY <1>15 DEF TypeOK, Age, config, db, units
  <1>16. CASE UNCHANGED vars
    BY <1>16 DEF TypeOK, vars, config, db, flow, units
  <1> QED
    BY <1>1, <1>2, <1>3, <1>4, <1>5, <1>6, <1>7, <1>8, <1>9, <1>10, <1>11, <1>12, <1>13, <1>14,
       <1>15, <1>16 DEF Next, Executor

\* Every reachable state of a level is well typed (executor.rs, execute).
THEOREM TypeCorrect == Spec => []TypeOK
  BY TypeInit, TypeStep, PTL DEF Spec

-----------------------------------------------------------------------------
(* The invariant, run by run. *)

\* The pages of the units of d that run r has written.
Kept(r, d) == {x \in Rows : plan[x[1]] = d /\ x[2] <= written[r][x[1]]}

\* What a run has done by the phase it is in; and an old run that is still live has
\* nothing left to create.
Ordered(r) ==
  /\ phase[r] = "idle" => /\ ~aged[r] /\ ~stopping[r]
                          /\ \A d \in Dests : target[d].by # r
                          /\ \A u \in Units : task[r][u] = "planned"
  /\ phase[r] = "begin" /\ todo[r] # {} =>
       \A u \in Units : task[r][u] \in {"planned", "unresolved"}
  /\ phase[r] = "finalize" =>
       \A u \in Units : task[r][u] \in {"unresolved", "ok", "error", "skipped"}
  /\ \A u \in Units : task[r][u] \in {"planned", "unresolved"} => written[r][u] = 0
  /\ beginFailed[r] \subseteq failed[r]
  /\ stopping[r] => level[r]
  /\ aged[r] /\ Live(r) => \A d \in Dests : target[d].there

\* The finalize loop decides by what the end of the join read.
Stopped(r) == IF phase[r] = "finalize" THEN level[r] ELSE Cancelled(r)

\* A unit that fell short of its last page has left a trace that keeps its group from
\* being committed.
Accounted(r) ==
  Live(r) => \A u \in Units :
    /\ task[r][u] = "skipped" => Stopped(r)
    /\ task[r][u] = "error" => plan[u] \in failed[r]
    /\ task[r][u] \in {"ended", "ok"} => written[r][u] = Pages \/ limited \/ Stopped(r)
    /\ plan[u] \in beginFailed[r] => task[r][u] \in {"planned", "unresolved", "error", "skipped"}

\* A staging holds exactly what the run's units have written, and one that is missing
\* while it could be made anew has lost nothing.
Stages(r) ==
  \A d \in Dests :
    /\ staging[r][d].rows = IF staging[r][d].there THEN Kept(r, d) ELSE {}
    /\ (/\ Live(r) /\ (phase[r] = "finalize" => d \in todo[r])
        /\ ~staging[r][d].there /\ ~target[d].there)
         => \A u \in Units : plan[u] = d => written[r][u] = 0

\* A group with a unit that succeeded is still to be visited, swapped or reported.
Finalized(r) ==
  (phase[r] = "finalize" /\ ~limited) => \A u \in Units :
    task[r][u] = "ok" => plan[u] \in todo[r] \cup swapped[r] \cup unswapped[r]

Whole(r) ==
  \A d \in Dests : target[d].by = r => target[d].rows = Members(r, d) \X (1..Pages)

Reported(r) ==
  \A u \in Units :
    (phase[r] = "done" /\ task[r][u] = "ok" /\ ~limited) => plan[u] \in swapped[r]

RunInv(r) ==
  Ordered(r) /\ Accounted(r) /\ Stages(r) /\ Finalized(r) /\ Whole(r) /\ Reported(r)

OInv == TypeOK /\ \A r \in Runs : RunInv(r)

LEMMA InvInit == Init => OInv
  <1> SUFFICES ASSUME Init PROVE OInv
    OBVIOUS
  <1>1. TypeOK
    BY TypeInit
  <1>2. ASSUME NEW r \in Runs
        PROVE  RunInv(r)
    <2>1. phase[r] = "idle" /\ ~Live(r)
      BY <1>2 DEF Init, Live
    <2>2. /\ \A d \in Dests : target[d].by = Nobody
          /\ \A u \in Units : task[r][u] = "planned" /\ written[r][u] = 0
          /\ \A d \in Dests : ~staging[r][d].there /\ staging[r][d].rows = {}
          /\ ~aged[r] /\ ~stopping[r] /\ beginFailed[r] = {}
      BY <1>2 DEF Init, Absent
    <2> QED
      BY <1>2, <2>1, <2>2, OverwriteGroupAssumption
      DEF RunInv, Ordered, Accounted, Stages, Finalized, Whole, Reported
  <1> QED
    BY <1>1, <1>2 DEF OInv

\* What a step of run r leaves of another run, and of the destinations.
SameRun(k) ==
  /\ phase'[k] = phase[k] /\ cancel'[k] = cancel[k] /\ level'[k] = level[k]
  /\ stopping'[k] = stopping[k] /\ todo'[k] = todo[k] /\ beginFailed'[k] = beginFailed[k]
  /\ failed'[k] = failed[k] /\ unswapped'[k] = unswapped[k]
  /\ task'[k] = task[k] /\ written'[k] = written[k] /\ swapped'[k] = swapped[k]

RunStep(r) ==
  \/ Plan(r) \/ Executor(r) \/ Cancel(r) \/ Crash(r) \/ Age(r)
  \/ \E u \in Units : Write(r, u) \/ Return(r, u) \/ Break(r, u)

LEMMA OtherRuns ==
  ASSUME TypeOK, NEW r \in Runs, RunStep(r), NEW k \in Runs \ {r}
  PROVE  /\ SameRun(k) /\ aged'[k] = aged[k] /\ UNCHANGED config
         /\ \A d \in Dests : \/ staging'[k][d] = staging[k][d]
                             \/ aged[k] /\ staging'[k][d] = Absent
  <1>1. CASE Plan(r)
    BY <1>1 DEF TypeOK, Plan, SameRun, db, config
  <1>2. ASSUME NEW d \in Dests, Begin(r, d)
        PROVE  /\ SameRun(k) /\ aged'[k] = aged[k] /\ UNCHANGED config
               /\ \A e \in Dests : \/ staging'[k][e] = staging[k][e]
                                   \/ aged[k] /\ staging'[k][e] = Absent
    <2>1. staging' \in {staging, Staged(r, d)}
      BY <1>2 DEF Begin
    <2>2. \A e \in Dests : \/ staging'[k][e] = staging[k][e]
                           \/ aged[k] /\ staging'[k][e] = Absent
      BY <2>1, StagedTypes
    <2> QED
      BY <1>2, <2>2 DEF TypeOK, Begin, SameRun, config, units
  <1>3. ASSUME NEW u \in Units, Spawn(r, u) \/ Return(r, u) \/ Break(r, u) \/ Join(r, u)
        PROVE  SameRun(k) /\ UNCHANGED <<config, staging, aged>>
    BY <1>3 DEF TypeOK, Spawn, Return, Break, Join, SameRun, config, db, flow
  <1>4. ASSUME NEW u \in Units, Write(r, u)
        PROVE  SameRun(k) /\ staging'[k] = staging[k] /\ UNCHANGED <<config, aged>>
    BY <1>4 DEF TypeOK, Write, SameRun, config, flow
  <1>5. CASE Grace(r) \/ Joined(r) \/ Report(r)
    BY <1>5 DEF TypeOK, Grace, Aborts, Joined, Report, SameRun, config, db, flow, units
  <1>6. ASSUME NEW d \in Dests, Commit(r, d) \/ Abort(r, d)
        PROVE  SameRun(k) /\ staging'[k] = staging[k] /\ UNCHANGED <<config, aged>>
    BY <1>6 DEF TypeOK, Commit, Swap, Abort, SameRun, config, db, units
  <1>7. CASE Cancel(r) \/ Crash(r) \/ Age(r)
    BY <1>7 DEF TypeOK, Cancel, Crash, Age, SameRun, config, db, flow, units
  <1> QED
    BY <1>1, <1>2, <1>3, <1>4, <1>5, <1>6, <1>7 DEF RunStep, Executor

LEMMA Targets ==
  ASSUME TypeOK, NEW r \in Runs, RunStep(r), NEW d \in Dests
  PROVE  /\ target[d].there => target'[d].there
         /\ target'[d] = target[d] \/ target'[d].by = r
  <1>1. ASSUME NEW e \in Dests, Commit(r, e)
        PROVE  /\ target[d].there => target'[d].there
               /\ target'[d] = target[d] \/ target'[d].by = r
    BY <1>1 DEF TypeOK, Commit, Swap, db
  <1>2. (\A e \in Dests : ~Commit(r, e)) => UNCHANGED target
    BY DEF RunStep, Executor, Plan, Begin, Spawn, Return, Break, Join, Write, Grace, Joined,
           Report, Abort, Cancel, Crash, Age, db
  <1> QED
    BY <1>1, <1>2

\* The pages of a run are those of its own units.
LEMMA SameKept ==
  ASSUME NEW k \in Runs, NEW d \in Dests, plan' = plan, written'[k] = written[k]
  PROVE  Kept(k, d)' = Kept(k, d)
  BY DEF Kept

LEMMA SameMembers ==
  ASSUME NEW k \in Runs, NEW d \in Dests, plan' = plan, task'[k] = task[k]
  PROVE  Members(k, d)' = Members(k, d)
  BY DEF Members

\* A step of one run keeps the invariant of every other: the sweep takes the staging of
\* an old run only, and a swap replaces what a run has filled by its own.
LEMMA OtherStep ==
  ASSUME OInv, NEW r \in Runs, RunStep(r), NEW k \in Runs \ {r}
  PROVE  RunInv(k)'
  <1> USE DEF OInv
  <1>1. /\ SameRun(k) /\ aged'[k] = aged[k] /\ plan' = plan /\ limited' = limited
        /\ \A d \in Dests : \/ staging'[k][d] = staging[k][d]
                            \/ aged[k] /\ staging'[k][d] = Absent
    BY OtherRuns DEF config
  <1>2. \A d \in Dests : /\ target[d].there => target'[d].there
                         /\ target'[d] = target[d] \/ target'[d].by = r
    BY Targets
  <1>3. RunInv(k)
    OBVIOUS
  <1>4. Live(k)' = Live(k) /\ Stopped(k)' = Stopped(k)
    BY <1>1 DEF SameRun, Live, Stopped, Cancelled
  <1>5. Ordered(k)'
    BY <1>1, <1>2, <1>3, <1>4 DEF RunInv, Ordered, SameRun
  <1>6. Accounted(k)'
    BY <1>1, <1>3, <1>4 DEF RunInv, Accounted, SameRun
  <1>7. Stages(k)'
    <2> SUFFICES ASSUME NEW d \in Dests
                 PROVE
           /\ staging'[k][d].rows = IF staging'[k][d].there THEN Kept(k, d)' ELSE {}
           /\ (/\ Live(k)' /\ (phase'[k] = "finalize" => d \in todo'[k])
               /\ ~staging'[k][d].there /\ ~target'[d].there)
                => \A u \in Units : plan'[u] = d => written'[k][u] = 0
      BY DEF Stages
    <2>1. Kept(k, d)' = Kept(k, d)
      BY <1>1, SameKept DEF SameRun
    <2>2. staging[k][d].rows = IF staging[k][d].there THEN Kept(k, d) ELSE {}
      BY <1>3 DEF RunInv, Stages
    <2>3. staging'[k][d].rows = IF staging'[k][d].there THEN Kept(k, d)' ELSE {}
      BY <1>1, <2>1, <2>2 DEF Absent
    <2>4. ASSUME Live(k)', phase'[k] = "finalize" => d \in todo'[k],
                 ~staging'[k][d].there, ~target'[d].there
          PROVE  \A u \in Units : plan'[u] = d => written'[k][u] = 0
      <3>1. Live(k) /\ (phase[k] = "finalize" => d \in todo[k]) /\ ~target[d].there
        BY <1>1, <1>2, <1>4, <2>4 DEF SameRun
      <3>2. ~aged[k]
        BY <1>3, <3>1 DEF RunInv, Ordered
      <3>3. ~staging[k][d].there
        BY <1>1, <2>4, <3>2
      <3> QED
        BY <1>1, <1>3, <3>1, <3>3 DEF RunInv, Stages, SameRun
    <2> QED
      BY <2>3, <2>4
  <1>8. Finalized(k)'
    BY <1>1, <1>3 DEF RunInv, Finalized, SameRun
  <1>9. Whole(k)'
    <2> SUFFICES ASSUME NEW d \in Dests, target'[d].by = k
                 PROVE  target'[d].rows = Members(k, d)' \X (1..Pages)
      BY DEF Whole
    <2>1. target'[d] = target[d]
      BY <1>2
    <2>2. Members(k, d)' = Members(k, d)
      BY <1>1, SameMembers DEF SameRun
    <2> QED
      BY <1>3, <2>1, <2>2 DEF RunInv, Whole
  <1>10. Reported(k)'
    BY <1>1, <1>3 DEF RunInv, Reported, SameRun
  <1> QED
    BY <1>5, <1>6, <1>7, <1>8, <1>9, <1>10 DEF RunInv

-----------------------------------------------------------------------------
(* A step of a run and its own invariant. *)

\* What a step that touches no table keeps.
LEMMA SameWhole ==
  ASSUME OInv, NEW r \in Runs, UNCHANGED <<plan, target>>,
         \A u \in Units : task'[r][u] = "unresolved" <=> task[r][u] = "unresolved"
  PROVE  Whole(r)'
  <1>1. \A d \in Dests : Members(r, d)' = Members(r, d)
    BY DEF Members
  <1> QED
    BY <1>1 DEF OInv, RunInv, Whole

LEMMA SameStages ==
  ASSUME OInv, NEW r \in Runs, UNCHANGED <<plan, target, staging>>, written'[r] = written[r],
         Live(r)' => /\ Live(r)
                     /\ phase[r] = "finalize" => /\ phase'[r] = "finalize"
                                                 /\ todo'[r] \subseteq todo[r]
  PROVE  Stages(r)'
  <1> SUFFICES ASSUME NEW d \in Dests
               PROVE
         /\ staging'[r][d].rows = IF staging'[r][d].there THEN Kept(r, d)' ELSE {}
         /\ (/\ Live(r)' /\ (phase'[r] = "finalize" => d \in todo'[r])
             /\ ~staging'[r][d].there /\ ~target'[d].there)
              => \A u \in Units : plan'[u] = d => written'[r][u] = 0
    BY DEF Stages
  <1>1. Kept(r, d)' = Kept(r, d)
    BY SameKept
  <1>2. Stages(r)
    BY DEF OInv, RunInv
  <1> QED
    BY <1>1, <1>2 DEF Stages

LEMMA KeptNone ==
  ASSUME TypeOK, NEW r \in Runs, NEW d \in Dests,
         \A u \in Units : plan[u] = d => written[r][u] = 0
  PROVE  Kept(r, d) = {}
  BY DEF Kept, Rows

LEMMA PlanKeeps ==
  ASSUME OInv, NEW r \in Runs, Plan(r)
  PROVE  RunInv(r)'
  <1>1. /\ phase[r] = "idle" /\ RunInv(r) /\ TypeOK
        /\ UNCHANGED <<plan, limited, target, staging, written, stopping, beginFailed, failed,
                       aged>>
    BY DEF Plan, OInv, config, db
  <1>2. /\ \A u \in Units : task'[r][u] \in {"planned", "unresolved"}
        /\ phase'[r] \in {"join", "begin"}
    BY <1>1 DEF Plan, TypeOK
  <1>3. /\ ~aged[r] /\ ~stopping[r] /\ beginFailed[r] \subseteq failed[r]
        /\ \A d \in Dests : target[d].by # r
        /\ \A u \in Units : written[r][u] = 0
    BY <1>1 DEF RunInv, Ordered
  <1>4. Ordered(r)'
    BY <1>1, <1>2, <1>3 DEF Ordered
  <1>5. Accounted(r)'
    BY <1>2 DEF Accounted
  <1>6. Stages(r)'
    <2>1. \A d \in Dests : Kept(r, d)' = Kept(r, d)
      BY <1>1, SameKept
    <2> QED
      BY <1>1, <1>3, <2>1 DEF RunInv, Stages
  <1>7. Finalized(r)' /\ Whole(r)' /\ Reported(r)'
    BY <1>1, <1>2, <1>3 DEF Finalized, Whole, Reported
  <1> QED
    BY <1>4, <1>5, <1>6, <1>7 DEF RunInv

LEMMA BeginKeeps ==
  ASSUME OInv, NEW r \in Runs, NEW d \in Dests, Begin(r, d)
  PROVE  RunInv(r)'
  <1>1. /\ phase[r] = "begin" /\ todo[r] # {} /\ RunInv(r) /\ TypeOK
        /\ UNCHANGED <<plan, limited, target, phase, cancel, level, stopping, task, written, aged>>
    BY DEF Begin, OInv, config, units
  <1>2. \A u \in Units : task[r][u] \in {"planned", "unresolved"} /\ written[r][u] = 0
    BY <1>1 DEF RunInv, Ordered
  <1>3. Ordered(r)'
    <2>1. beginFailed'[r] \subseteq failed'[r]
      <3>1. beginFailed[r] \subseteq failed[r]
        BY <1>1 DEF RunInv, Ordered
      <3>2. \/ beginFailed'[r] = beginFailed[r] /\ failed'[r] = failed[r]
            \/ beginFailed'[r] = beginFailed[r] \cup {d} /\ failed'[r] = failed[r] \cup {d}
        BY <1>1 DEF Begin, TypeOK
      <3> QED
        BY <3>1, <3>2
    <2>2. Live(r)' = Live(r)
      BY <1>1 DEF Live
    <2> QED
      BY <1>1, <1>2, <2>1, <2>2 DEF RunInv, Ordered
  <1>4. Accounted(r)'
    BY <1>1, <1>2 DEF Accounted
  <1>5. Stages(r)'
    <2>1. \A e \in Dests : Kept(r, e)' = {}
      <3>1. \A e \in Dests : Kept(r, e) = {}
        BY <1>1, <1>2, KeptNone
      <3> QED
        BY <1>1, <3>1, SameKept
    <2>2. \A e \in Dests : staging[r][e].rows = {}
      BY <1>1, <1>2, KeptNone DEF RunInv, Stages
    <2>3. \A e \in Dests : staging'[r][e].rows = {}
      <3>1. staging' = staging \/ staging' = Staged(r, d)
        BY DEF Begin
      <3>2. \A e \in Dests : Staged(r, d)[r][e].rows = {}
        <4>1. \A e \in Dests : Staged(r, d)[r][e] \in {staging[r][e], Empty, Absent}
          BY <1>1, StagedTypes
        <4> QED
          BY <2>2, <4>1 DEF Absent, Empty
      <3> QED
        BY <2>2, <3>1, <3>2
    <2> QED
      BY <1>1, <1>2, <2>1, <2>3 DEF Stages
  <1>6. Whole(r)'
    BY <1>1, SameWhole
  <1>7. Finalized(r)' /\ Reported(r)'
    BY <1>1 DEF Finalized, Reported
  <1> QED
    BY <1>3, <1>4, <1>5, <1>6, <1>7 DEF RunInv

LEMMA SpawnKeeps ==
  ASSUME OInv, NEW r \in Runs, NEW u \in Units, Spawn(r, u)
  PROVE  RunInv(r)'
  <1>1. /\ phase[r] = "begin" /\ todo[r] = {} /\ task[r][u] = "planned" /\ RunInv(r) /\ TypeOK
        /\ UNCHANGED <<plan, limited, target, staging, cancel, level, stopping, todo, beginFailed,
                       failed, aged, written>>
    BY DEF Spawn, OInv, config, db, flow
  <1>2. /\ \A w \in Units \ {u} : task'[r][w] = task[r][w]
        /\ \/ task'[r][u] = "skipped" /\ Cancelled(r)
           \/ task'[r][u] = "error" /\ plan[u] \in beginFailed[r]
           \/ task'[r][u] = "running" /\ plan[u] \notin beginFailed[r]
        /\ phase'[r] \in {"begin", "join"}
    BY <1>1 DEF Spawn, TypeOK
  <1>3. Live(r) /\ Live(r)' /\ Stopped(r)' = Cancelled(r) /\ Stopped(r) = Cancelled(r)
    BY <1>1, <1>2 DEF Live, Ended, Stopped, Cancelled
  <1>4. Ordered(r)'
    BY <1>1, <1>2, <1>3 DEF RunInv, Ordered
  <1>5. Accounted(r)'
    BY <1>1, <1>2, <1>3 DEF RunInv, Ordered, Accounted
  <1>6. Stages(r)' /\ Whole(r)'
    BY <1>1, <1>2, <1>3, SameStages, SameWhole
  <1>7. Finalized(r)' /\ Reported(r)'
    BY <1>2 DEF Finalized, Reported
  <1> QED
    BY <1>4, <1>5, <1>6, <1>7 DEF RunInv

\* Until the join is over, the tasks and the join loop change the state of the units, and
\* may stop the level.
LEMMA UnitsKeep ==
  ASSUME OInv, NEW r \in Runs, phase[r] \in {"begin", "join"},
         \E u \in Units : task[r][u] \notin {"planned", "unresolved"},
         UNCHANGED <<plan, limited, target, staging, phase, cancel, todo, beginFailed, aged,
                     written>>,
         level[r] => level'[r], stopping'[r] => level'[r],
         failed[r] \subseteq failed'[r],
         \A u \in Units : \/ task'[r][u] = task[r][u]
                          \/ /\ task[r][u] \in {"running", "ended", "broke"}
                             /\ \/ task'[r][u] = "broke"
                                \/ task'[r][u] = "skipped" /\ Cancelled(r)'
                                \/ task'[r][u] = "error" /\ plan[u] \in failed'[r]
                                \/ /\ task'[r][u] \in {"ended", "ok"}
                                   /\ written[r][u] = Pages \/ limited \/ Cancelled(r)'
  PROVE  RunInv(r)'
  <1>1. RunInv(r) /\ TypeOK
    BY DEF OInv
  <1>2. /\ Live(r) /\ Live(r)' /\ Stopped(r)' = Cancelled(r)' /\ Stopped(r) = Cancelled(r)
        /\ Cancelled(r) => Cancelled(r)'
    BY DEF Live, Ended, Stopped, Cancelled
  <1>3. Ordered(r)'
    BY <1>1, <1>2 DEF RunInv, Ordered
  <1>4. Accounted(r)'
    <2> SUFFICES ASSUME NEW u \in Units
                 PROVE  /\ task'[r][u] = "skipped" => Cancelled(r)'
                        /\ task'[r][u] = "error" => plan[u] \in failed'[r]
                        /\ task'[r][u] \in {"ended", "ok"} =>
                             written[r][u] = Pages \/ limited \/ Cancelled(r)'
                        /\ plan[u] \in beginFailed[r] =>
                             task'[r][u] \in {"planned", "unresolved", "error", "skipped"}
      BY <1>2 DEF Accounted
    <2>1. /\ task[r][u] = "skipped" => Cancelled(r)
          /\ task[r][u] = "error" => plan[u] \in failed[r]
          /\ task[r][u] \in {"ended", "ok"} => written[r][u] = Pages \/ limited \/ Cancelled(r)
          /\ plan[u] \in beginFailed[r] =>
               task[r][u] \in {"planned", "unresolved", "error", "skipped"}
      BY <1>1, <1>2 DEF RunInv, Accounted
    <2> QED
      BY <1>2, <2>1
  <1>5. Stages(r)' /\ Whole(r)'
    BY <1>1, <1>2, SameStages, SameWhole
  <1>6. Finalized(r)' /\ Reported(r)'
    BY DEF Finalized, Reported
  <1> QED
    BY <1>3, <1>4, <1>5, <1>6 DEF RunInv

\* A live run whose task is running is not done with the join.
LEMMA RunningPhase ==
  ASSUME OInv, NEW r \in Runs, NEW u \in Units, Live(r), task[r][u] = "running"
  PROVE  phase[r] \in {"begin", "join"} /\ (phase[r] = "begin" => todo[r] = {})
  <1>1. Ordered(r) /\ phase[r] \in {"idle", "begin", "join", "finalize"} \cup Ended
    BY DEF OInv, TypeOK, RunInv
  <1> QED
    BY <1>1 DEF Ordered, Live

LEMMA ReturnKeeps ==
  ASSUME OInv, NEW r \in Runs, NEW u \in Units, Return(r, u)
  PROVE  RunInv(r)'
  <1>1. /\ Live(r) /\ task[r][u] = "running"
        /\ written[r][u] = Pages \/ limited \/ Cancelled(r)
        /\ UNCHANGED <<plan, limited, target, staging, phase, cancel, level, stopping, todo,
                       beginFailed, failed, aged, written>>
    BY DEF Return, config, db, flow
  <1>2. phase[r] \in {"begin", "join"}
    BY <1>1, RunningPhase
  <1>3. task'[r][u] = "ended" /\ \A w \in Units \ {u} : task'[r][w] = task[r][w]
    BY DEF Return, OInv, TypeOK
  <1>4. Cancelled(r)' = Cancelled(r) /\ (stopping[r] => level[r])
    BY <1>1 DEF Cancelled, OInv, RunInv, Ordered
  <1> QED
    BY <1>1, <1>2, <1>3, <1>4, UnitsKeep

LEMMA BrokeKeeps ==
  ASSUME OInv, NEW r \in Runs, NEW u \in Units, Live(r), task[r][u] = "running",
         task' = [task EXCEPT ![r][u] = "broke"],
         UNCHANGED <<config, db, phase, flow, written>>
  PROVE  RunInv(r)'
  <1>1. UNCHANGED <<plan, limited, target, staging, phase, cancel, level, stopping, todo,
                    beginFailed, failed, aged, written>>
    BY DEF config, db, flow
  <1>2. phase[r] \in {"begin", "join"}
    BY RunningPhase
  <1>3. task'[r][u] = "broke" /\ \A w \in Units \ {u} : task'[r][w] = task[r][w]
    BY DEF OInv, TypeOK
  <1>4. stopping[r] => level[r]
    BY DEF OInv, RunInv, Ordered
  <1> QED
    BY <1>1, <1>2, <1>3, <1>4, UnitsKeep

LEMMA JoinKeeps ==
  ASSUME OInv, NEW r \in Runs, NEW u \in Units, Join(r, u)
  PROVE  RunInv(r)'
  <1>1. /\ phase[r] = "join" /\ task[r][u] \in {"ended", "broke"} /\ TypeOK
        /\ UNCHANGED <<plan, limited, target, staging, phase, cancel, todo, beginFailed, aged,
                       written>>
    BY DEF Join, OInv, config, db
  <1>2. /\ stopping[r] => level[r]
        /\ task[r][u] = "ended" => written[r][u] = Pages \/ limited \/ Cancelled(r)
    <2>1. Live(r) /\ Stopped(r) = Cancelled(r)
      BY <1>1 DEF Live, Ended, Stopped
    <2> QED
      BY <2>1 DEF OInv, RunInv, Ordered, Accounted
  <1>3. \A w \in Units \ {u} : task'[r][w] = task[r][w]
    BY <1>1 DEF Join, TypeOK
  <1>4. CASE task[r][u] = "ended"
    <2>1. task'[r][u] = "ok" /\ UNCHANGED <<failed, level, stopping>>
      BY <1>1, <1>4 DEF Join, TypeOK
    <2>2. Cancelled(r)' = Cancelled(r)
      BY <1>1, <2>1 DEF Cancelled
    <2> QED
      BY <1>1, <1>2, <1>3, <1>4, <2>1, <2>2, UnitsKeep
  <1>5. CASE task[r][u] = "broke"
    <2>1. /\ task'[r][u] = "error" /\ failed'[r] = failed[r] \cup {plan[u]}
          /\ level'[r] = (level[r] \/ onError = "stop")
          /\ stopping'[r] = (stopping[r] \/ onError = "stop")
      BY <1>1, <1>5 DEF Join, TypeOK
    <2>2. failed[r] \subseteq failed'[r] /\ plan[u] \in failed'[r]
      BY <2>1
    <2>3. (level[r] => level'[r]) /\ (stopping'[r] => level'[r])
      BY <1>2, <2>1
    <2> QED
      BY <1>1, <1>3, <1>5, <2>1, <2>2, <2>3, UnitsKeep
  <1> QED
    BY <1>1, <1>4, <1>5

LEMMA GraceKeeps ==
  ASSUME OInv, NEW r \in Runs, Grace(r)
  PROVE  RunInv(r)'
  <1>1. /\ phase[r] = "join" /\ stopping[r] /\ TypeOK
        /\ UNCHANGED <<plan, limited, target, staging, phase, cancel, level, stopping, todo,
                       beginFailed, failed, aged, written>>
    BY DEF Grace, OInv, config, db, flow
  <1>2. PICK u \in Units : task[r][u] = "running"
    BY DEF Grace
  <1>3. stopping[r] => level[r]
    BY DEF OInv, RunInv, Ordered
  <1>4. Cancelled(r)'
    BY <1>1, <1>3 DEF Cancelled
  <1>5. \A w \in Units : \/ task'[r][w] = task[r][w]
                         \/ task[r][w] = "running" /\ task'[r][w] = "skipped"
    BY <1>1 DEF Grace, Aborts, TypeOK
  <1> QED
    BY <1>1, <1>2, <1>3, <1>4, <1>5, UnitsKeep

\* A page joins the pages that the staging holds: a staging that is made anew had none.
LEMMA WriteKeeps ==
  ASSUME OInv, NEW r \in Runs, NEW u \in Units, Write(r, u)
  PROVE  RunInv(r)'
  <1>0. PICK d \in Dests : d = plan[u]
    BY DEF OInv, TypeOK
  <1> DEFINE s == staging[r][d]
             n == written[r][u] + 1
  <1>1. /\ Live(r) /\ task[r][u] = "running" /\ HasPage(r, u) /\ RunInv(r) /\ TypeOK
        /\ UNCHANGED <<config, target, phase, flow>>
    BY DEF Write, OInv
  <1>2. CASE ~(s.there \/ Recreates(r, u))
    <2>1. task' = [task EXCEPT ![r][u] = "broke"] /\ UNCHANGED <<staging, written>>
      BY <1>0, <1>2 DEF Write
    <2> QED
      BY <1>1, <2>1, BrokeKeeps DEF db
  <1>3. CASE s.there \/ Recreates(r, u)
    <2>1. /\ staging' = [staging EXCEPT ![r][d] = [there |-> TRUE, rows |-> s.rows \cup {<<u, n>>}]]
          /\ written' = [written EXCEPT ![r][u] = n]
          /\ UNCHANGED task
      BY <1>0, <1>3 DEF Write
    <2>2. UNCHANGED <<plan, limited, target, phase, cancel, level, stopping, todo, beginFailed,
                      failed, aged, unswapped>>
      BY <1>1 DEF config, flow
    <2>3. phase[r] \in {"begin", "join"}
      BY <1>1, RunningPhase
    <2>4. /\ Live(r)' /\ Stopped(r)' = Stopped(r) /\ Live(r)' = Live(r)
      BY <1>1, <2>2 DEF Live, Stopped, Cancelled
    <2>5. /\ n \in 1..Pages /\ written'[r][u] = n
          /\ \A w \in Units \ {u} : written'[r][w] = written[r][w]
      BY <1>1, <2>1, OverwriteGroupAssumption DEF TypeOK, HasPage
    <2>6. Ordered(r)'
      BY <1>1, <2>1, <2>2, <2>4, <2>5 DEF RunInv, Ordered
    <2>7. Accounted(r)'
      <3>1. \A w \in Units : task[r][w] \in {"ended", "ok"} => written'[r][w] = written[r][w]
        BY <1>1, <2>5
      <3> QED
        BY <1>1, <2>1, <2>2, <2>4, <3>1 DEF RunInv, Accounted
    <2>8. Stages(r)'
      <3>1. /\ staging'[r][d].there /\ staging'[r][d].rows = s.rows \cup {<<u, n>>}
            /\ \A e \in Dests \ {d} : staging'[r][e] = staging[r][e]
        BY <1>1, <2>1, <2>5 DEF TypeOK
      <3>2. s.rows = Kept(r, d)
        <4>1. s.rows = IF s.there THEN Kept(r, d) ELSE {}
          BY <1>1, <2>5 DEF RunInv, Stages
        <4>2. ASSUME ~s.there
              PROVE  Kept(r, d) = {}
          <5>1. ~target[d].there
            BY <1>0, <1>3, <4>2 DEF Recreates
          <5>2. \A w \in Units : plan[w] = d => written[r][w] = 0
            BY <1>1, <2>3, <2>5, <4>2, <5>1 DEF RunInv, Stages
          <5> QED
            BY <1>1, <2>5, <5>2, KeptNone
        <4> QED
          BY <4>1, <4>2
      <3>3. Kept(r, d)' = Kept(r, d) \cup {<<u, n>>}
        <4> SUFFICES ASSUME NEW x \in Rows
                     PROVE  (plan[x[1]] = d /\ x[2] <= written'[r][x[1]])
                              <=> (plan[x[1]] = d /\ x[2] <= written[r][x[1]]) \/ x = <<u, n>>
          <5>1. <<u, n>> \in Rows
            BY <2>5 DEF Rows
          <5> QED
            BY <2>2, <5>1 DEF Kept
        <4>1. x[1] \in Units /\ x[2] \in 1..Pages /\ x = <<x[1], x[2]>>
          BY DEF Rows
        <4>2. written[r][u] \in Nat
          BY <1>1 DEF TypeOK
        <4>3. CASE x[1] = u
          BY <1>0, <2>5, <4>1, <4>2, <4>3
        <4>4. CASE x[1] # u
          BY <2>5, <4>1, <4>4
        <4> QED
          BY <4>3, <4>4
      <3>4. ASSUME NEW e \in Dests \ {d}
            PROVE  /\ Kept(r, e)' = Kept(r, e)
                   /\ \A w \in Units : plan[w] = e => written'[r][w] = written[r][w]
        <4>1. \A w \in Units : plan[w] = e => written'[r][w] = written[r][w]
          BY <1>0, <2>5
        <4> QED
          BY <2>2, <4>1 DEF Kept, Rows
      <3>5. Stages(r)
        BY <1>1 DEF RunInv
      <3> QED
        <4> SUFFICES ASSUME NEW e \in Dests
                     PROVE
               /\ staging'[r][e].rows = IF staging'[r][e].there THEN Kept(r, e)' ELSE {}
               /\ (/\ Live(r)' /\ (phase'[r] = "finalize" => e \in todo'[r])
                   /\ ~staging'[r][e].there /\ ~target'[e].there)
                    => \A w \in Units : plan'[w] = e => written'[r][w] = 0
          BY DEF Stages
        <4>1. CASE e = d
          BY <3>1, <3>2, <3>3, <4>1
        <4>2. CASE e # d
          BY <2>2, <2>4, <3>1, <3>4, <3>5, <4>2 DEF Stages
        <4> QED
          BY <4>1, <4>2
    <2>9. Whole(r)'
      BY <2>1, <2>2, SameWhole
    <2>10. Finalized(r)' /\ Reported(r)'
      BY <2>2, <2>3 DEF Finalized, Reported
    <2> QED
      BY <2>6, <2>7, <2>8, <2>9, <2>10 DEF RunInv
  <1> QED
    BY <1>2, <1>3

LEMMA JoinedKeeps ==
  ASSUME OInv, NEW r \in Runs, Joined(r)
  PROVE  RunInv(r)'
  <1>1. /\ phase[r] = "join" /\ RunInv(r) /\ TypeOK
        /\ \A u \in Units : task[r][u] \in {"unresolved", "ok", "error", "skipped"}
        /\ UNCHANGED <<plan, limited, target, staging, cancel, stopping, beginFailed, failed, aged,
                       task, written>>
    BY DEF Joined, OInv, config, db, units
  <1>2. level'[r] = Cancelled(r) /\ todo'[r] = Groups(r) /\ phase'[r] = "finalize"
    BY <1>1 DEF Joined, TypeOK
  <1>3. Live(r) /\ Live(r)' /\ Stopped(r)' = Stopped(r)
    BY <1>1, <1>2 DEF Live, Ended, Stopped
  <1>4. Ordered(r)'
    BY <1>1, <1>2, <1>3 DEF RunInv, Ordered, Cancelled
  <1>5. Accounted(r)'
    BY <1>1, <1>3 DEF RunInv, Accounted
  <1>6. Stages(r)' /\ Whole(r)'
    BY <1>1, <1>3, SameStages, SameWhole
  <1>7. Finalized(r)'
    <2>1. \A u \in Units : task[r][u] = "ok" => plan[u] \in Groups(r)
      BY <1>1 DEF TypeOK, Groups, Members
    <2> QED
      BY <1>1, <1>2, <2>1 DEF Finalized
  <1>8. Reported(r)'
    BY <1>2 DEF Reported
  <1> QED
    BY <1>4, <1>5, <1>6, <1>7, <1>8 DEF RunInv

LEMMA ReportKeeps ==
  ASSUME OInv, NEW r \in Runs, Report(r)
  PROVE  RunInv(r)'
  <1>1. /\ phase[r] = "finalize" /\ todo[r] = {} /\ RunInv(r) /\ TypeOK
        /\ UNCHANGED <<plan, limited, target, staging, cancel, level, stopping, beginFailed, failed,
                       unswapped, aged, written, swapped>>
    BY DEF Report, OInv, config, db, flow
  <1>2. /\ phase'[r] = "done"
        /\ \A u \in Units :
             task'[r][u] = IF task[r][u] = "ok" /\ plan[u] \in unswapped[r] THEN "error"
                           ELSE task[r][u]
    BY <1>1 DEF Report, TypeOK
  <1>3. ~Live(r)'
    BY <1>2 DEF Live, Ended
  <1>4. Ordered(r)'
    BY <1>1, <1>2, <1>3 DEF RunInv, Ordered
  <1>5. Accounted(r)' /\ Finalized(r)'
    BY <1>2, <1>3 DEF Accounted, Finalized
  <1>6. Stages(r)' /\ Whole(r)'
    BY <1>1, <1>2, <1>3, SameStages, SameWhole
  <1>7. Reported(r)'
    BY <1>1, <1>2 DEF RunInv, Finalized, Reported
  <1> QED
    BY <1>4, <1>5, <1>6, <1>7 DEF RunInv

\* The caller's cancel, the death of the process, and time.
LEMMA OutsideKeeps ==
  ASSUME OInv, NEW r \in Runs, Cancel(r) \/ Crash(r) \/ Age(r)
  PROVE  RunInv(r)'
  <1>1. /\ RunInv(r) /\ TypeOK
        /\ UNCHANGED <<plan, limited, target, staging, level, stopping, todo, beginFailed, failed,
                       unswapped, task, written, swapped>>
    BY DEF Cancel, Crash, Age, OInv, config, db, flow, units
  <1>2. \/ phase'[r] = phase[r]
        \/ phase'[r] = "dead"
    BY <1>1 DEF Cancel, Crash, Age, TypeOK
  <1>3. /\ Live(r)' => Live(r) /\ phase'[r] = phase[r]
        /\ Live(r)' /\ Stopped(r) => Stopped(r)'
    <2>1. cancel[r] => cancel'[r]
      BY <1>1 DEF Cancel, Crash, Age, TypeOK, flow
    <2> QED
      BY <1>1, <1>2, <2>1 DEF Live, Ended, Stopped, Cancelled
  <1>4. Ordered(r)'
    <2>1. aged'[r] = aged[r] \/ (phase[r] # "idle" /\ (Live(r) => \A d \in Dests : target[d].there))
      BY <1>1 DEF Cancel, Crash, Age, TypeOK, flow
    <2> QED
      BY <1>1, <1>2, <1>3, <2>1 DEF RunInv, Ordered
  <1>5. Accounted(r)'
    BY <1>1, <1>3 DEF RunInv, Accounted
  <1>6. Stages(r)' /\ Whole(r)'
    BY <1>1, <1>3, SameStages, SameWhole
  <1>7. Finalized(r)' /\ Reported(r)'
    BY <1>1, <1>2 DEF RunInv, Finalized, Reported
  <1> QED
    BY <1>4, <1>5, <1>6, <1>7 DEF RunInv

\* A group that is committed has written everything: every member ended well, and on its
\* last page.
LEMMA CommitsWhole ==
  ASSUME OInv, NEW r \in Runs, NEW d \in Dests, phase[r] = "finalize", Commits(r, d)
  PROVE  /\ \A u \in Units : plan[u] = d /\ task[r][u] = "ok" => written[r][u] = Pages
         /\ Kept(r, d) = Members(r, d) \X (1..Pages)
  <1>1. /\ ~level[r] /\ ~limited /\ d \notin failed[r] /\ Live(r) /\ ~Stopped(r)
    BY DEF Commits, Live, Ended, Stopped
  <1>2. \A u \in Units : /\ task[r][u] \in {"unresolved", "ok", "error", "skipped"}
                         /\ task[r][u] = "unresolved" => written[r][u] = 0
    BY DEF OInv, RunInv, Ordered
  <1>3. \A u \in Units : /\ task[r][u] # "skipped"
                         /\ task[r][u] = "error" => plan[u] \in failed[r]
                         /\ task[r][u] = "ok" => written[r][u] = Pages
    BY <1>1 DEF OInv, RunInv, Accounted
  <1>4. \A u \in Units : plan[u] = d =>
          \/ task[r][u] = "unresolved" /\ written[r][u] = 0
          \/ task[r][u] = "ok" /\ written[r][u] = Pages
    BY <1>1, <1>2, <1>3
  <1>5. Kept(r, d) = Members(r, d) \X (1..Pages)
    <2> SUFFICES ASSUME NEW u \in Units, NEW n \in 1..Pages
                 PROVE  (plan[u] = d /\ n <= written[r][u])
                          <=> (plan[u] = d /\ task[r][u] # "unresolved")
      BY DEF Kept, Members, Rows
    <2> QED
      BY <1>4, OverwriteGroupAssumption
  <1> QED
    BY <1>3, <1>5

LEMMA CommitKeeps ==
  ASSUME OInv, NEW r \in Runs, NEW d \in Dests, Commit(r, d)
  PROVE  RunInv(r)'
  <1> DEFINE t == staging[r][d]
  <1>1. /\ phase[r] = "finalize" /\ d \in todo[r] /\ Commits(r, d) /\ RunInv(r) /\ TypeOK
        /\ UNCHANGED <<plan, limited, phase, cancel, level, stopping, beginFailed, failed, aged,
                       task, written>>
    BY DEF Commit, OInv, config, units
  <1>2. todo'[r] = todo[r] \ {d}
    BY <1>1 DEF Commit, TypeOK
  <1>3. /\ Live(r) /\ Live(r)' = Live(r) /\ Stopped(r)' = Stopped(r)
    BY <1>1 DEF Live, Ended, Stopped, Cancelled
  <1>4. \/ /\ t.there
           /\ target'[d] = [there |-> TRUE, by |-> r, rows |-> t.rows]
           /\ staging'[r][d] = Absent
           /\ swapped'[r] = swapped[r] \cup {d}
        \/ /\ target'[d] = target[d] /\ staging'[r][d] = staging[r][d] /\ swapped'[r] = swapped[r]
    <2>1. Swap(r, d) \/ UNCHANGED <<target, staging, swapped>>
      BY DEF Commit, db
    <2>2. CASE t.there /\ Swap(r, d)
      <3>1. /\ target' = [target EXCEPT ![d] = [there |-> TRUE, by |-> r, rows |-> t.rows]]
            /\ staging' = [staging EXCEPT ![r][d] = Absent]
            /\ swapped' = [swapped EXCEPT ![r] = @ \cup {d}]
        BY <2>2 DEF Swap
      <3>2. target'[d] = [there |-> TRUE, by |-> r, rows |-> t.rows]
        BY <1>1, <3>1 DEF TypeOK
      <3>3. staging'[r][d] = Absent
        BY <1>1, <3>1 DEF TypeOK
      <3>4. swapped'[r] = swapped[r] \cup {d}
        BY <1>1, <3>1 DEF TypeOK
      <3> QED
        BY <2>2, <3>2, <3>3, <3>4
    <2>3. CASE ~t.there \/ UNCHANGED <<target, staging, swapped>>
      BY <2>1, <2>3 DEF Swap, db
    <2> QED
      BY <2>1, <2>2, <2>3
  <1>5. \A e \in Dests \ {d} : target'[e] = target[e] /\ staging'[r][e] = staging[r][e]
    BY <1>1 DEF Commit, Swap, TypeOK, db
  <1>6. /\ \A u \in Units : plan[u] = d /\ task[r][u] = "ok" => written[r][u] = Pages
        /\ Kept(r, d) = Members(r, d) \X (1..Pages)
    BY <1>1, CommitsWhole
  <1>7. Ordered(r)'
    <2>1. \A e \in Dests : target[e].there => target'[e].there
      BY <1>4, <1>5
    <2> QED
      BY <1>1, <1>3, <2>1 DEF RunInv, Ordered
  <1>8. Accounted(r)'
    BY <1>1, <1>3 DEF RunInv, Accounted
  <1>9. Stages(r)'
    <2> SUFFICES ASSUME NEW e \in Dests
                 PROVE
           /\ staging'[r][e].rows = IF staging'[r][e].there THEN Kept(r, e)' ELSE {}
           /\ (/\ Live(r)' /\ (phase'[r] = "finalize" => e \in todo'[r])
               /\ ~staging'[r][e].there /\ ~target'[e].there)
                => \A u \in Units : plan'[u] = e => written'[r][u] = 0
      BY DEF Stages
    <2>1. Kept(r, e)' = Kept(r, e)
      BY <1>1, SameKept
    <2>2. Stages(r)
      BY <1>1 DEF RunInv
    <2>3. CASE e = d
      BY <1>1, <1>2, <1>4, <2>1, <2>2, <2>3 DEF Stages, Absent
    <2>4. CASE e # d
      BY <1>1, <1>2, <1>3, <1>5, <2>1, <2>2, <2>4 DEF Stages
    <2> QED
      BY <2>3, <2>4
  <1>10. Finalized(r)'
    <2> SUFFICES ASSUME NEW u \in Units, task[r][u] = "ok", ~limited
                 PROVE  plan[u] \in todo'[r] \cup swapped'[r] \cup unswapped'[r]
      BY <1>1 DEF Finalized
    <2>1. plan[u] \in todo[r] \cup swapped[r] \cup unswapped[r] /\ plan[u] \in Dests
      BY <1>1 DEF RunInv, Finalized, TypeOK
    <2>2. /\ swapped[r] \subseteq swapped'[r]
          /\ unswapped'[r] = unswapped[r] \/ unswapped'[r] = unswapped[r] \cup {d}
      <3>1. swapped[r] \subseteq swapped'[r]
        BY <1>4
      <3>2. unswapped'[r] = unswapped[r] \/ unswapped'[r] = unswapped[r] \cup {d}
        BY <1>1 DEF Commit, TypeOK
      <3> QED
        BY <3>1, <3>2
    <2>3. ASSUME plan[u] = d, d \notin unswapped'[r]
          PROVE  d \in swapped'[r]
      <3>1. (t.there \/ ~target[d].there) /\ Swap(r, d)
        <4>1. \/ (t.there \/ ~target[d].there) /\ Swap(r, d)
              \/ unswapped' = [unswapped EXCEPT ![r] = @ \cup {d}]
          BY DEF Commit
        <4>2. unswapped' # [unswapped EXCEPT ![r] = @ \cup {d}]
          BY <1>1, <2>3 DEF TypeOK
        <4> QED
          BY <4>1, <4>2
      <3>2. t.there
        <4>1. SUFFICES ASSUME ~t.there
                       PROVE  FALSE
          OBVIOUS
        <4>2. written[r][u] = 0
          BY <1>1, <1>3, <2>3, <3>1, <4>1 DEF RunInv, Stages
        <4> QED
          BY <1>6, <2>3, <4>2, OverwriteGroupAssumption
      <3>3. swapped' = [swapped EXCEPT ![r] = @ \cup {d}]
        BY <3>1, <3>2 DEF Swap
      <3> QED
        BY <1>1, <3>3 DEF TypeOK
    <2> QED
      BY <1>2, <2>1, <2>2, <2>3
  <1>11. Whole(r)'
    <2> SUFFICES ASSUME NEW e \in Dests, target'[e].by = r
                 PROVE  target'[e].rows = Members(r, e)' \X (1..Pages)
      BY DEF Whole
    <2>1. Members(r, e)' = Members(r, e)
      BY <1>1, SameMembers
    <2>2. CASE target'[e] = target[e]
      BY <1>1, <2>1, <2>2 DEF RunInv, Whole
    <2>3. CASE target'[e] # target[e]
      <3>1. e = d /\ t.there /\ target'[d].rows = t.rows
        BY <1>4, <1>5, <2>3
      <3>2. t.rows = Kept(r, d)
        BY <1>1, <3>1 DEF RunInv, Stages
      <3> QED
        BY <1>6, <2>1, <3>1, <3>2
    <2> QED
      BY <2>2, <2>3
  <1>12. Reported(r)'
    BY <1>1 DEF Reported
  <1> QED
    BY <1>7, <1>8, <1>9, <1>10, <1>11, <1>12 DEF RunInv

LEMMA AbortKeeps ==
  ASSUME OInv, NEW r \in Runs, NEW d \in Dests, Abort(r, d)
  PROVE  RunInv(r)'
  <1>1. /\ phase[r] = "finalize" /\ d \in todo[r] /\ ~Commits(r, d) /\ RunInv(r) /\ TypeOK
        /\ UNCHANGED <<plan, limited, target, phase, cancel, level, stopping, beginFailed, failed,
                       aged, task, written, swapped>>
    BY DEF Abort, OInv, config, units
  <1>2. todo'[r] = todo[r] \ {d}
    BY <1>1 DEF Abort, TypeOK
  <1>3. Live(r) /\ Live(r)' = Live(r) /\ Stopped(r)' = Stopped(r) /\ Stopped(r) = level[r]
    BY <1>1 DEF Live, Ended, Stopped, Cancelled
  <1>4. /\ staging'[r][d] = staging[r][d] \/ staging'[r][d] = Absent
        /\ \A e \in Dests \ {d} : staging'[r][e] = staging[r][e]
    <2>1. staging' = staging \/ staging' = [staging EXCEPT ![r][d] = Absent]
      BY DEF Abort
    <2> QED
      BY <1>1, <2>1 DEF TypeOK
  <1>5. /\ unswapped[r] \subseteq unswapped'[r]
        /\ Unswapped(r, d) => d \in unswapped'[r]
    <2> DEFINE noted == IF Unswapped(r, d) THEN {d} ELSE {}
    <2>1. \/ unswapped' = [unswapped EXCEPT ![r] = @ \cup noted]
          \/ unswapped' = [unswapped EXCEPT ![r] = @ \cup {d}]
      BY DEF Abort
    <2>2. unswapped'[r] = unswapped[r] \cup noted \/ unswapped'[r] = unswapped[r] \cup {d}
      BY <1>1, <2>1 DEF TypeOK
    <2> QED
      BY <2>2
  <1>6. Ordered(r)'
    BY <1>1, <1>3 DEF RunInv, Ordered
  <1>7. Accounted(r)'
    BY <1>1, <1>3 DEF RunInv, Accounted
  <1>8. Stages(r)'
    <2> SUFFICES ASSUME NEW e \in Dests
                 PROVE
           /\ staging'[r][e].rows = IF staging'[r][e].there THEN Kept(r, e)' ELSE {}
           /\ (/\ Live(r)' /\ (phase'[r] = "finalize" => e \in todo'[r])
               /\ ~staging'[r][e].there /\ ~target'[e].there)
                => \A u \in Units : plan'[u] = e => written'[r][u] = 0
      BY DEF Stages
    <2>1. Kept(r, e)' = Kept(r, e)
      BY <1>1, SameKept
    <2>2. Stages(r)
      BY <1>1 DEF RunInv
    <2>3. CASE e = d
      <3>1. e \notin todo'[r] /\ phase'[r] = "finalize"
        BY <1>1, <1>2, <2>3
      <3>2. staging'[r][e].rows = IF staging'[r][e].there THEN Kept(r, e)' ELSE {}
        <4>1. CASE staging'[r][e] = staging[r][e]
          BY <2>1, <2>2, <4>1 DEF Stages
        <4>2. CASE staging'[r][e] = Absent
          BY <4>2 DEF Absent
        <4> QED
          BY <1>4, <2>3, <4>1, <4>2
      <3> QED
        BY <3>1, <3>2
    <2>4. CASE e # d
      BY <1>1, <1>2, <1>3, <1>4, <2>1, <2>2, <2>4 DEF Stages
    <2> QED
      BY <2>3, <2>4
  <1>9. Finalized(r)'
    <2> SUFFICES ASSUME NEW u \in Units, task[r][u] = "ok", ~limited
                 PROVE  plan[u] \in todo'[r] \cup swapped'[r] \cup unswapped'[r]
      BY <1>1 DEF Finalized
    <2>1. plan[u] \in todo[r] \cup swapped[r] \cup unswapped[r]
      BY <1>1 DEF RunInv, Finalized
    <2>2. plan[u] \notin beginFailed[r]
      BY <1>1, <1>3 DEF RunInv, Accounted
    <2>3. plan[u] = d => Unswapped(r, d)
      BY <1>1, <2>2 DEF Commits, Unswapped
    <2> QED
      BY <1>1, <1>2, <1>5, <2>1, <2>3
  <1>10. Whole(r)'
    BY <1>1, SameWhole
  <1>11. Reported(r)'
    BY <1>1 DEF Reported
  <1> QED
    BY <1>6, <1>7, <1>8, <1>9, <1>10, <1>11 DEF RunInv

LEMMA InvStep == OInv /\ [Next]_vars => OInv'
  <1> SUFFICES ASSUME OInv, [Next]_vars
               PROVE  OInv'
    OBVIOUS
  <1>1. TypeOK'
    BY TypeStep DEF OInv
  <1>2. ASSUME NEW r \in Runs, RunStep(r)
        PROVE  \A k \in Runs : RunInv(k)'
    <2>1. RunInv(r)'
      <3>1. ASSUME NEW u \in Units, Break(r, u)
            PROVE  RunInv(r)'
        BY <3>1, BrokeKeeps DEF Break
      <3> QED
        BY <1>2, <3>1, PlanKeeps, BeginKeeps, SpawnKeeps, WriteKeeps, ReturnKeeps, JoinKeeps,
           GraceKeeps, JoinedKeeps, CommitKeeps, AbortKeeps, ReportKeeps, OutsideKeeps
        DEF RunStep, Executor
    <2>2. \A k \in Runs \ {r} : RunInv(k)'
      BY <1>2, OtherStep
    <2> QED
      BY <2>1, <2>2
  <1>3. CASE UNCHANGED vars
    <2>1. OInv = OInv'
      BY <1>3 DEF OInv, TypeOK, RunInv, Ordered, Accounted, Stages, Finalized, Whole, Reported,
                  Kept, Members, Live, Stopped, Cancelled, vars, config, db, flow, units
    <2> QED
      BY <2>1
  <1>4. Next => \E r \in Runs : RunStep(r)
    BY DEF Next, RunStep
  <1> QED
    BY <1>1, <1>2, <1>3, <1>4 DEF OInv

LEMMA Invariant == Spec => []OInv
  BY InvInit, InvStep, PTL DEF Spec

\* A destination a run has replaced holds every row of every unit the run grouped there and
\* nothing else, whatever fails, is cancelled, crashes or overlaps (executor.rs, the finalize
\* loop: must_abort and commit_overwrite).
THEOREM RefreshIsWhole == Spec => []WholeRefresh
  <1>1. OInv => WholeRefresh
    BY DEF OInv, RunInv, Whole, WholeRefresh
  <1> QED
    BY <1>1, Invariant, PTL

\* A unit that is reported ok, of a run without --limit, has had its staging swapped in
\* (executor.rs, the members of an unswapped group are turned into errors).
THEOREM OkIsSwapped == Spec => []OkMeansSwapped
  <1>1. OInv => OkMeansSwapped
    BY DEF OInv, RunInv, Reported, OkMeansSwapped
  <1> QED
    BY <1>1, Invariant, PTL
=============================================================================
