--------------------------- MODULE RunLeaseProofs ----------------------------
(* Mutual exclusion of the run lease, for any number of runs, processes and
   hosts, and any placement of the runs. *)
EXTENDS RunLease, TLAPS

(* A run that can never hold the lease again. *)
Out(r) == pc[r] \in Ended \cup {"expire", "outdate"}

(* A run none of whose writes has reached the store. *)
Fresh(r) == pc[r] \in Taking \cup {"idle"}

(* A lease that stands in nobody's way: none, an expired one, or one of a run
   that is out. *)
Replaceable(l) == l.run \notin Runs \/ l.exp <= now \/ Out(l.run)

(* A run that has a mark and a live process. *)
Marked ==
  \A r \in Runs : pc[r] \in Taking \cup {"run", "release", "remove"}
                    => r \in held /\ where[r] \in alive

(* Where each local is meaningful, and whose lease it is. *)
Located ==
  \A r \in Runs :
    /\ pc[r] \in {"idle", "read", "wait", "write"} => tries[r] < TakeAttempts
    /\ renew[r] # "off" => pc[r] \in {"run", "release", "expire"}
    /\ pc[r] \in Taking => next[r].run = r
    /\ pc[r] = "remove" => next[r] = NoLease
    /\ pc[r] = "outdate" => next[r].run = r
    /\ pc[r] \in {"run", "remove", "outdate"} => expect[r].run = r
    /\ pc[r] \in Taking => next[r].exp <= now + TTL
    /\ pc[r] = "run" => expect[r].exp <= now + TTL
    /\ renew[r] = "write" =>
         /\ expect[r].run = r /\ next[r].run = r
         /\ expect[r].exp <= next[r].exp /\ next[r].exp <= now + TTL

(* The lease of a run that has written nothing is nowhere to be seen. *)
Unseen ==
  \A r \in Runs : Fresh(r) =>
    /\ lease.run # r
    /\ \A q \in Runs : expect[q].run # r
    /\ \A w \in late : w.old.run # r /\ w.new.run # r

(* What a take in flight may replace. *)
Judged ==
  \A r \in Runs : pc[r] = "write" /\ ~forced[r] => Replaceable(expect[r])

(* A write nobody waits for is a forced take's, a renewal that extends the
   lease of its run, or replaces what stands in nobody's way; except for the
   renewal, it is of a run that is out. *)
Harmless(w) ==
  /\ w.put => \E q \in Runs : forced[q]
  /\ w.put \/ w.old.run = w.new.run \/ Replaceable(w.old)
  /\ \/ w.new.run \notin Runs
     \/ Out(w.new.run)
     \/ ~w.put /\ w.old.run = w.new.run /\ w.old.exp <= w.new.exp

Strays == \A w \in late : Harmless(w)

(* The stored lease of a run is its newest one. *)
Newest ==
  \A r \in Runs :
    lease.run = r /\ pc[r] = "run" => expect[r].exp <= lease.exp

(* Without force, a run that holds the row is the one in the store. *)
Backed ==
  (\A q \in Runs : ~forced[q]) =>
    \A r \in Runs : Holds(r) => lease.run = r

LInv ==
  /\ TypeOK /\ Marked /\ Located /\ Unseen
  /\ Judged /\ Strays /\ Newest /\ Backed
-------------------------------------------------------------------------------
(* The invariant holds at the start. *)
LEMMA InitEstablishes == Init => LInv
BY RunLeaseAssumption
DEF Init, LInv, TypeOK, Marked, Located, Unseen, Judged, Strays, Harmless,
    Newest,
    Backed, Holds, NoLease, Leases, Writes, Taking, Stopping, Ended, Fresh

(* What a caller that goes away leaves behind is the write it waited for. *)
LEMMA AbandonedCalls ==
  ASSUME NEW runs, Abandons(runs)
  PROVE  \A w \in late' : w \in late \/ \E q \in runs : Waits(q) /\ w = Call(q)
BY DEF Abandons

(* The same for one run. *)
LEMMA LeftCall ==
  ASSUME NEW r \in Runs, LeavesCall(r)
  PROVE  \A w \in late' : w \in late \/ (Waits(r) /\ w = Call(r))
BY AbandonedCalls DEF LeavesCall

(* A write in flight is well typed. *)
LEMMA CallIsTyped == TypeOK => \A r \in Runs : Call(r) \in Writes
BY DEF TypeOK, Call, Writes

(* One lemma for each conjunct: every step preserves it. *)
LEMMA StepTypeOK ==
  TypeOK /\ Located /\ [Next]_vars
    => TypeOK'
<1> SUFFICES ASSUME TypeOK, Located, [Next]_vars
             PROVE  TypeOK'
  OBVIOUS
<1> USE RunLeaseAssumption DEF TypeOK, Leases, Taking, Stopping, Ended, NoLease
<1>1. CASE UNCHANGED vars
  BY <1>1 DEF vars, task
<1>2. ASSUME NEW r \in Runs, Begin(r) PROVE TypeOK'
  BY <1>2 DEF Begin, Starts, Goto, Lease
<1>3. ASSUME NEW r \in Runs, BeginForced(r) PROVE TypeOK'
  BY <1>3 DEF BeginForced, Starts, Goto, Lease
<1>4. ASSUME NEW r \in Runs, ReadLease(r) PROVE TypeOK'
  BY <1>4 DEF ReadLease, Goto
<1>5. ASSUME NEW r \in Runs, ReadFails(r) PROVE TypeOK'
  BY <1>5 DEF ReadFails, Goto, Leaves, Forgets
<1>6. ASSUME NEW r \in Runs, TakeOver(r) PROVE TypeOK'
  BY <1>6 DEF TakeOver, Goto, task
<1>7. ASSUME NEW r \in Runs, Refused(r) PROVE TypeOK'
  BY <1>7 DEF Refused, Goto, Leaves, Forgets
<1>8. ASSUME NEW r \in Runs, Taken(r) PROVE TypeOK'
  BY <1>8 DEF Taken, Goto
<1>9. ASSUME NEW r \in Runs, Contended(r) PROVE TypeOK'
  BY <1>9 DEF Contended, Goto, MoreTries, Located
<1>10. ASSUME NEW r \in Runs, TakeFails(r) PROVE TypeOK'
  <2>1. late' \subseteq Writes
    BY <1>10, LeftCall, CallIsTyped DEF TakeFails
  <2> QED
    BY <1>10, <2>1 DEF TakeFails, Goto, Leaves, Forgets
<1>11. ASSUME NEW r \in Runs, RereadHeld(r) PROVE TypeOK'
  BY <1>11 DEF RereadHeld, Goto, Leaves, Forgets
<1>12. ASSUME NEW r \in Runs, RereadFree(r) PROVE TypeOK'
  BY <1>12 DEF RereadFree, Goto, Leaves, Forgets
<1>13. ASSUME NEW r \in Runs, AbandonTake(r) PROVE TypeOK'
  <2>1. late' \subseteq Writes
    BY <1>13, LeftCall, CallIsTyped DEF AbandonTake
  <2> QED
    BY <1>13, <2>1 DEF AbandonTake, Goto, Leaves, Forgets
<1>14. ASSUME NEW r \in Runs, RenewCalls(r) PROVE TypeOK'
  BY <1>14 DEF RenewCalls, Lease
<1>15. ASSUME NEW r \in Runs, Renewed(r) PROVE TypeOK'
  BY <1>15 DEF Renewed, Settles, Loops
<1>16. ASSUME NEW r \in Runs, RenewRefused(r) PROVE TypeOK'
  BY <1>16 DEF RenewRefused, Settles, Loses
<1>17. ASSUME NEW r \in Runs, RenewFails(r) PROVE TypeOK'
  <2>1. late' \subseteq Writes
    BY <1>17, LeftCall, CallIsTyped DEF RenewFails
  <2> QED
    BY <1>17, <2>1 DEF RenewFails, Settles, Loops
<1>18. ASSUME NEW r \in Runs, RenewExpires(r) PROVE TypeOK'
  <2>1. late' \subseteq Writes
    BY <1>18, LeftCall, CallIsTyped DEF RenewExpires
  <2> QED
    BY <1>18, <2>1 DEF RenewExpires, Settles, Loses
<1>19. ASSUME NEW r \in Runs, EndRun(r) PROVE TypeOK'
  BY <1>19 DEF EndRun, Goto, StopsRenewal
<1>20. ASSUME NEW r \in Runs, EndUnleased(r) PROVE TypeOK'
  BY <1>20 DEF EndUnleased, Goto, task
<1>21. ASSUME NEW r \in Runs, AbortRun(r) PROVE TypeOK'
  BY <1>21 DEF AbortRun, Goto, StopsRenewal
<1>22. ASSUME NEW r \in Runs, AbortRelease(r) PROVE TypeOK'
  <2>1. late' \subseteq Writes
    BY <1>22, LeftCall, CallIsTyped DEF AbortRelease
  <2> QED
    BY <1>22, <2>1 DEF AbortRelease, Goto, Forgets
<1>23. ASSUME NEW r \in Runs, ReadOwn(r) PROVE TypeOK'
  <2>1. Lease(r, now - 1) \in Leases /\ NoLease \in Leases
    BY DEF Lease
  <2>2. next' \in [Runs -> Leases]
    BY <1>23, <2>1 DEF ReadOwn
  <2>3. expect' \in [Runs -> Leases]
    BY <1>23 DEF ReadOwn
  <2>4. pc' \in [Runs -> {"idle", "run"} \cup Taking \cup Stopping \cup Ended]
    BY <1>23 DEF ReadOwn, Goto
  <2> QED
    BY <1>23, <2>2, <2>3, <2>4 DEF ReadOwn
<1>24. ASSUME NEW r \in Runs, ReadOther(r) PROVE TypeOK'
  BY <1>24 DEF ReadOther, Goto, Leaves, Forgets
<1>25. ASSUME NEW r \in Runs, Release(r) PROVE TypeOK'
  BY <1>25 DEF Release, Goto, Leaves, Forgets
<1>26. ASSUME NEW r \in Runs, ReleaseFails(r) PROVE TypeOK'
  <2>1. late' \subseteq Writes
    BY <1>26, LeftCall, CallIsTyped DEF ReleaseFails
  <2> QED
    BY <1>26, <2>1 DEF ReleaseFails, Goto, Leaves, Forgets
<1>27. ASSUME NEW w \in late, LateLands(w) PROVE TypeOK'
  BY <1>27 DEF LateLands, task, Writes
<1>28. ASSUME NEW p \in Procs, Dies(p) PROVE TypeOK'
  <2>1. lost' \in [Runs -> BOOLEAN] /\ forced' \in [Runs -> BOOLEAN]
    BY <1>28 DEF Dies
  <2>2. expect' \in [Runs -> Leases] /\ next' \in [Runs -> Leases]
    BY <1>28 DEF Dies
  <2>3. tries' \in [Runs -> 0..TakeAttempts]
    BY <1>28 DEF Dies
  <2>4. /\ pc' \in [Runs -> {"idle", "run"} \cup Taking \cup Stopping
                           \cup Ended]
        /\ renew' \in [Runs -> {"off", "sleep", "write"}]
    BY <1>28 DEF Dies
  <2>5. late' \subseteq Writes
    BY <1>28, AbandonedCalls, CallIsTyped DEF Dies
  <2> QED
    BY <1>28, <2>1, <2>2, <2>3, <2>4, <2>5 DEF Dies
<1>29. CASE Tick
  BY <1>29 DEF Tick, task
<1> QED
  BY <1>1, <1>2, <1>3, <1>4, <1>5, <1>6, <1>7, <1>8, <1>9, <1>10, <1>11,
     <1>12, <1>13, <1>14, <1>15, <1>16, <1>17, <1>18, <1>19, <1>20, <1>21,
     <1>22, <1>23, <1>24, <1>25, <1>26, <1>27, <1>28, <1>29
  DEF Next, Take, Renew

(* Until its guard is gone, a run keeps its mark, and its process lives. *)
LEMMA StepMarked ==
  TypeOK /\ Marked /\ [Next]_vars
    => Marked'
<1> SUFFICES ASSUME TypeOK, Marked, [Next]_vars
             PROVE  Marked'
  OBVIOUS
<1> USE RunLeaseAssumption DEF TypeOK, Leases, Taking, Stopping, Ended,
    NoLease, Marked
<1>1. CASE UNCHANGED vars
  BY <1>1 DEF vars, task
<1>2. ASSUME NEW r \in Runs, Begin(r) PROVE Marked'
  BY <1>2 DEF Begin, Starts, Goto, Lease
<1>3. ASSUME NEW r \in Runs, BeginForced(r) PROVE Marked'
  BY <1>3 DEF BeginForced, Starts, Goto, Lease
<1>4. ASSUME NEW r \in Runs, ReadLease(r) PROVE Marked'
  BY <1>4 DEF ReadLease, Goto
<1>5. ASSUME NEW r \in Runs, ReadFails(r) PROVE Marked'
  BY <1>5 DEF ReadFails, Goto, Leaves, Forgets
<1>6. ASSUME NEW r \in Runs, TakeOver(r) PROVE Marked'
  BY <1>6 DEF TakeOver, Goto, task
<1>7. ASSUME NEW r \in Runs, Refused(r) PROVE Marked'
  BY <1>7 DEF Refused, Goto, Leaves, Forgets
<1>8. ASSUME NEW r \in Runs, Taken(r) PROVE Marked'
  BY <1>8 DEF Taken, Goto
<1>9. ASSUME NEW r \in Runs, Contended(r) PROVE Marked'
  BY <1>9 DEF Contended, Goto, MoreTries
<1>10. ASSUME NEW r \in Runs, TakeFails(r) PROVE Marked'
  BY <1>10 DEF TakeFails, Goto, Leaves, Forgets
<1>11. ASSUME NEW r \in Runs, RereadHeld(r) PROVE Marked'
  BY <1>11 DEF RereadHeld, Goto, Leaves, Forgets
<1>12. ASSUME NEW r \in Runs, RereadFree(r) PROVE Marked'
  BY <1>12 DEF RereadFree, Goto, Leaves, Forgets
<1>13. ASSUME NEW r \in Runs, AbandonTake(r) PROVE Marked'
  BY <1>13 DEF AbandonTake, Goto, Leaves, Forgets
<1>14. ASSUME NEW r \in Runs, RenewCalls(r) PROVE Marked'
  BY <1>14 DEF RenewCalls, Lease
<1>15. ASSUME NEW r \in Runs, Renewed(r) PROVE Marked'
  BY <1>15 DEF Renewed, Settles, Loops
<1>16. ASSUME NEW r \in Runs, RenewRefused(r) PROVE Marked'
  BY <1>16 DEF RenewRefused, Settles, Loses
<1>17. ASSUME NEW r \in Runs, RenewFails(r) PROVE Marked'
  BY <1>17 DEF RenewFails, Settles, Loops
<1>18. ASSUME NEW r \in Runs, RenewExpires(r) PROVE Marked'
  BY <1>18 DEF RenewExpires, Settles, Loses
<1>19. ASSUME NEW r \in Runs, EndRun(r) PROVE Marked'
  BY <1>19 DEF EndRun, Goto, StopsRenewal
<1>20. ASSUME NEW r \in Runs, EndUnleased(r) PROVE Marked'
  BY <1>20 DEF EndUnleased, Goto, task
<1>21. ASSUME NEW r \in Runs, AbortRun(r) PROVE Marked'
  BY <1>21 DEF AbortRun, Goto, StopsRenewal
<1>22. ASSUME NEW r \in Runs, AbortRelease(r) PROVE Marked'
  BY <1>22 DEF AbortRelease, Goto, Forgets
<1>23. ASSUME NEW r \in Runs, ReadOwn(r) PROVE Marked'
  BY <1>23 DEF ReadOwn, Goto, Lease
<1>24. ASSUME NEW r \in Runs, ReadOther(r) PROVE Marked'
  BY <1>24 DEF ReadOther, Goto, Leaves, Forgets
<1>25. ASSUME NEW r \in Runs, Release(r) PROVE Marked'
  BY <1>25 DEF Release, Goto, Leaves, Forgets
<1>26. ASSUME NEW r \in Runs, ReleaseFails(r) PROVE Marked'
  BY <1>26 DEF ReleaseFails, Goto, Leaves, Forgets
<1>27. ASSUME NEW w \in late, LateLands(w) PROVE Marked'
  BY <1>27 DEF LateLands, task
<1>28. ASSUME NEW p \in Procs, Dies(p) PROVE Marked'
  BY <1>28 DEF Dies
<1>29. CASE Tick
  BY <1>29 DEF Tick, task
<1> QED
  BY <1>1, <1>2, <1>3, <1>4, <1>5, <1>6, <1>7, <1>8, <1>9, <1>10, <1>11,
     <1>12, <1>13, <1>14, <1>15, <1>16, <1>17, <1>18, <1>19, <1>20, <1>21,
     <1>22, <1>23, <1>24, <1>25, <1>26, <1>27, <1>28, <1>29
  DEF Next, Take, Renew

(* Locals are set and forgotten together with pc and the renewal. *)
LEMMA StepLocated ==
  TypeOK /\ Located /\ [Next]_vars
    => Located'
<1> SUFFICES ASSUME TypeOK, Located, [Next]_vars
             PROVE  Located'
  OBVIOUS
<1> USE RunLeaseAssumption DEF TypeOK, Leases, Taking, Stopping, Ended,
    NoLease, Located
<1>1. CASE UNCHANGED vars
  BY <1>1 DEF vars, task
<1>2. ASSUME NEW r \in Runs, Begin(r) PROVE Located'
  BY <1>2 DEF Begin, Starts, Goto, Lease
<1>3. ASSUME NEW r \in Runs, BeginForced(r) PROVE Located'
  BY <1>3 DEF BeginForced, Starts, Goto, Lease
<1>4. ASSUME NEW r \in Runs, ReadLease(r) PROVE Located'
  BY <1>4 DEF ReadLease, Goto
<1>5. ASSUME NEW r \in Runs, ReadFails(r) PROVE Located'
  BY <1>5 DEF ReadFails, Goto, Leaves, Forgets
<1>6. ASSUME NEW r \in Runs, TakeOver(r) PROVE Located'
  BY <1>6 DEF TakeOver, Goto, task
<1>7. ASSUME NEW r \in Runs, Refused(r) PROVE Located'
  BY <1>7 DEF Refused, Goto, Leaves, Forgets
<1>8. ASSUME NEW r \in Runs, Taken(r) PROVE Located'
  BY <1>8 DEF Taken, Goto
<1>9. ASSUME NEW r \in Runs, Contended(r) PROVE Located'
  BY <1>9 DEF Contended, Goto, MoreTries
<1>10. ASSUME NEW r \in Runs, TakeFails(r) PROVE Located'
  BY <1>10 DEF TakeFails, Goto, Leaves, Forgets
<1>11. ASSUME NEW r \in Runs, RereadHeld(r) PROVE Located'
  BY <1>11 DEF RereadHeld, Goto, Leaves, Forgets
<1>12. ASSUME NEW r \in Runs, RereadFree(r) PROVE Located'
  BY <1>12 DEF RereadFree, Goto, Leaves, Forgets
<1>13. ASSUME NEW r \in Runs, AbandonTake(r) PROVE Located'
  BY <1>13 DEF AbandonTake, Goto, Leaves, Forgets
<1>14. ASSUME NEW r \in Runs, RenewCalls(r) PROVE Located'
  BY <1>14 DEF RenewCalls, Lease
<1>15. ASSUME NEW r \in Runs, Renewed(r) PROVE Located'
  BY <1>15 DEF Renewed, Settles, Loops
<1>16. ASSUME NEW r \in Runs, RenewRefused(r) PROVE Located'
  BY <1>16 DEF RenewRefused, Settles, Loses
<1>17. ASSUME NEW r \in Runs, RenewFails(r) PROVE Located'
  BY <1>17 DEF RenewFails, Settles, Loops
<1>18. ASSUME NEW r \in Runs, RenewExpires(r) PROVE Located'
  BY <1>18 DEF RenewExpires, Settles, Loses
<1>19. ASSUME NEW r \in Runs, EndRun(r) PROVE Located'
  BY <1>19 DEF EndRun, Goto, StopsRenewal
<1>20. ASSUME NEW r \in Runs, EndUnleased(r) PROVE Located'
  BY <1>20 DEF EndUnleased, Goto, task
<1>21. ASSUME NEW r \in Runs, AbortRun(r) PROVE Located'
  BY <1>21 DEF AbortRun, Goto, StopsRenewal
<1>22. ASSUME NEW r \in Runs, AbortRelease(r) PROVE Located'
  BY <1>22 DEF AbortRelease, Goto, Forgets
<1>23. ASSUME NEW r \in Runs, ReadOwn(r) PROVE Located'
  BY <1>23 DEF ReadOwn, Goto, Lease
<1>24. ASSUME NEW r \in Runs, ReadOther(r) PROVE Located'
  BY <1>24 DEF ReadOther, Goto, Leaves, Forgets
<1>25. ASSUME NEW r \in Runs, Release(r) PROVE Located'
  BY <1>25 DEF Release, Goto, Leaves, Forgets
<1>26. ASSUME NEW r \in Runs, ReleaseFails(r) PROVE Located'
  BY <1>26 DEF ReleaseFails, Goto, Leaves, Forgets
<1>27. ASSUME NEW w \in late, LateLands(w) PROVE Located'
  BY <1>27 DEF LateLands, task
<1>28. ASSUME NEW p \in Procs, Dies(p) PROVE Located'
  BY <1>28 DEF Dies
<1>29. CASE Tick
  BY <1>29 DEF Tick, task
<1> QED
  BY <1>1, <1>2, <1>3, <1>4, <1>5, <1>6, <1>7, <1>8, <1>9, <1>10, <1>11,
     <1>12, <1>13, <1>14, <1>15, <1>16, <1>17, <1>18, <1>19, <1>20, <1>21,
     <1>22, <1>23, <1>24, <1>25, <1>26, <1>27, <1>28, <1>29
  DEF Next, Take, Renew

(* Only the write of a run brings its lease into the store. *)
LEMMA StepUnseen ==
  TypeOK /\ Located /\ Unseen /\ [Next]_vars
    => Unseen'
<1> SUFFICES ASSUME TypeOK, Located, Unseen, [Next]_vars
             PROVE  Unseen'
  OBVIOUS
<1> USE RunLeaseAssumption DEF TypeOK, Leases, Taking, Stopping, Ended,
    NoLease, Located, Unseen, Fresh
<1>1. CASE UNCHANGED vars
  BY <1>1 DEF vars, task
<1>2. ASSUME NEW r \in Runs, Begin(r) PROVE Unseen'
  BY <1>2 DEF Begin, Starts, Goto, Lease
<1>3. ASSUME NEW r \in Runs, BeginForced(r) PROVE Unseen'
  BY <1>3 DEF BeginForced, Starts, Goto, Lease
<1>4. ASSUME NEW r \in Runs, ReadLease(r) PROVE Unseen'
  BY <1>4 DEF ReadLease, Goto
<1>5. ASSUME NEW r \in Runs, ReadFails(r) PROVE Unseen'
  BY <1>5 DEF ReadFails, Goto, Leaves, Forgets
<1>6. ASSUME NEW r \in Runs, TakeOver(r) PROVE Unseen'
  BY <1>6 DEF TakeOver, Goto, task
<1>7. ASSUME NEW r \in Runs, Refused(r) PROVE Unseen'
  BY <1>7 DEF Refused, Goto, Leaves, Forgets
<1>8. ASSUME NEW r \in Runs, Taken(r) PROVE Unseen'
  BY <1>8 DEF Taken, Goto
<1>9. ASSUME NEW r \in Runs, Contended(r) PROVE Unseen'
  BY <1>9 DEF Contended, Goto, MoreTries
<1>10. ASSUME NEW r \in Runs, TakeFails(r) PROVE Unseen'
  <2>1. \A w \in late' : w \in late \/ (Waits(r) /\ w = Call(r))
    BY <1>10, LeftCall DEF TakeFails
  <2>2. \A q \in Runs : Fresh(q)' => Fresh(q) /\ (Waits(r) => q # r)
    BY <1>10 DEF TakeFails, Goto, Leaves, Forgets, Waits
  <2>3. ASSUME NEW q \in Runs, Fresh(q), Waits(r), q # r
        PROVE  Call(r).old.run # q /\ Call(r).new.run # q
    BY <2>3 DEF Call, Waits
  <2>4. \A q \in Runs : Fresh(q)' =>
          lease'.run # q /\ \A x \in Runs : expect'[x].run # q
    BY <1>10, <2>2 DEF TakeFails, Goto, Leaves, Forgets
  <2>5. ASSUME NEW q \in Runs, Fresh(q)', NEW w \in late'
        PROVE  w.old.run # q /\ w.new.run # q
    BY <2>1, <2>2, <2>3, <2>5
  <2> QED
    BY <2>4, <2>5
<1>11. ASSUME NEW r \in Runs, RereadHeld(r) PROVE Unseen'
  BY <1>11 DEF RereadHeld, Goto, Leaves, Forgets
<1>12. ASSUME NEW r \in Runs, RereadFree(r) PROVE Unseen'
  BY <1>12 DEF RereadFree, Goto, Leaves, Forgets
<1>13. ASSUME NEW r \in Runs, AbandonTake(r) PROVE Unseen'
  <2>1. \A w \in late' : w \in late \/ (Waits(r) /\ w = Call(r))
    BY <1>13, LeftCall DEF AbandonTake
  <2>2. \A q \in Runs : Fresh(q)' => Fresh(q) /\ (Waits(r) => q # r)
    BY <1>13 DEF AbandonTake, Goto, Leaves, Forgets, Waits
  <2>3. ASSUME NEW q \in Runs, Fresh(q), Waits(r), q # r
        PROVE  Call(r).old.run # q /\ Call(r).new.run # q
    BY <2>3 DEF Call, Waits
  <2>4. \A q \in Runs : Fresh(q)' =>
          lease'.run # q /\ \A x \in Runs : expect'[x].run # q
    BY <1>13, <2>2 DEF AbandonTake, Goto, Leaves, Forgets
  <2>5. ASSUME NEW q \in Runs, Fresh(q)', NEW w \in late'
        PROVE  w.old.run # q /\ w.new.run # q
    BY <2>1, <2>2, <2>3, <2>5
  <2> QED
    BY <2>4, <2>5
<1>14. ASSUME NEW r \in Runs, RenewCalls(r) PROVE Unseen'
  BY <1>14 DEF RenewCalls, Lease
<1>15. ASSUME NEW r \in Runs, Renewed(r) PROVE Unseen'
  BY <1>15 DEF Renewed, Settles, Loops
<1>16. ASSUME NEW r \in Runs, RenewRefused(r) PROVE Unseen'
  BY <1>16 DEF RenewRefused, Settles, Loses
<1>17. ASSUME NEW r \in Runs, RenewFails(r) PROVE Unseen'
  <2>1. \A w \in late' : w \in late \/ (Waits(r) /\ w = Call(r))
    BY <1>17, LeftCall DEF RenewFails
  <2>2. \A q \in Runs : Fresh(q)' => Fresh(q) /\ (Waits(r) => q # r)
    BY <1>17 DEF RenewFails, Settles, Loops, Waits
  <2>3. ASSUME NEW q \in Runs, Fresh(q), Waits(r), q # r
        PROVE  Call(r).old.run # q /\ Call(r).new.run # q
    BY <2>3 DEF Call, Waits
  <2>4. \A q \in Runs : Fresh(q)' =>
          lease'.run # q /\ \A x \in Runs : expect'[x].run # q
    BY <1>17, <2>2 DEF RenewFails, Settles, Loops
  <2>5. ASSUME NEW q \in Runs, Fresh(q)', NEW w \in late'
        PROVE  w.old.run # q /\ w.new.run # q
    BY <2>1, <2>2, <2>3, <2>5
  <2> QED
    BY <2>4, <2>5
<1>18. ASSUME NEW r \in Runs, RenewExpires(r) PROVE Unseen'
  <2>1. \A w \in late' : w \in late \/ (Waits(r) /\ w = Call(r))
    BY <1>18, LeftCall DEF RenewExpires
  <2>2. \A q \in Runs : Fresh(q)' => Fresh(q) /\ (Waits(r) => q # r)
    BY <1>18 DEF RenewExpires, Settles, Loses, Waits
  <2>3. ASSUME NEW q \in Runs, Fresh(q), Waits(r), q # r
        PROVE  Call(r).old.run # q /\ Call(r).new.run # q
    BY <2>3 DEF Call, Waits
  <2>4. \A q \in Runs : Fresh(q)' =>
          lease'.run # q /\ \A x \in Runs : expect'[x].run # q
    BY <1>18, <2>2 DEF RenewExpires, Settles, Loses
  <2>5. ASSUME NEW q \in Runs, Fresh(q)', NEW w \in late'
        PROVE  w.old.run # q /\ w.new.run # q
    BY <2>1, <2>2, <2>3, <2>5
  <2> QED
    BY <2>4, <2>5
<1>19. ASSUME NEW r \in Runs, EndRun(r) PROVE Unseen'
  BY <1>19 DEF EndRun, Goto, StopsRenewal
<1>20. ASSUME NEW r \in Runs, EndUnleased(r) PROVE Unseen'
  BY <1>20 DEF EndUnleased, Goto, task
<1>21. ASSUME NEW r \in Runs, AbortRun(r) PROVE Unseen'
  BY <1>21 DEF AbortRun, Goto, StopsRenewal
<1>22. ASSUME NEW r \in Runs, AbortRelease(r) PROVE Unseen'
  <2>1. \A w \in late' : w \in late \/ (Waits(r) /\ w = Call(r))
    BY <1>22, LeftCall DEF AbortRelease
  <2>2. \A q \in Runs : Fresh(q)' => Fresh(q) /\ (Waits(r) => q # r)
    BY <1>22 DEF AbortRelease, Goto, Forgets, Waits
  <2>3. ASSUME NEW q \in Runs, Fresh(q), Waits(r), q # r
        PROVE  Call(r).old.run # q /\ Call(r).new.run # q
    BY <2>3 DEF Call, Waits
  <2>4. \A q \in Runs : Fresh(q)' =>
          lease'.run # q /\ \A x \in Runs : expect'[x].run # q
    BY <1>22, <2>2 DEF AbortRelease, Goto, Forgets
  <2>5. ASSUME NEW q \in Runs, Fresh(q)', NEW w \in late'
        PROVE  w.old.run # q /\ w.new.run # q
    BY <2>1, <2>2, <2>3, <2>5
  <2> QED
    BY <2>4, <2>5
<1>23. ASSUME NEW r \in Runs, ReadOwn(r) PROVE Unseen'
  BY <1>23 DEF ReadOwn, Goto, Lease
<1>24. ASSUME NEW r \in Runs, ReadOther(r) PROVE Unseen'
  BY <1>24 DEF ReadOther, Goto, Leaves, Forgets
<1>25. ASSUME NEW r \in Runs, Release(r) PROVE Unseen'
  BY <1>25 DEF Release, Goto, Leaves, Forgets
<1>26. ASSUME NEW r \in Runs, ReleaseFails(r) PROVE Unseen'
  <2>1. \A w \in late' : w \in late \/ (Waits(r) /\ w = Call(r))
    BY <1>26, LeftCall DEF ReleaseFails
  <2>2. \A q \in Runs : Fresh(q)' => Fresh(q) /\ (Waits(r) => q # r)
    BY <1>26 DEF ReleaseFails, Goto, Leaves, Forgets, Waits
  <2>3. ASSUME NEW q \in Runs, Fresh(q), Waits(r), q # r
        PROVE  Call(r).old.run # q /\ Call(r).new.run # q
    BY <2>3 DEF Call, Waits
  <2>4. \A q \in Runs : Fresh(q)' =>
          lease'.run # q /\ \A x \in Runs : expect'[x].run # q
    BY <1>26, <2>2 DEF ReleaseFails, Goto, Leaves, Forgets
  <2>5. ASSUME NEW q \in Runs, Fresh(q)', NEW w \in late'
        PROVE  w.old.run # q /\ w.new.run # q
    BY <2>1, <2>2, <2>3, <2>5
  <2> QED
    BY <2>4, <2>5
<1>27. ASSUME NEW w \in late, LateLands(w) PROVE Unseen'
  BY <1>27 DEF LateLands, task, Writes
<1>28. ASSUME NEW p \in Procs, Dies(p) PROVE Unseen'
  <2>1. \A w \in late' : w \in late \/ \E x \in Runs :
                            where[x] = p /\ Waits(x) /\ w = Call(x)
    BY <1>28, AbandonedCalls DEF Dies
  <2>2. \A q \in Runs : Fresh(q)' => Fresh(q) /\ where[q] # p
    BY <1>28 DEF Dies
  <2>3. ASSUME NEW q \in Runs, NEW x \in Runs, Fresh(q), Waits(x), q # x
        PROVE  Call(x).old.run # q /\ Call(x).new.run # q
    BY <2>3 DEF Call, Waits
  <2>4. \A q \in Runs : Fresh(q)' =>
          lease'.run # q /\ \A x \in Runs : expect'[x].run # q
    BY <1>28, <2>2 DEF Dies
  <2>5. ASSUME NEW q \in Runs, Fresh(q)', NEW w \in late'
        PROVE  w.old.run # q /\ w.new.run # q
    BY <2>1, <2>2, <2>3, <2>5
  <2> QED
    BY <2>4, <2>5
<1>29. CASE Tick
  BY <1>29 DEF Tick, task
<1> QED
  BY <1>1, <1>2, <1>3, <1>4, <1>5, <1>6, <1>7, <1>8, <1>9, <1>10, <1>11,
     <1>12, <1>13, <1>14, <1>15, <1>16, <1>17, <1>18, <1>19, <1>20, <1>21,
     <1>22, <1>23, <1>24, <1>25, <1>26, <1>27, <1>28, <1>29
  DEF Next, Take, Renew

(* What a take saw expired or gone stays so until its write. *)
LEMMA StepJudged ==
  TypeOK /\ Marked /\ Located /\ Unseen /\ Judged /\ [Next]_vars
    => Judged'
<1> SUFFICES ASSUME TypeOK, Marked, Located, Unseen, Judged, [Next]_vars
             PROVE  Judged'
  OBVIOUS
<1> USE RunLeaseAssumption DEF TypeOK, Leases, Taking, Stopping, Ended,
    NoLease, Judged, Replaceable, Out
<1>1. CASE UNCHANGED vars
  BY <1>1 DEF vars, task
<1>2. ASSUME NEW r \in Runs, Begin(r) PROVE Judged'
  BY <1>2 DEF Begin, Starts, Goto, Lease
<1>3. ASSUME NEW r \in Runs, BeginForced(r) PROVE Judged'
  BY <1>3 DEF BeginForced, Starts, Goto, Lease
<1>4. ASSUME NEW r \in Runs, ReadLease(r) PROVE Judged'
  BY <1>4 DEF ReadLease, Goto, Blocks, IsLive, Unseen, Fresh
<1>5. ASSUME NEW r \in Runs, ReadFails(r) PROVE Judged'
  BY <1>5 DEF ReadFails, Goto, Leaves, Forgets
<1>6. ASSUME NEW r \in Runs, TakeOver(r) PROVE Judged'
  BY <1>6 DEF TakeOver, Goto, task, HolderGone, Marked, Unseen, Fresh
<1>7. ASSUME NEW r \in Runs, Refused(r) PROVE Judged'
  BY <1>7 DEF Refused, Goto, Leaves, Forgets
<1>8. ASSUME NEW r \in Runs, Taken(r) PROVE Judged'
  BY <1>8 DEF Taken, Goto
<1>9. ASSUME NEW r \in Runs, Contended(r) PROVE Judged'
  BY <1>9 DEF Contended, Goto, MoreTries
<1>10. ASSUME NEW r \in Runs, TakeFails(r) PROVE Judged'
  BY <1>10 DEF TakeFails, Goto, Leaves, Forgets
<1>11. ASSUME NEW r \in Runs, RereadHeld(r) PROVE Judged'
  BY <1>11 DEF RereadHeld, Goto, Leaves, Forgets
<1>12. ASSUME NEW r \in Runs, RereadFree(r) PROVE Judged'
  BY <1>12 DEF RereadFree, Goto, Leaves, Forgets
<1>13. ASSUME NEW r \in Runs, AbandonTake(r) PROVE Judged'
  BY <1>13 DEF AbandonTake, Goto, Leaves, Forgets
<1>14. ASSUME NEW r \in Runs, RenewCalls(r) PROVE Judged'
  BY <1>14 DEF RenewCalls, Lease
<1>15. ASSUME NEW r \in Runs, Renewed(r) PROVE Judged'
  BY <1>15 DEF Renewed, Settles, Loops, Located
<1>16. ASSUME NEW r \in Runs, RenewRefused(r) PROVE Judged'
  BY <1>16 DEF RenewRefused, Settles, Loses, Located
<1>17. ASSUME NEW r \in Runs, RenewFails(r) PROVE Judged'
  BY <1>17 DEF RenewFails, Settles, Loops, Located
<1>18. ASSUME NEW r \in Runs, RenewExpires(r) PROVE Judged'
  BY <1>18 DEF RenewExpires, Settles, Loses, Located
<1>19. ASSUME NEW r \in Runs, EndRun(r) PROVE Judged'
  BY <1>19 DEF EndRun, Goto, StopsRenewal
<1>20. ASSUME NEW r \in Runs, EndUnleased(r) PROVE Judged'
  BY <1>20 DEF EndUnleased, Goto, task
<1>21. ASSUME NEW r \in Runs, AbortRun(r) PROVE Judged'
  BY <1>21 DEF AbortRun, Goto, StopsRenewal
<1>22. ASSUME NEW r \in Runs, AbortRelease(r) PROVE Judged'
  BY <1>22 DEF AbortRelease, Goto, Forgets
<1>23. ASSUME NEW r \in Runs, ReadOwn(r) PROVE Judged'
  BY <1>23 DEF ReadOwn, Goto, Lease
<1>24. ASSUME NEW r \in Runs, ReadOther(r) PROVE Judged'
  BY <1>24 DEF ReadOther, Goto, Leaves, Forgets
<1>25. ASSUME NEW r \in Runs, Release(r) PROVE Judged'
  BY <1>25 DEF Release, Goto, Leaves, Forgets
<1>26. ASSUME NEW r \in Runs, ReleaseFails(r) PROVE Judged'
  BY <1>26 DEF ReleaseFails, Goto, Leaves, Forgets
<1>27. ASSUME NEW w \in late, LateLands(w) PROVE Judged'
  BY <1>27 DEF LateLands, task
<1>28. ASSUME NEW p \in Procs, Dies(p) PROVE Judged'
  BY <1>28 DEF Dies, Located
<1>29. CASE Tick
  BY <1>29 DEF Tick, task
<1> QED
  BY <1>1, <1>2, <1>3, <1>4, <1>5, <1>6, <1>7, <1>8, <1>9, <1>10, <1>11,
     <1>12, <1>13, <1>14, <1>15, <1>16, <1>17, <1>18, <1>19, <1>20, <1>21,
     <1>22, <1>23, <1>24, <1>25, <1>26, <1>27, <1>28, <1>29
  DEF Next, Take, Renew

(* What is harmless stays so: time passes and runs do not come back. *)
LEMMA HarmlessKept ==
  ASSUME TypeOK, now' \in Nat, now <= now', NEW w \in late, Harmless(w),
         \A q \in Runs : (forced[q] => forced'[q]) /\ (Out(q) => Out(q)')
  PROVE  Harmless(w)'
<1>1. w.old.exp \in Int /\ now \in Int /\ now' \in Int
  BY DEF TypeOK, Writes, Leases
<1>2. Replaceable(w.old) => Replaceable(w.old)'
  BY <1>1 DEF Replaceable
<1> QED
  BY <1>2 DEF Harmless

(* Every write that is left behind was harmless, and stays so. *)
LEMMA StepStrays ==
  TypeOK /\ Located /\ Judged /\ Strays /\ [Next]_vars
    => Strays'
<1> SUFFICES ASSUME TypeOK, Located, Judged, Strays, [Next]_vars
             PROVE  Strays'
  OBVIOUS
<1> USE RunLeaseAssumption DEF TypeOK, Leases, Taking, Stopping, Ended,
    NoLease, Located, Strays
<1>1. CASE UNCHANGED vars
  BY <1>1 DEF vars, task, Harmless, Replaceable, Out
<1>2. ASSUME NEW r \in Runs, Begin(r) PROVE Strays'
  <2>1. now' = now /\ late' = late
    BY <1>2 DEF Begin, Starts, Goto, Lease
  <2>2. \A q \in Runs : (forced[q] => forced'[q]) /\ (Out(q) => Out(q)')
    BY <1>2 DEF Begin, Starts, Goto, Lease, Out
  <2> QED
    BY <2>1, <2>2, HarmlessKept
<1>3. ASSUME NEW r \in Runs, BeginForced(r) PROVE Strays'
  <2>1. now' = now /\ late' = late
    BY <1>3 DEF BeginForced, Starts, Goto, Lease
  <2>2. \A q \in Runs : (forced[q] => forced'[q]) /\ (Out(q) => Out(q)')
    BY <1>3 DEF BeginForced, Starts, Goto, Lease, Out
  <2> QED
    BY <2>1, <2>2, HarmlessKept
<1>4. ASSUME NEW r \in Runs, ReadLease(r) PROVE Strays'
  <2>1. now' = now /\ late' = late
    BY <1>4 DEF ReadLease, Goto
  <2>2. \A q \in Runs : (forced[q] => forced'[q]) /\ (Out(q) => Out(q)')
    BY <1>4 DEF ReadLease, Goto, Out
  <2> QED
    BY <2>1, <2>2, HarmlessKept
<1>5. ASSUME NEW r \in Runs, ReadFails(r) PROVE Strays'
  <2>1. now' = now /\ late' = late
    BY <1>5 DEF ReadFails, Goto, Leaves, Forgets
  <2>2. \A q \in Runs : (forced[q] => forced'[q]) /\ (Out(q) => Out(q)')
    BY <1>5 DEF ReadFails, Goto, Leaves, Forgets, Out
  <2> QED
    BY <2>1, <2>2, HarmlessKept
<1>6. ASSUME NEW r \in Runs, TakeOver(r) PROVE Strays'
  <2>1. now' = now /\ late' = late
    BY <1>6 DEF TakeOver, Goto, task
  <2>2. \A q \in Runs : (forced[q] => forced'[q]) /\ (Out(q) => Out(q)')
    BY <1>6 DEF TakeOver, Goto, task, Out
  <2> QED
    BY <2>1, <2>2, HarmlessKept
<1>7. ASSUME NEW r \in Runs, Refused(r) PROVE Strays'
  <2>1. now' = now /\ late' = late
    BY <1>7 DEF Refused, Goto, Leaves, Forgets
  <2>2. \A q \in Runs : (forced[q] => forced'[q]) /\ (Out(q) => Out(q)')
    BY <1>7 DEF Refused, Goto, Leaves, Forgets, Out
  <2> QED
    BY <2>1, <2>2, HarmlessKept
<1>8. ASSUME NEW r \in Runs, Taken(r) PROVE Strays'
  <2>1. now' = now /\ late' = late
    BY <1>8 DEF Taken, Goto
  <2>2. \A q \in Runs : (forced[q] => forced'[q]) /\ (Out(q) => Out(q)')
    BY <1>8 DEF Taken, Goto, Out
  <2> QED
    BY <2>1, <2>2, HarmlessKept
<1>9. ASSUME NEW r \in Runs, Contended(r) PROVE Strays'
  <2>1. now' = now /\ late' = late
    BY <1>9 DEF Contended, Goto, MoreTries
  <2>2. \A q \in Runs : (forced[q] => forced'[q]) /\ (Out(q) => Out(q)')
    BY <1>9 DEF Contended, Goto, MoreTries, Out
  <2> QED
    BY <2>1, <2>2, HarmlessKept
<1>10. ASSUME NEW r \in Runs, TakeFails(r) PROVE Strays'
  <2>1. \A w \in late' : w \in late \/ (Waits(r) /\ w = Call(r))
    BY <1>10, LeftCall DEF TakeFails
  <2>2. /\ now' = now
        /\ \A q \in Runs : (forced[q] => forced'[q]) /\ (Out(q) => Out(q)')
    BY <1>10 DEF TakeFails, Goto, Leaves, Forgets, Out
  <2>3. ASSUME NEW w, w = Call(r), Waits(r) PROVE Harmless(w)'
    BY <1>10, <2>3
    DEF TakeFails, Goto, Leaves, Forgets, Waits, Call, Judged, Harmless,
        Replaceable,
        Out
  <2> QED
    BY <2>1, <2>2, <2>3, HarmlessKept
<1>11. ASSUME NEW r \in Runs, RereadHeld(r) PROVE Strays'
  <2>1. now' = now /\ late' = late
    BY <1>11 DEF RereadHeld, Goto, Leaves, Forgets
  <2>2. \A q \in Runs : (forced[q] => forced'[q]) /\ (Out(q) => Out(q)')
    BY <1>11 DEF RereadHeld, Goto, Leaves, Forgets, Out
  <2> QED
    BY <2>1, <2>2, HarmlessKept
<1>12. ASSUME NEW r \in Runs, RereadFree(r) PROVE Strays'
  <2>1. now' = now /\ late' = late
    BY <1>12 DEF RereadFree, Goto, Leaves, Forgets
  <2>2. \A q \in Runs : (forced[q] => forced'[q]) /\ (Out(q) => Out(q)')
    BY <1>12 DEF RereadFree, Goto, Leaves, Forgets, Out
  <2> QED
    BY <2>1, <2>2, HarmlessKept
<1>13. ASSUME NEW r \in Runs, AbandonTake(r) PROVE Strays'
  <2>1. \A w \in late' : w \in late \/ (Waits(r) /\ w = Call(r))
    BY <1>13, LeftCall DEF AbandonTake
  <2>2. /\ now' = now
        /\ \A q \in Runs : (forced[q] => forced'[q]) /\ (Out(q) => Out(q)')
    BY <1>13 DEF AbandonTake, Goto, Leaves, Forgets, Out
  <2>3. ASSUME NEW w, w = Call(r), Waits(r) PROVE Harmless(w)'
    BY <1>13, <2>3
    DEF AbandonTake, Goto, Leaves, Forgets, Waits, Call, Judged, Harmless,
        Replaceable,
        Out
  <2> QED
    BY <2>1, <2>2, <2>3, HarmlessKept
<1>14. ASSUME NEW r \in Runs, RenewCalls(r) PROVE Strays'
  <2>1. now' = now /\ late' = late
    BY <1>14 DEF RenewCalls, Lease
  <2>2. \A q \in Runs : (forced[q] => forced'[q]) /\ (Out(q) => Out(q)')
    BY <1>14 DEF RenewCalls, Lease, Out
  <2> QED
    BY <2>1, <2>2, HarmlessKept
<1>15. ASSUME NEW r \in Runs, Renewed(r) PROVE Strays'
  <2>1. now' = now /\ late' = late
    BY <1>15 DEF Renewed, Settles, Loops
  <2>2. \A q \in Runs : (forced[q] => forced'[q]) /\ (Out(q) => Out(q)')
    BY <1>15 DEF Renewed, Settles, Loops, Out
  <2> QED
    BY <2>1, <2>2, HarmlessKept
<1>16. ASSUME NEW r \in Runs, RenewRefused(r) PROVE Strays'
  <2>1. now' = now /\ late' = late
    BY <1>16 DEF RenewRefused, Settles, Loses
  <2>2. \A q \in Runs : (forced[q] => forced'[q]) /\ (Out(q) => Out(q)')
    BY <1>16 DEF RenewRefused, Settles, Loses, Out
  <2> QED
    BY <2>1, <2>2, HarmlessKept
<1>17. ASSUME NEW r \in Runs, RenewFails(r) PROVE Strays'
  <2>1. \A w \in late' : w \in late \/ (Waits(r) /\ w = Call(r))
    BY <1>17, LeftCall DEF RenewFails
  <2>2. /\ now' = now
        /\ \A q \in Runs : (forced[q] => forced'[q]) /\ (Out(q) => Out(q)')
    BY <1>17 DEF RenewFails, Settles, Loops, Out
  <2>3. ASSUME NEW w, w = Call(r), Waits(r) PROVE Harmless(w)'
    <3>1. ~w.put /\ w.old.run = w.new.run /\ w.old.exp <= w.new.exp
      <4>1. renew[r] = "write" /\ pc[r] # "write"
        BY <1>17 DEF RenewFails
      <4>2. w.old = expect[r] /\ w.new = next[r]
        BY <2>3 DEF Call
      <4>3. ~w.put
        BY <2>3, <4>1, Zenon DEF Call
      <4>4. /\ expect[r].run = r /\ next[r].run = r
            /\ expect[r].exp <= next[r].exp
        BY <4>1
      <4> QED
        BY <4>2, <4>3, <4>4
    <3> QED
      BY <3>1 DEF Harmless
  <2> QED
    BY <2>1, <2>2, <2>3, HarmlessKept
<1>18. ASSUME NEW r \in Runs, RenewExpires(r) PROVE Strays'
  <2>1. \A w \in late' : w \in late \/ (Waits(r) /\ w = Call(r))
    BY <1>18, LeftCall DEF RenewExpires
  <2>2. /\ now' = now
        /\ \A q \in Runs : (forced[q] => forced'[q]) /\ (Out(q) => Out(q)')
    BY <1>18 DEF RenewExpires, Settles, Loses, Out
  <2>3. ASSUME NEW w, w = Call(r), Waits(r) PROVE Harmless(w)'
    <3>1. ~w.put /\ w.old.run = w.new.run /\ w.old.exp <= w.new.exp
      <4>1. renew[r] = "write" /\ pc[r] # "write"
        BY <1>18 DEF RenewExpires
      <4>2. w.old = expect[r] /\ w.new = next[r]
        BY <2>3 DEF Call
      <4>3. ~w.put
        BY <2>3, <4>1, Zenon DEF Call
      <4>4. /\ expect[r].run = r /\ next[r].run = r
            /\ expect[r].exp <= next[r].exp
        BY <4>1
      <4> QED
        BY <4>2, <4>3, <4>4
    <3> QED
      BY <3>1 DEF Harmless
  <2> QED
    BY <2>1, <2>2, <2>3, HarmlessKept
<1>19. ASSUME NEW r \in Runs, EndRun(r) PROVE Strays'
  <2>1. now' = now /\ late' = late
    BY <1>19 DEF EndRun, Goto, StopsRenewal
  <2>2. \A q \in Runs : (forced[q] => forced'[q]) /\ (Out(q) => Out(q)')
    BY <1>19 DEF EndRun, Goto, StopsRenewal, Out
  <2> QED
    BY <2>1, <2>2, HarmlessKept
<1>20. ASSUME NEW r \in Runs, EndUnleased(r) PROVE Strays'
  <2>1. now' = now /\ late' = late
    BY <1>20 DEF EndUnleased, Goto, task
  <2>2. \A q \in Runs : (forced[q] => forced'[q]) /\ (Out(q) => Out(q)')
    BY <1>20 DEF EndUnleased, Goto, task, Out
  <2> QED
    BY <2>1, <2>2, HarmlessKept
<1>21. ASSUME NEW r \in Runs, AbortRun(r) PROVE Strays'
  <2>1. now' = now /\ late' = late
    BY <1>21 DEF AbortRun, Goto, StopsRenewal
  <2>2. \A q \in Runs : (forced[q] => forced'[q]) /\ (Out(q) => Out(q)')
    BY <1>21 DEF AbortRun, Goto, StopsRenewal, Out
  <2> QED
    BY <2>1, <2>2, HarmlessKept
<1>22. ASSUME NEW r \in Runs, AbortRelease(r) PROVE Strays'
  <2>1. \A w \in late' : w \in late \/ (Waits(r) /\ w = Call(r))
    BY <1>22, LeftCall DEF AbortRelease
  <2>2. /\ now' = now
        /\ \A q \in Runs : (forced[q] => forced'[q]) /\ (Out(q) => Out(q)')
    BY <1>22 DEF AbortRelease, Goto, Forgets, Out
  <2>3. ASSUME NEW w, w = Call(r), Waits(r) PROVE Harmless(w)'
    BY <1>22, <2>3
    DEF AbortRelease, Goto, Forgets, Waits, Call, Judged, Harmless,
        Replaceable,
        Out
  <2> QED
    BY <2>1, <2>2, <2>3, HarmlessKept
<1>23. ASSUME NEW r \in Runs, ReadOwn(r) PROVE Strays'
  <2>1. now' = now /\ late' = late
    BY <1>23 DEF ReadOwn, Goto, Lease
  <2>2. \A q \in Runs : (forced[q] => forced'[q]) /\ (Out(q) => Out(q)')
    BY <1>23 DEF ReadOwn, Goto, Lease, Out
  <2> QED
    BY <2>1, <2>2, HarmlessKept
<1>24. ASSUME NEW r \in Runs, ReadOther(r) PROVE Strays'
  <2>1. now' = now /\ late' = late
    BY <1>24 DEF ReadOther, Goto, Leaves, Forgets
  <2>2. \A q \in Runs : (forced[q] => forced'[q]) /\ (Out(q) => Out(q)')
    BY <1>24 DEF ReadOther, Goto, Leaves, Forgets, Out
  <2> QED
    BY <2>1, <2>2, HarmlessKept
<1>25. ASSUME NEW r \in Runs, Release(r) PROVE Strays'
  <2>1. now' = now /\ late' = late
    BY <1>25 DEF Release, Goto, Leaves, Forgets
  <2>2. \A q \in Runs : (forced[q] => forced'[q]) /\ (Out(q) => Out(q)')
    BY <1>25 DEF Release, Goto, Leaves, Forgets, Out
  <2> QED
    BY <2>1, <2>2, HarmlessKept
<1>26. ASSUME NEW r \in Runs, ReleaseFails(r) PROVE Strays'
  <2>1. \A w \in late' : w \in late \/ (Waits(r) /\ w = Call(r))
    BY <1>26, LeftCall DEF ReleaseFails
  <2>2. /\ now' = now
        /\ \A q \in Runs : (forced[q] => forced'[q]) /\ (Out(q) => Out(q)')
    BY <1>26 DEF ReleaseFails, Goto, Leaves, Forgets, Out
  <2>3. ASSUME NEW w, w = Call(r), Waits(r) PROVE Harmless(w)'
    BY <1>26, <2>3
    DEF ReleaseFails, Goto, Leaves, Forgets, Waits, Call, Judged, Harmless,
        Replaceable,
        Out
  <2> QED
    BY <2>1, <2>2, <2>3, HarmlessKept
<1>27. ASSUME NEW w \in late, LateLands(w) PROVE Strays'
  <2>1. now' = now /\ late' \subseteq late
    BY <1>27 DEF LateLands, task
  <2>2. \A q \in Runs : (forced[q] => forced'[q]) /\ (Out(q) => Out(q)')
    BY <1>27 DEF LateLands, task, Out
  <2> QED
    BY <2>1, <2>2, HarmlessKept
<1>28. ASSUME NEW p \in Procs, Dies(p) PROVE Strays'
  <2>1. \A w \in late' : w \in late \/ \E x \in Runs :
                            where[x] = p /\ Waits(x) /\ w = Call(x)
    BY <1>28, AbandonedCalls DEF Dies
  <2>2. /\ now' = now
        /\ \A q \in Runs : (forced[q] => forced'[q]) /\ (Out(q) => Out(q)')
    BY <1>28 DEF Dies, Out
  <2>3. ASSUME NEW w, NEW x \in Runs, where[x] = p, w = Call(x), Waits(x)
        PROVE  Harmless(w)'
    <3>1. Out(x)' /\ forced' = forced /\ now' = now
      BY <1>28, <2>3 DEF Dies, Out
    <3>2. \/ w.old.run = w.new.run /\ w.new.run = x /\ ~w.put
          \/ w.old.run = x /\ w.new.run \notin Runs /\ ~w.put
          \/ w.new.run = x /\ w.put /\ forced[x]
          \/ w.new.run = x /\ ~w.put /\ Replaceable(w.old)
      <4>1. /\ w.old = expect[x] /\ w.new = next[x]
            /\ w.put = (forced[x] /\ pc[x] = "write")
        BY <2>3 DEF Call
      <4>2. CASE pc[x] = "write"
        BY <4>1, <4>2 DEF Judged
      <4>3. CASE pc[x] = "remove"
        <5>1. w.old.run = x /\ w.new = NoLease /\ ~w.put
          BY <4>1, <4>3
        <5>2. w.new.run \notin Runs
          BY <5>1
        <5> QED
          BY <5>1, <5>2
      <4>4. CASE pc[x] = "outdate"
        BY <4>1, <4>4
      <4>5. CASE renew[x] = "write"
        BY <4>1, <4>5
      <4> QED
        BY <2>3, <4>2, <4>3, <4>4, <4>5 DEF Waits
    <3>3. Replaceable(w.old) => Replaceable(w.old)'
      BY <2>2 DEF Replaceable
    <3> QED
      BY <3>1, <3>2, <3>3 DEF Harmless, Replaceable
  <2>4. ASSUME NEW w \in late PROVE Harmless(w)'
    BY <2>2, <2>4, HarmlessKept
  <2> QED
    BY <2>1, <2>3, <2>4
<1>29. CASE Tick
  <2>1. /\ now' = now + 1 /\ now' \in Nat /\ now <= now'
        /\ \A q \in Runs : (forced[q] => forced'[q]) /\ (Out(q) => Out(q)')
    BY <1>29 DEF Tick, task, Out
  <2> QED
    BY <1>29, <2>1, HarmlessKept DEF Tick
<1> QED
  BY <1>1, <1>2, <1>3, <1>4, <1>5, <1>6, <1>7, <1>8, <1>9, <1>10, <1>11,
     <1>12, <1>13, <1>14, <1>15, <1>16, <1>17, <1>18, <1>19, <1>20, <1>21,
     <1>22, <1>23, <1>24, <1>25, <1>26, <1>27, <1>28, <1>29
  DEF Next, Take, Renew

(* No write puts an older lease of a running run in the store. *)
LEMMA StepNewest ==
  TypeOK /\ Located /\ Unseen /\ Strays /\ Newest /\ [Next]_vars
    => Newest'
<1> SUFFICES ASSUME TypeOK, Located, Unseen, Strays, Newest, [Next]_vars
             PROVE  Newest'
  OBVIOUS
<1> USE RunLeaseAssumption DEF TypeOK, Leases, Taking, Stopping, Ended,
    NoLease, Located, Unseen, Fresh, Newest
<1>1. CASE UNCHANGED vars
  BY <1>1 DEF vars, task
<1>2. ASSUME NEW r \in Runs, Begin(r) PROVE Newest'
  BY <1>2 DEF Begin, Starts, Goto, Lease
<1>3. ASSUME NEW r \in Runs, BeginForced(r) PROVE Newest'
  BY <1>3 DEF BeginForced, Starts, Goto, Lease
<1>4. ASSUME NEW r \in Runs, ReadLease(r) PROVE Newest'
  BY <1>4 DEF ReadLease, Goto
<1>5. ASSUME NEW r \in Runs, ReadFails(r) PROVE Newest'
  BY <1>5 DEF ReadFails, Goto, Leaves, Forgets
<1>6. ASSUME NEW r \in Runs, TakeOver(r) PROVE Newest'
  BY <1>6 DEF TakeOver, Goto, task
<1>7. ASSUME NEW r \in Runs, Refused(r) PROVE Newest'
  BY <1>7 DEF Refused, Goto, Leaves, Forgets
<1>8. ASSUME NEW r \in Runs, Taken(r) PROVE Newest'
  BY <1>8 DEF Taken, Goto
<1>9. ASSUME NEW r \in Runs, Contended(r) PROVE Newest'
  BY <1>9 DEF Contended, Goto, MoreTries
<1>10. ASSUME NEW r \in Runs, TakeFails(r) PROVE Newest'
  BY <1>10 DEF TakeFails, Goto, Leaves, Forgets
<1>11. ASSUME NEW r \in Runs, RereadHeld(r) PROVE Newest'
  BY <1>11 DEF RereadHeld, Goto, Leaves, Forgets
<1>12. ASSUME NEW r \in Runs, RereadFree(r) PROVE Newest'
  BY <1>12 DEF RereadFree, Goto, Leaves, Forgets
<1>13. ASSUME NEW r \in Runs, AbandonTake(r) PROVE Newest'
  BY <1>13 DEF AbandonTake, Goto, Leaves, Forgets
<1>14. ASSUME NEW r \in Runs, RenewCalls(r) PROVE Newest'
  BY <1>14 DEF RenewCalls, Lease
<1>15. ASSUME NEW r \in Runs, Renewed(r) PROVE Newest'
  BY <1>15 DEF Renewed, Settles, Loops
<1>16. ASSUME NEW r \in Runs, RenewRefused(r) PROVE Newest'
  BY <1>16 DEF RenewRefused, Settles, Loses
<1>17. ASSUME NEW r \in Runs, RenewFails(r) PROVE Newest'
  BY <1>17 DEF RenewFails, Settles, Loops
<1>18. ASSUME NEW r \in Runs, RenewExpires(r) PROVE Newest'
  BY <1>18 DEF RenewExpires, Settles, Loses
<1>19. ASSUME NEW r \in Runs, EndRun(r) PROVE Newest'
  BY <1>19 DEF EndRun, Goto, StopsRenewal
<1>20. ASSUME NEW r \in Runs, EndUnleased(r) PROVE Newest'
  BY <1>20 DEF EndUnleased, Goto, task
<1>21. ASSUME NEW r \in Runs, AbortRun(r) PROVE Newest'
  BY <1>21 DEF AbortRun, Goto, StopsRenewal
<1>22. ASSUME NEW r \in Runs, AbortRelease(r) PROVE Newest'
  BY <1>22 DEF AbortRelease, Goto, Forgets
<1>23. ASSUME NEW r \in Runs, ReadOwn(r) PROVE Newest'
  BY <1>23 DEF ReadOwn, Goto, Lease
<1>24. ASSUME NEW r \in Runs, ReadOther(r) PROVE Newest'
  BY <1>24 DEF ReadOther, Goto, Leaves, Forgets
<1>25. ASSUME NEW r \in Runs, Release(r) PROVE Newest'
  BY <1>25 DEF Release, Goto, Leaves, Forgets
<1>26. ASSUME NEW r \in Runs, ReleaseFails(r) PROVE Newest'
  BY <1>26 DEF ReleaseFails, Goto, Leaves, Forgets
<1>27. ASSUME NEW w \in late, LateLands(w) PROVE Newest'
  <2> SUFFICES ASSUME NEW q \in Runs, lease'.run = q, pc[q] = "run"
               PROVE  expect[q].exp <= lease'.exp
    BY <1>27 DEF LateLands, task
  <2>1. lease' = w.new /\ (w.put \/ lease = w.old)
    BY <1>27 DEF LateLands
  <2>2. w.old \in Leases /\ w.new \in Leases
    BY DEF Writes
  <2>3. ~w.put /\ w.old.run = q /\ w.old.exp <= w.new.exp
    BY <2>1 DEF Strays, Harmless, Out
  <2>4. expect[q].exp <= w.old.exp
    BY <2>1, <2>3
  <2>5. expect[q].exp \in Int /\ w.old.exp \in Int /\ w.new.exp \in Int
    BY <2>2
  <2> QED
    BY <2>1, <2>3, <2>4, <2>5
<1>28. ASSUME NEW p \in Procs, Dies(p) PROVE Newest'
  BY <1>28 DEF Dies
<1>29. CASE Tick
  BY <1>29 DEF Tick, task
<1> QED
  BY <1>1, <1>2, <1>3, <1>4, <1>5, <1>6, <1>7, <1>8, <1>9, <1>10, <1>11,
     <1>12, <1>13, <1>14, <1>15, <1>16, <1>17, <1>18, <1>19, <1>20, <1>21,
     <1>22, <1>23, <1>24, <1>25, <1>26, <1>27, <1>28, <1>29
  DEF Next, Take, Renew

(* No write replaces the lease of a run that holds the row. *)
LEMMA StepBacked ==
  TypeOK /\ Located /\ Unseen /\ Judged /\ Strays /\ Newest /\ Backed
    /\ [Next]_vars
    => Backed'
<1> SUFFICES ASSUME TypeOK, Located, Unseen, Judged, Strays, Newest, Backed,
    [Next]_vars
             PROVE  Backed'
  OBVIOUS
<1> USE RunLeaseAssumption DEF TypeOK, Leases, Taking, Stopping, Ended,
    NoLease, Located, Newest, Backed, Holds
<1>1. CASE UNCHANGED vars
  BY <1>1 DEF vars, task
<1>2. ASSUME NEW r \in Runs, Begin(r) PROVE Backed'
  BY <1>2 DEF Begin, Starts, Goto, Lease
<1>3. ASSUME NEW r \in Runs, BeginForced(r) PROVE Backed'
  BY <1>3 DEF BeginForced, Starts, Goto, Lease
<1>4. ASSUME NEW r \in Runs, ReadLease(r) PROVE Backed'
  BY <1>4 DEF ReadLease, Goto
<1>5. ASSUME NEW r \in Runs, ReadFails(r) PROVE Backed'
  BY <1>5 DEF ReadFails, Goto, Leaves, Forgets
<1>6. ASSUME NEW r \in Runs, TakeOver(r) PROVE Backed'
  BY <1>6 DEF TakeOver, Goto, task
<1>7. ASSUME NEW r \in Runs, Refused(r) PROVE Backed'
  BY <1>7 DEF Refused, Goto, Leaves, Forgets
<1>8. ASSUME NEW r \in Runs, Taken(r) PROVE Backed'
  <2> SUFFICES ASSUME \A q \in Runs : ~forced[q], NEW q \in Runs, Holds(q)'
               PROVE  lease'.run = q
    BY <1>8 DEF Taken
  <2>1. lease = expect[r] /\ lease' = next[r] /\ next[r].run = r
    BY <1>8 DEF Taken, TakeMatches
  <2>2. Replaceable(lease)
    BY <1>8, <2>1 DEF Taken, Judged
  <2>3. ASSUME q # r PROVE FALSE
    <3>1. Holds(q)
      BY <1>8, <2>3 DEF Taken, Goto
    <3>2. lease.run = q /\ lease.exp > now /\ pc[q] = "run"
      BY <3>1
    <3> QED
      BY <2>2, <3>2 DEF Replaceable, Out
  <2> QED
    BY <2>1, <2>3
<1>9. ASSUME NEW r \in Runs, Contended(r) PROVE Backed'
  BY <1>9 DEF Contended, Goto, MoreTries
<1>10. ASSUME NEW r \in Runs, TakeFails(r) PROVE Backed'
  BY <1>10 DEF TakeFails, Goto, Leaves, Forgets
<1>11. ASSUME NEW r \in Runs, RereadHeld(r) PROVE Backed'
  BY <1>11 DEF RereadHeld, Goto, Leaves, Forgets
<1>12. ASSUME NEW r \in Runs, RereadFree(r) PROVE Backed'
  BY <1>12 DEF RereadFree, Goto, Leaves, Forgets
<1>13. ASSUME NEW r \in Runs, AbandonTake(r) PROVE Backed'
  BY <1>13 DEF AbandonTake, Goto, Leaves, Forgets
<1>14. ASSUME NEW r \in Runs, RenewCalls(r) PROVE Backed'
  BY <1>14 DEF RenewCalls, Lease
<1>15. ASSUME NEW r \in Runs, Renewed(r) PROVE Backed'
  BY <1>15 DEF Renewed, Settles, Loops, RenewMatches
<1>16. ASSUME NEW r \in Runs, RenewRefused(r) PROVE Backed'
  BY <1>16 DEF RenewRefused, Settles, Loses
<1>17. ASSUME NEW r \in Runs, RenewFails(r) PROVE Backed'
  BY <1>17 DEF RenewFails, Settles, Loops
<1>18. ASSUME NEW r \in Runs, RenewExpires(r) PROVE Backed'
  BY <1>18 DEF RenewExpires, Settles, Loses
<1>19. ASSUME NEW r \in Runs, EndRun(r) PROVE Backed'
  BY <1>19 DEF EndRun, Goto, StopsRenewal
<1>20. ASSUME NEW r \in Runs, EndUnleased(r) PROVE Backed'
  BY <1>20 DEF EndUnleased, Goto, task
<1>21. ASSUME NEW r \in Runs, AbortRun(r) PROVE Backed'
  BY <1>21 DEF AbortRun, Goto, StopsRenewal
<1>22. ASSUME NEW r \in Runs, AbortRelease(r) PROVE Backed'
  BY <1>22 DEF AbortRelease, Goto, Forgets
<1>23. ASSUME NEW r \in Runs, ReadOwn(r) PROVE Backed'
  BY <1>23 DEF ReadOwn, Goto, Lease
<1>24. ASSUME NEW r \in Runs, ReadOther(r) PROVE Backed'
  BY <1>24 DEF ReadOther, Goto, Leaves, Forgets
<1>25. ASSUME NEW r \in Runs, Release(r) PROVE Backed'
  BY <1>25 DEF Release, Goto, Leaves, Forgets, ReleaseMatches
<1>26. ASSUME NEW r \in Runs, ReleaseFails(r) PROVE Backed'
  BY <1>26 DEF ReleaseFails, Goto, Leaves, Forgets
<1>27. ASSUME NEW w \in late, LateLands(w) PROVE Backed'
  <2>1. lease = w.old \/ w.put
    BY <1>27 DEF LateLands
  <2> SUFFICES ASSUME \A q \in Runs : ~forced[q], NEW q \in Runs, Holds(q)'
               PROVE  lease'.run = q
    BY <1>27 DEF LateLands
  <2>2. Holds(q) /\ ~w.put /\ lease = w.old /\ lease' = w.new
    BY <1>27 DEF LateLands, task, Strays, Harmless
  <2>3. lease.run = q /\ ~Replaceable(lease)
    BY <2>2 DEF Replaceable, Out
  <2> QED
    BY <2>2, <2>3 DEF Strays, Harmless
<1>28. ASSUME NEW p \in Procs, Dies(p) PROVE Backed'
  BY <1>28 DEF Dies
<1>29. CASE Tick
  BY <1>29 DEF Tick, task
<1> QED
  BY <1>1, <1>2, <1>3, <1>4, <1>5, <1>6, <1>7, <1>8, <1>9, <1>10, <1>11,
     <1>12, <1>13, <1>14, <1>15, <1>16, <1>17, <1>18, <1>19, <1>20, <1>21,
     <1>22, <1>23, <1>24, <1>25, <1>26, <1>27, <1>28, <1>29
  DEF Next, Take, Renew

(* Every reachable state satisfies the invariant. *)
LEMMA Invariance == Spec => []LInv
<1>1. LInv /\ [Next]_vars => LInv'
  BY StepTypeOK, StepMarked, StepLocated, StepUnseen, StepJudged, StepStrays,
     StepNewest, StepBacked DEF LInv
<1> QED
  BY InitEstablishes, <1>1, PTL DEF Spec
-------------------------------------------------------------------------------
(* Every reachable state of the lease protocol is well typed, and no take
   makes more than TAKE_ATTEMPTS attempts. *)
THEOREM TypeCorrect == Spec => []TypeOK
BY Invariance, PTL DEF LInv

(* Mutual exclusion: unless a take is forced, at most one run holds the row,
   by its own clock, at any time (try_acquire, spawn_guard, release). *)
THEOREM LeaseIsExclusive == Spec => []OneHolder
<1>1. LInv => OneHolder
  BY DEF LInv, Backed, OneHolder
<1> QED
  BY Invariance, <1>1, PTL

(* No step but a forced take replaces or removes the lease of a run that holds
   it: takes, releases and expiries are conditional writes, and what they
   compare with is never a holder's lease, however late they take effect. *)
THEOREM HoldersAreNotRobbed == Spec => HolderIsNotRobbed
<1> DEFINE Robbed == \E r \in Runs : Holds(r) /\ lease.run = r /\ lease'.run # r
<1>1. LInv /\ [Next]_vars => (Robbed => Forcing)
  <2> SUFFICES ASSUME LInv, [Next]_vars, Robbed PROVE Forcing
    OBVIOUS
  <2> USE RunLeaseAssumption DEF LInv
  <2>1. PICK r \in Runs : Holds(r) /\ lease.run = r /\ lease'.run # r
    OBVIOUS
  <2>2. pc[r] = "run" /\ ~Replaceable(lease)
    BY <2>1 DEF Newest, Holds, TypeOK, Leases, Replaceable, Out, Ended
  <2>3. ASSUME NEW q \in Runs, Taken(q) PROVE Forcing
    BY <2>2, <2>3 DEF Taken, TakeMatches, Judged, Forcing
  <2>4. ASSUME NEW q \in Runs, Renewed(q) PROVE Forcing
    BY <2>1, <2>4 DEF Renewed, RenewMatches, Located
  <2>5. ASSUME NEW q \in Runs, Release(q) PROVE Forcing
    BY <2>1, <2>2, <2>5 DEF Release, ReleaseMatches, Located
  <2>6. ASSUME NEW w \in late, LateLands(w) PROVE Forcing
    BY <2>1, <2>2, <2>6 DEF LateLands, Strays, Harmless, Forcing
  <2>7. lease' # lease
    BY <2>1
  <2> QED
    BY <2>3, <2>4, <2>5, <2>6, <2>7
    DEF Next, Take, Renew, vars, Begin, BeginForced, Starts, ReadLease,
        ReadFails,
        TakeOver, Refused, Contended, TakeFails, RereadHeld, RereadFree,
        AbandonTake, RenewCalls, RenewRefused, RenewFails, RenewExpires,
            EndRun,
        EndUnleased, AbortRun, AbortRelease, ReadOwn, ReadOther, ReleaseFails,
        Dies, Tick
<1>2. LInv /\ [Next]_vars
        => [\A r \in Runs :
              Holds(r) /\ lease.run = r /\ lease'.run # r => Forcing]_vars
  BY <1>1
<1> QED
  BY Invariance, <1>2, PTL DEF Spec, HolderIsNotRobbed
===============================================================================
