------------------------------ MODULE RunLease -------------------------------
(***************************************************************************)
(* The run lease of one row (cli/src/pipeline_state/lease.rs): taken by a  *)
(* conditional write when a run starts, renewed in the background while it *)
(* runs, removed when it ends, expired in the background when the run is   *)
(* aborted, and left to its time to live when the process dies.            *)
(*                                                                         *)
(* Runs of several processes, on one host or on several, share a state     *)
(* store whose compare_and_put is atomic (the file, Redis, Postgres and    *)
(* memory stores).  A write succeeds in one step.  One that reports an     *)
(* error, or whose caller is aborted or dies, takes effect at any time     *)
(* from then on, or never.  The processes' clocks agree.                   *)
(***************************************************************************)
EXTENDS Integers, FiniteSets

CONSTANTS
  Runs,           \* runs of the row, each with a run id of its own
  Procs, Hosts,
  HostOf,         \* the host (and PID namespace) a process runs on
  Placements,     \* in which process each run may be started
  TTL,            \* LEASE_TTL, in ticks of the clock
  TakeAttempts,   \* TAKE_ATTEMPTS
  MaxNow,         \* bound of the clock
  MaxLate,        \* bound of the late writes at a time
  MayForce        \* the runs an operator may start with --force

ASSUME RunLeaseAssumption ==
  /\ "none" \notin Runs
  /\ HostOf \in [Procs -> Hosts]
  /\ Placements \subseteq [Runs -> Procs]
  /\ TTL \in Nat \ {0}
  /\ TakeAttempts \in Nat \ {0}
  /\ MaxNow \in Nat
  /\ MaxLate \in Nat
  /\ MayForce \subseteq Runs

VARIABLES
  now,            \* Utc::now()
  lease,          \* the stored lease
  alive,          \* the processes that are running
  where,          \* the process of each run
  held,           \* HELD_HERE: the runs their process has marked as holders
  forced,         \* the runs started with --force
  pc,             \* the await a run is at
  expect, next,   \* what the conditional write in hand compares with and writes
  tries,          \* writes of the take that found another value
  renew,          \* the renewal task
  lost,           \* the guard's token that stops the run
  late            \* writes nobody waits for that may still take effect

(* While a run runs, expect is the lease it last wrote, whose expiry is
   held_until. *)
task == <<expect, next, tries, renew, lost>>
vars == <<now, lease, alive, where, held, forced, pc, task, late>>

(* An absent key, or the null a release leaves. *)
NoLease == [run |-> "none", exp |-> 0]
Lease(r, t) == [run |-> r, exp |-> t]
Leases == [run : Runs \cup {"none"}, exp : Int]
Writes == [put : BOOLEAN, old : Leases, new : Leases]

Taking == {"read", "wait", "write", "reread"}
Stopping == {"release", "remove", "expire", "outdate"}
Ended == {"refused", "bare", "done"}

TypeOK ==
  /\ now \in Nat /\ lease \in Leases
  /\ alive \subseteq Procs /\ where \in [Runs -> Procs]
  /\ held \subseteq Runs /\ forced \in [Runs -> BOOLEAN]
  /\ pc \in [Runs -> {"idle", "run"} \cup Taking \cup Stopping \cup Ended]
  /\ expect \in [Runs -> Leases] /\ next \in [Runs -> Leases]
  /\ tries \in [Runs -> 0..TakeAttempts]
  /\ renew \in [Runs -> {"off", "sleep", "write"}] /\ lost \in [Runs -> BOOLEAN]
  /\ late \subseteq Writes

Init ==
  /\ now = 1 /\ lease = NoLease
  /\ alive = Procs /\ where \in Placements
  /\ held = {} /\ forced = [r \in Runs |-> FALSE]
  /\ pc = [r \in Runs |-> "idle"]
  /\ expect = [r \in Runs |-> NoLease] /\ next = [r \in Runs |-> NoLease]
  /\ tries = [r \in Runs |-> 0]
  /\ renew = [r \in Runs |-> "off"] /\ lost = [r \in Runs |-> FALSE]
  /\ late = {}
-------------------------------------------------------------------------------
IsLive(l) == l # NoLease /\ l.exp > now

(* classify_holder, as run r sees the holder s: a run of r's own process is
   gone once its mark is, a process of r's host once it is dead; of another
   host nothing is known. *)
HolderGone(r, s) ==
  /\ HostOf[where[s]] = HostOf[where[r]]
  /\ IF where[s] = where[r] THEN s \notin held ELSE where[s] \notin alive

(* A live lease of another run stands in the way of run r. *)
Blocks(r, l) == IsLive(l) /\ l.run # r

Goto(r, p) == pc' = [pc EXCEPT ![r] = p]

(* The locals of run r go out of scope. *)
Forgets(r) ==
  /\ expect' = [expect EXCEPT ![r] = NoLease]
  /\ next' = [next EXCEPT ![r] = NoLease]
  /\ tries' = [tries EXCEPT ![r] = 0]
  /\ renew' = [renew EXCEPT ![r] = "off"]
  /\ lost' = [lost EXCEPT ![r] = FALSE]

(* Run r leaves the lease code for good, and drops its mark. *)
Leaves(r, p) == Goto(r, p) /\ held' = held \ {r} /\ Forgets(r)

(* The write run r is waiting for. *)
Waits(r) == pc[r] \in {"write", "remove", "outdate"} \/ renew[r] = "write"
Call(r) ==
  [put |-> forced[r] /\ pc[r] = "write", old |-> expect[r], new |-> next[r]]

(* Nobody waits for the writes of these runs any longer: some may take effect
   later, and the others never do. *)
Abandons(runs) ==
  \E l \in SUBSET {Call(r) : r \in {q \in runs : Waits(q)}} :
    Cardinality(late \cup l) <= MaxLate /\ late' = late \cup l

LeavesCall(r) == Abandons({r})

LateLands(w) ==
  /\ w.put \/ lease = w.old
  /\ lease' = w.new /\ late' = late \ {w}
  /\ UNCHANGED <<now, alive, where, held, forced, pc, task>>
-------------------------------------------------------------------------------
(* try_acquire: mark the run as held, then take the lease. *)
Starts(r, p) ==
  /\ pc[r] = "idle" /\ where[r] \in alive
  /\ Goto(r, p) /\ held' = held \cup {r}
  /\ next' = [next EXCEPT ![r] = Lease(r, now + TTL)]
  /\ UNCHANGED <<now, lease, alive, where>>
  /\ UNCHANGED <<expect, tries, renew, lost, late>>

Begin(r) == Starts(r, "read") /\ UNCHANGED forced

BeginForced(r) ==
  /\ r \in MayForce
  /\ Starts(r, "write") /\ forced' = [forced EXCEPT ![r] = TRUE]

ReadLease(r) ==
  /\ pc[r] = "read"
  /\ expect' = [expect EXCEPT ![r] = lease]
  /\ Goto(r, IF Blocks(r, lease) THEN "wait" ELSE "write")
  /\ UNCHANGED <<now, lease, alive, where, held, forced>>
  /\ UNCHANGED <<next, tries, renew, lost, late>>

(* An unreadable lease: the run goes on without one. *)
ReadFails(r) ==
  /\ pc[r] = "read" /\ Leaves(r, "bare")
  /\ UNCHANGED <<now, lease, alive, where, forced, late>>

(* holder_gone: a holder that is gone is taken over. *)
TakeOver(r) ==
  /\ pc[r] = "wait" /\ HolderGone(r, expect[r].run)
  /\ Goto(r, "write")
  /\ UNCHANGED <<now, lease, alive, where, held, forced, task, late>>

(* Mutant: a take waits for a run of its own process without a deadline. *)
RefusedByOthers(r) ==
  /\ pc[r] = "wait" /\ ~HolderGone(r, expect[r].run)
  /\ where[expect[r].run] # where[r]
  /\ Leaves(r, "refused")
  /\ UNCHANGED <<now, lease, alive, where, forced, late>>

(* holder_gone: any other holder refuses the take, a run of this process
   once LOCAL_TEARDOWN_WAIT has passed. *)
Refused(r) ==
  /\ pc[r] = "wait" /\ ~HolderGone(r, expect[r].run)
  /\ Leaves(r, "refused")
  /\ UNCHANGED <<now, lease, alive, where, forced, late>>

(* The comparison of the take's conditional write; a forced take is a put. *)
TakeMatches(r) == forced[r] \/ lease = expect[r]

(* Mutant: one attempt too many. *)
MoreTriesByOne(r) == tries[r] < TakeAttempts

MoreTries(r) == tries[r] + 1 < TakeAttempts

(* The write takes effect and the guard is spawned, *)
Taken(r) ==
  /\ pc[r] = "write" /\ TakeMatches(r) /\ Goto(r, "run")
  /\ lease' = next[r] /\ expect' = [expect EXCEPT ![r] = next[r]]
  /\ next' = [next EXCEPT ![r] = NoLease]
  /\ tries' = [tries EXCEPT ![r] = 0]
  /\ renew' = [renew EXCEPT ![r] = "sleep"]
  /\ UNCHANGED <<now, alive, where, held, forced, lost, late>>

(* or it finds another value and the take tries again, *)
Contended(r) ==
  /\ pc[r] = "write" /\ ~TakeMatches(r)
  /\ Goto(r, IF MoreTries(r) THEN "read" ELSE "reread")
  /\ expect' = [expect EXCEPT ![r] = NoLease]
  /\ tries' = [tries EXCEPT ![r] = @ + 1]
  /\ UNCHANGED <<now, lease, alive, where, held, forced>>
  /\ UNCHANGED <<next, renew, lost, late>>

(* or it fails: unleased. *)
TakeFails(r) ==
  /\ pc[r] = "write" /\ Leaves(r, "bare") /\ LeavesCall(r)
  /\ UNCHANGED <<now, lease, alive, where, forced>>

(* The attempts are spent: refused by a live holder, *)
RereadHeld(r) ==
  /\ pc[r] = "reread" /\ Blocks(r, lease) /\ ~HolderGone(r, lease.run)
  /\ Leaves(r, "refused")
  /\ UNCHANGED <<now, lease, alive, where, forced, late>>

(* unleased otherwise, or if the lease is unreadable. *)
RereadFree(r) ==
  /\ pc[r] = "reread" /\ Leaves(r, "bare")
  /\ UNCHANGED <<now, lease, alive, where, forced, late>>

(* The task is aborted in the middle of a take: HeldMark::drop. *)
AbandonTake(r) ==
  /\ pc[r] \in Taking /\ Leaves(r, "done") /\ LeavesCall(r)
  /\ UNCHANGED <<now, lease, alive, where, forced>>
-------------------------------------------------------------------------------
(* The renewal task of the guard. *)
RenewCalls(r) ==
  /\ pc[r] = "run" /\ renew[r] = "sleep"
  /\ renew' = [renew EXCEPT ![r] = "write"]
  /\ next' = [next EXCEPT ![r] = Lease(r, now + TTL)]
  /\ UNCHANGED <<now, lease, alive, where, held, forced, pc>>
  /\ UNCHANGED <<expect, tries, lost, late>>

RenewMatches(r) == lease = expect[r]

(* The call is over. *)
Settles(r) ==
  /\ next' = [next EXCEPT ![r] = NoLease]
  /\ UNCHANGED <<now, alive, where, held, forced, pc, tries>>

(* Back at the select of the loop, which ends once the guard has stopped. *)
Loops(r) ==
  /\ renew' = [renew EXCEPT ![r] = IF pc[r] = "run" THEN "sleep" ELSE "off"]
  /\ UNCHANGED lost

(* The run is told to stop, and nothing is renewed any more. *)
Loses(r) ==
  /\ lost' = [lost EXCEPT ![r] = TRUE]
  /\ renew' = [renew EXCEPT ![r] = "off"]

Renewed(r) ==
  /\ renew[r] = "write" /\ RenewMatches(r)
  /\ lease' = next[r] /\ expect' = [expect EXCEPT ![r] = next[r]]
  /\ Loops(r) /\ Settles(r) /\ UNCHANGED late

(* Mutant: the comparison's outcome is not looked at. *)
RefusalIgnored(r) ==
  /\ renew[r] = "write" /\ ~RenewMatches(r)
  /\ expect' = [expect EXCEPT ![r] = next[r]]
  /\ Loops(r) /\ Settles(r) /\ UNCHANGED <<lease, late>>

RenewRefused(r) ==
  /\ renew[r] = "write" /\ ~RenewMatches(r)
  /\ Loses(r) /\ Settles(r) /\ UNCHANGED <<lease, expect, late>>

(* Mutant: a renewal that fails is only logged. *)
NeverExpired(r) == FALSE

Expired(r) == now >= expect[r].exp

(* A renewal fails: the next one is awaited, *)
RenewFails(r) ==
  /\ renew[r] = "write" /\ ~Expired(r)
  /\ Loops(r) /\ Settles(r) /\ LeavesCall(r)
  /\ UNCHANGED <<lease, expect>>

(* or, once the lease has expired, the run is told to stop. *)
RenewExpires(r) ==
  /\ renew[r] = "write" /\ Expired(r)
  /\ Loses(r) /\ Settles(r) /\ LeavesCall(r)
  /\ UNCHANGED <<lease, expect>>
-------------------------------------------------------------------------------
(* The guard's stop token: a renewal between two writes ends at once. *)
StopsRenewal(r) ==
  /\ renew' = [renew EXCEPT ![r] = IF @ = "sleep" THEN "off" ELSE @]
  /\ UNCHANGED <<expect, next, tries, lost, late>>

(* The run ends, for whatever reason, and its guard is released. *)
EndRun(r) ==
  /\ pc[r] = "run" /\ Goto(r, "release") /\ StopsRenewal(r)
  /\ UNCHANGED <<now, lease, alive, where, held, forced>>

EndUnleased(r) ==
  /\ pc[r] = "bare" /\ Goto(r, "done")
  /\ UNCHANGED <<now, lease, alive, where, held, forced, task, late>>

(* The guard is dropped without a release: LeaseGuard::drop. *)
AbortRun(r) ==
  /\ pc[r] = "run" /\ Goto(r, "expire") /\ StopsRenewal(r)
  /\ held' = held \ {r}
  /\ UNCHANGED <<now, lease, alive, where, forced>>

(* Dropped inside release: nobody awaits the last renewal, or the removal. *)
AbortRelease(r) ==
  /\ pc[r] \in {"release", "remove"}
  /\ LeavesCall(r) /\ Goto(r, "expire") /\ held' = held \ {r} /\ Forgets(r)
  /\ UNCHANGED <<now, lease, alive, where, forced>>

(* release_lease and expire_lease read the lease, once the renewal has ended: *)
ReadOwn(r) ==
  /\ pc[r] \in {"release", "expire"} /\ renew[r] = "off" /\ lease.run = r
  /\ expect' = [expect EXCEPT ![r] = lease]
  /\ \/ /\ pc[r] = "release" /\ Goto(r, "remove")
        /\ next' = [next EXCEPT ![r] = NoLease]
     \/ /\ pc[r] = "expire" /\ Goto(r, "outdate")
        /\ next' = [next EXCEPT ![r] = Lease(r, now - 1)]
  /\ UNCHANGED <<now, lease, alive, where, held, forced>>
  /\ UNCHANGED <<tries, renew, lost, late>>

(* another run's is left, and so is one that cannot be read. *)
ReadOther(r) ==
  /\ pc[r] \in {"release", "expire"} /\ renew[r] = "off"
  /\ Leaves(r, "done")
  /\ UNCHANGED <<now, lease, alive, where, forced, late>>

(* Mutant: the lease is removed, whoever's it is by now. *)
RemovesAnything(r) == TRUE

ReleaseMatches(r) == lease = expect[r]

(* The conditional write of null, or of an expiry in the past, *)
Release(r) ==
  /\ pc[r] \in {"remove", "outdate"} /\ Leaves(r, "done")
  /\ IF ReleaseMatches(r) THEN lease' = next[r] ELSE UNCHANGED lease
  /\ UNCHANGED <<now, alive, where, forced, late>>

(* whose failure is only logged. *)
ReleaseFails(r) ==
  /\ pc[r] \in {"remove", "outdate"} /\ Leaves(r, "done") /\ LeavesCall(r)
  /\ UNCHANGED <<now, lease, alive, where, forced>>
-------------------------------------------------------------------------------
(* A process dies with its runs, marks and renewals. *)
Dies(p) ==
  /\ p \in alive /\ \E r \in Runs : where[r] = p
  /\ alive' = alive \ {p}
  /\ held' = {r \in held : where[r] # p}
  /\ Abandons({q \in Runs : where[q] = p})
  /\ LET Reset(f, v) == [r \in Runs |-> IF where[r] = p THEN v ELSE f[r]]
     IN  /\ pc' = Reset(pc, "done")
         /\ expect' = Reset(expect, NoLease) /\ next' = Reset(next, NoLease)
         /\ tries' = Reset(tries, 0)
         /\ renew' = Reset(renew, "off") /\ lost' = Reset(lost, FALSE)
  /\ UNCHANGED <<now, lease, where, forced>>

Tick ==
  /\ now < MaxNow /\ now' = now + 1
  /\ UNCHANGED <<lease, alive, where, held, forced, pc, task, late>>

Take(r) ==
  \/ ReadLease(r) \/ ReadFails(r) \/ TakeOver(r) \/ Refused(r)
  \/ Taken(r) \/ Contended(r) \/ TakeFails(r)
  \/ RereadHeld(r) \/ RereadFree(r)

Renew(r) ==
  \/ RenewCalls(r) \/ Renewed(r) \/ RenewRefused(r)
  \/ RenewFails(r) \/ RenewExpires(r)

Next ==
  \/ \E r \in Runs :
       \/ Begin(r) \/ BeginForced(r) \/ Take(r) \/ AbandonTake(r) \/ Renew(r)
       \/ EndRun(r) \/ EndUnleased(r) \/ AbortRun(r) \/ AbortRelease(r)
       \/ ReadOwn(r) \/ ReadOther(r) \/ Release(r) \/ ReleaseFails(r)
  \/ \E w \in late : LateLands(w)
  \/ \E p \in Procs : Dies(p)
  \/ Tick

Spec == Init /\ [][Next]_vars

(* tokio polls what is ready and every call of the store returns; no call is
   assumed to succeed, no run to end and no clock to tick. *)
FairSpec == Spec /\ \A r \in Runs : WF_vars(Take(r)) /\ WF_vars(Renew(r))
-------------------------------------------------------------------------------
(* Run r believes that it holds the row, and by its own clock it still does. *)
Holds(r) == pc[r] = "run" /\ ~lost[r] /\ now < expect[r].exp

(* Unless an operator forces a take, two runs never hold the row at once: the
   conditional take, renewal and release, the marks and the takeover of gone
   holders together keep the row to one run, whatever fails, dies or is
   aborted in the middle of a call. *)
OneHolder ==
  (\A q \in Runs : ~forced[q]) =>
    \A r, s \in Runs : Holds(r) /\ Holds(s) => r = s

(* The lease about to be stored is a forced take's. *)
Forcing ==
  \/ \E q \in Runs : forced[q] /\ pc[q] = "write" /\ lease' = next[q]
  \/ \E w \in late : w.put /\ lease' = w.new

(* Only a forced take removes or replaces the lease of a run that holds it;
   the release or the background expiry of an earlier run, or a write that
   takes effect late, never does. *)
HolderIsNotRobbed ==
  [][\A r \in Runs :
       Holds(r) /\ lease.run = r /\ lease'.run # r => Forcing]_vars

(* A take ends: it waits for a run of its own process only so long, and a
   contended lease is given up after TAKE_ATTEMPTS. *)
TakesEnd == \A r \in Runs : pc[r] \in Taking ~> pc[r] \notin Taking

(* A run whose lease has run out finds out, even if every renewal fails: it
   renews it, is told to stop, or has ended. *)
ExpiryIsNoticed ==
  \A r \in Runs :
    pc[r] = "run" /\ now >= expect[r].exp
      ~> pc[r] # "run" \/ lost[r] \/ now < expect[r].exp
===============================================================================
