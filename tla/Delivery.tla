------------------------------- MODULE Delivery -------------------------------
(***************************************************************************)
(* What a pipeline run promises its operator, whatever write path carries  *)
(* the rows (docs/architecture/invariants.md, I1, I3 and I4): a persisted  *)
(* bookmark never claims a row that is neither durable in a destination    *)
(* (the main sink or the dead-letter queue) nor discarded by a configured  *)
(* policy, and it never moves backwards.  The detailed modules implement   *)
(* this specification.                                                     *)
(***************************************************************************)
EXTENDS Naturals

CONSTANT N          \* the source holds the rows 1..N, in reading order

Rows == 1..N

VARIABLES
  delivered,        \* rows durable in the main sink or in the dead-letter queue
  discarded,        \* rows a policy gave up below the persisted bookmark
  checkpoint        \* the persisted bookmark: the next run starts after this row

vars == <<delivered, discarded, checkpoint>>

(* Nothing yet, or what an earlier life of the pipeline left behind. *)
Init ==
  /\ delivered \in SUBSET Rows
  /\ discarded = {}
  /\ checkpoint \in 0..N
  /\ 1..checkpoint \subseteq delivered

(* Rows become durable, in any order and in any number at once. *)
Deliver ==
  /\ \E S \in SUBSET Rows : delivered' = delivered \cup S
  /\ UNCHANGED <<discarded, checkpoint>>

(* The bookmark moves to p: every row up to p has its disposition by then.  A
   sink that keeps a bookmark of its own moves it with the rows it commits. *)
Advance ==
  \E p \in checkpoint..N, S, T \in SUBSET Rows :
    /\ delivered' = delivered \cup S
    /\ discarded' = discarded \cup T
    /\ checkpoint' = p
    /\ 1..p \subseteq delivered' \cup discarded'

Next == Deliver \/ Advance

Spec == Init /\ [][Next]_vars
===============================================================================
