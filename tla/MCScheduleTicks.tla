--------------------------- MODULE MCScheduleTicks ---------------------------
(* Two schedules that differ in every option. *)
EXTENDS ScheduleTicks

TwoConfigs ==
  {[overlap |-> "queue", catchUp |-> TRUE,  stamped |-> TRUE],
   [overlap |-> "skip",  catchUp |-> FALSE, stamped |-> FALSE]}
=============================================================================
