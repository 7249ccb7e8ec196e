--------------------------- MODULE MCOverwriteGroup ---------------------------
(* Two units that share a destination, under on_error: stop, on a first load, on a
   later one, and with --limit; each with its own, under on_error: continue. *)
EXTENDS OverwriteGroup

CONSTANTS u, v, g, h

Shared == [w \in Units |-> g]
Apart == [w \in Units |-> IF w = u THEN g ELSE h]

FourConfigs ==
  {[plan |-> Shared, onError |-> "stop", limited |-> FALSE, there |-> FALSE],
   [plan |-> Shared, onError |-> "stop", limited |-> FALSE, there |-> TRUE],
   [plan |-> Shared, onError |-> "stop", limited |-> TRUE, there |-> TRUE],
   [plan |-> Apart, onError |-> "continue", limited |-> FALSE, there |-> TRUE]}
===============================================================================
