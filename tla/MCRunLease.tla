----------------------------- MODULE MCRunLease ------------------------------
(* Where the processes of the model-checked instance run. *)
EXTENDS RunLease

CONSTANTS r1, r2, p1, p2, p3, h1, h2

(* Two processes share a host, the third has one of its own. *)
MCHostOf == [p \in Procs |-> IF p = p3 THEN h2 ELSE h1]

(* Two runs of one process, of two processes of a host, and of two hosts. *)
MCPlacements ==
  {w \in [Runs -> Procs] : w[r1] = p1}
===============================================================================
