---------------------------- MODULE MCExactlyOnce ----------------------------
(* Instances of ExactlyOnce for TLC: a SQL sink (OnWrite) and an Iceberg sink
   (OnFlush), with a source that resumes from positions, and with one that replays
   its pages, whose pipeline may have tokens of an earlier release. *)
EXTENDS ExactlyOnce

AllDeployments == [commits : {"OnWrite", "OnFlush"}, replay : {"Positions", "Pages"}]
===============================================================================
