----------------------------- MODULE MCJobs -----------------------------
(***************************************************************************)
(* Instances of Jobs for TLC.                                              *)
(***************************************************************************)
EXTENDS Jobs

\* One job reports a milestone on its way, so that a save of a run in flight
\* meets everything else; the others are submitted and end.
OneReporter == [j \in Jobs |-> IF j = CHOOSE i \in Jobs : TRUE THEN 1 ELSE 0]
=============================================================================
