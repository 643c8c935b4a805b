----------------------------- MODULE MCDashboard -----------------------------
(* Two clients with any request each: two streams that replace each other, a *)
(* stream and a reset, two resets and so three pipelines, with one failure   *)
(* or one signal.  One client, with a failure and two signals.               *)
EXTENDS Dashboard

CONSTANTS c1, c2

MCScenarios ==
  {[clients |-> {c1, c2}, faults |-> 1, signals |-> 0],
   [clients |-> {c1, c2}, faults |-> 0, signals |-> 1],
   [clients |-> {c1}, faults |-> 1, signals |-> 2]}
==============================================================================
