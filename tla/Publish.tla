------------------------------- MODULE Publish -------------------------------
(* The publish process (publish.cpp): it polls the snapshot buffer and       *)
(* writes the last snapshot it took to the output file.                      *)
EXTENDS Layout

VARIABLES ppc,         \* where the process is
          have, last,  \* its locals
          file         \* the output file; the empty snapshot when there is none

publish == <<ppc, have, last>>

PublishInit == ppc = "off" /\ have = FALSE /\ last = EmptySnapshot

\* The process starts at "loop", or is gone ("off").
PublishTo(pc) == ppc' = pc /\ have' = FALSE /\ last' = EmptySnapshot

\* while (shutdown == 0)
PublishLoop ==
  /\ ppc = "loop"
  /\ ppc' = IF Stopped THEN "write" ELSE "consume"
  /\ UNCHANGED <<control, snapshots, proc, have, last, file>>

PublishConsume ==
  /\ ppc = "consume"
  /\ IF snapshots.fresh
     THEN /\ last' = snapshots.last /\ have' = TRUE
          /\ snapshots' = [snapshots EXCEPT !.fresh = FALSE]
     ELSE UNCHANGED <<snapshots, have, last>>
  /\ ppc' = "check"
  /\ UNCHANGED <<control, proc, file>>

\* Mutant: compute_done is taken for a snapshot in hand.
PublishReadyEarly == control.compute_done = 1

PublishReady == control.compute_done = 1 /\ have

PublishCheck ==
  /\ ppc = "check"
  /\ ppc' = IF PublishReady THEN "write" ELSE "loop"
  /\ UNCHANGED <<control, snapshots, proc, have, last, file>>

\* The file, if there is a snapshot to write, and the exit
PublishWrite ==
  /\ ppc = "write"
  /\ file' = IF have THEN last ELSE file
  /\ Exit("publish", "exit0")
  /\ PublishTo("off")
  /\ UNCHANGED <<control, snapshots>>

PublishStep ==
  /\ PublishLoop \/ PublishConsume \/ PublishCheck \/ PublishWrite
  /\ UNCHANGED <<ring, latest, window>>

PublishTypeOK ==
  /\ ppc \in {"off", "loop", "consume", "check", "write"}
  /\ have \in BOOLEAN /\ last \in Snapshot /\ file \in Snapshot
==============================================================================
