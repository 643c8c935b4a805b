------------------------------ MODULE Telemetry ------------------------------
(* What the observer samples and sends (telemetry.cpp).  collect_telemetry   *)
(* loads the control block one field at a time while the pipeline writes it; *)
(* of its fields the model keeps those that make up "idle".  The text of     *)
(* format_telemetry_json is kept as its greatest length.                     *)
EXTENDS Integers

VARIABLES board,    \* the control block
          sample    \* the TelemetrySnapshot being collected

FreshBoard == [generation |-> 1, shutdown |-> 0, ingest_done |-> 0, compute_done |-> 0]
NoSample == [generation |-> 0, shutdown |-> 0, ingest_done |-> 0, compute_done |-> 0, idle |-> 0]

\* The loads of collect_telemetry, in their order.
FirstLoad == "generation"
NextLoad == [generation |-> "shutdown", shutdown |-> "ingest_done",
             ingest_done |-> "compute_done", compute_done |-> "rows"]
Loads == DOMAIN NextLoad

\* idle, from the flags loaded before it; they are not used again.
Collected ==
  [NoSample EXCEPT !.generation = sample.generation,
     !.idle = IF sample.shutdown = 1 /\ sample.ingest_done = 1 /\ sample.compute_done = 1
              THEN 1 ELSE 0]

\* Mutant: the bound on the points is forgotten.
AllPoints(rows) == rows

\* kMaxPoints: the loop over the window breaks when sources[] is full.
Points(rows) == IF rows > 16 THEN 16 ELSE rows

\* format_telemetry_json at its longest: 362 characters of text with 7 numbers
\* of 20 digits and 21 of 10, then per point 30 characters, an id of 2 digits
\* and four numbers of 10 digits, two of them signed, then the closing two.
JsonLength(points) == 362 + 7 * 20 + 21 * 10 + points * (30 + 2 + 2 * 11 + 2 * 10) + 2

\* run_observe's buffer; put() keeps a byte for the terminator.
kJsonBytes == 4096
Formatted(points) == IF JsonLength(points) < kJsonBytes THEN JsonLength(points) ELSE 0

\* The longest event there is: all 64 rows of the window hold a record.
EventLength == Formatted(Points(64))
==============================================================================
