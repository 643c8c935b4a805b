------------------------------ MODULE MCIngest -------------------------------
(* Six frames, one of them undecodable, through a queue of two and a ring   *)
(* of one: both fill up, both run empty, and the queue wraps.                *)
EXTENDS IngestAlone, TLC

Good == [id |-> 0, decodes |-> TRUE, fits |-> TRUE]
Bad == [id |-> 0, decodes |-> FALSE, fits |-> TRUE]

MCReplay == <<Good, Bad, Good, Good, Good, Good>>
==============================================================================
