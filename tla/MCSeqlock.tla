------------------------------ MODULE MCSeqlock ------------------------------
(* Two words, three publishes and a counter that wraps after two of them:    *)
(* stale loads, torn copies, retries, exhausted tries and one turn of the    *)
(* counter inside a load all happen.                                         *)
EXTENDS Seqlock, TLC
==============================================================================
