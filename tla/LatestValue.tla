----------------------------- MODULE LatestValue -----------------------------
(* What a TripleBuffer promises: the reader takes the latest value published *)
(* since it last took one, whole, and keeps it until it takes the next one.  *)

CONSTANT Empty

VARIABLES offer,    \* the value the writer puts next
          newest,   \* the value a reader would take next, or has taken last
          fresh,    \* it has not been taken yet
          taken     \* what the reader holds

Init == newest = Empty /\ fresh = FALSE /\ taken = Empty

Put ==
  /\ newest' = offer /\ fresh' = TRUE  \* and the next offer is any value
  /\ UNCHANGED taken

Take ==
  /\ fresh /\ fresh' = FALSE
  /\ taken' = newest
  /\ UNCHANGED <<offer, newest>>

Next == Put \/ Take

vars == <<offer, newest, fresh, taken>>
==============================================================================
