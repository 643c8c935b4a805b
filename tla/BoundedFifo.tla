----------------------------- MODULE BoundedFifo -----------------------------
(* What the rings and queues of ratehub promise: a first-in first-out buffer *)
(* of at most Bound values, whose every value is taken exactly once.         *)
EXTENDS Naturals, Sequences

CONSTANTS Values,  \* what may be stored
          Bound    \* how many values fit

VARIABLES q,       \* the values stored and not yet taken, oldest first
          in,      \* the value the producer offers
          out      \* the value the last take returned

Init ==
  /\ q = <<>>
  /\ in \in Values /\ out \in Values

Offer ==
  /\ in' \in Values
  /\ UNCHANGED <<q, out>>

Put ==
  /\ Len(q) < Bound
  /\ q' = Append(q, in)
  /\ UNCHANGED <<in, out>>

Take ==
  /\ q # <<>>
  /\ out' = Head(q)
  /\ q' = Tail(q)
  /\ UNCHANGED in

Next == Offer \/ Put \/ Take

Spec == Init /\ [][Next]_<<q, in, out>>
==============================================================================
