----------------------------- MODULE MCSpscRing ------------------------------
(* A ring of four slots, filled, emptied and lapped by up to five records.    *)
EXTENDS SpscRing, TLC

CONSTANTS v1, v2

MCValues == {v1, v2}
==============================================================================
