---------------------------- MODULE TripleBuffer -----------------------------
(* TripleBuffer (triple_buffer.hpp) with the snapshot stage that fills and   *)
(* publishes it (compute.cpp) and the publish process that consumes and      *)
(* copies it (publish.cpp).  slots_, write_, read_ and middle_ are in the    *)
(* mapping and survive the processes; a slot is written and read part by     *)
(* part.  The exchanges are acq_rel read-modify-writes, so they act on the   *)
(* newest middle_, and they order the plain accesses to the slots as long as *)
(* no slot has two owners, which is what Ownership says.                     *)
EXTENDS Integers

CONSTANTS kParts,      \* parts a snapshot is copied in
          MaxPublish,  \* bound on publishes
          MaxDeaths    \* bound on deaths of either side

ASSUME TripleBufferAssumption ==
  kParts \in Nat \ {0} /\ MaxPublish \in Nat /\ MaxDeaths \in Nat

Slots == 0 .. 2
Parts == 1 .. kParts
Versions == 0 .. MaxPublish

\* A snapshot is the number of its publish, in every part; 0 is the empty T.
Whole(n) == [p \in Parts |-> n]

VARIABLES slots, write, read,    \* slots_, write_, read_
          middle,                \* middle_: an index and the fresh bit
          wpc, widx, wold,       \* the writer, its next part, publish()'s old
          version,               \* how many snapshots have been published
          rpc, ridx, rold, copy, \* the reader, its next part, consume()'s old, its copy
          lost, deaths           \* a side died before it took its new slot; bound

vars == <<slots, write, read, middle, wpc, widx, wold, version, rpc, ridx, rold, copy,
          lost, deaths>>

Init ==
  /\ slots = [s \in Slots |-> Whole(0)]
  /\ write = 0 /\ read = 1 /\ middle = [ix |-> 2, fresh |-> FALSE]
  /\ wpc = "fill" /\ widx = 1 /\ wold = 0 /\ version = 0
  /\ rpc = "load" /\ ridx = 1 /\ rold = 0 /\ copy = Whole(0)
  /\ lost = FALSE /\ deaths = 0

------------------------------------------------------------------------------
(* The writer *)

\* Mutant: publish() before the last part is stored.
FilledEarly == widx + 1 >= kParts

\* Mutant: the copy runs past the last part.
FilledLate == widx > kParts

Filled == widx = kParts

\* write_slot() = snap
Fill ==
  /\ wpc = "fill" /\ version < MaxPublish
  /\ slots' = [slots EXCEPT ![write] = [@ EXCEPT ![widx] = version + 1]]
  /\ IF Filled THEN wpc' = "exchange" /\ widx' = 1
               ELSE widx' = widx + 1 /\ UNCHANGED wpc
  /\ UNCHANGED <<write, read, middle, wold, version, rpc, ridx, rold, copy, lost, deaths>>

PublishExchange ==
  /\ wpc = "exchange" /\ wpc' = "adopt"
  /\ wold' = middle.ix
  /\ middle' = [ix |-> write, fresh |-> TRUE]
  /\ version' = version + 1
  /\ UNCHANGED <<slots, write, read, widx, rpc, ridx, rold, copy, lost, deaths>>

\* Mutant: the writer goes on with the slot it has published.
WriterNextSame == write

\* The slot publish() leaves the writer with.
WriterNext == wold

PublishAdopt ==
  /\ wpc = "adopt" /\ wpc' = "fill"
  /\ write' = WriterNext
  /\ UNCHANGED <<slots, read, middle, widx, wold, version, rpc, ridx, rold, copy, lost,
                 deaths>>

------------------------------------------------------------------------------
(* The reader *)

\* The load of middle_.  One that finds the fresh bit clear, which a stale load
\* may do at any time, makes consume() return false.
ConsumeLoad ==
  /\ rpc = "load"
  /\ (middle.fresh /\ rpc' = "exchange") \/ UNCHANGED rpc
  /\ UNCHANGED <<slots, write, read, middle, wpc, widx, wold, version, ridx, rold, copy,
                 lost, deaths>>

\* Mutant: consume() puts its index back with the fresh bit still set.
FreshKept == TRUE

FreshCleared == FALSE

ConsumeExchange ==
  /\ rpc = "exchange" /\ rpc' = "adopt"
  /\ rold' = middle.ix
  /\ middle' = [ix |-> read, fresh |-> FreshCleared]
  /\ UNCHANGED <<slots, write, read, wpc, widx, wold, version, ridx, copy, lost, deaths>>

ConsumeAdopt ==
  /\ rpc = "adopt" /\ rpc' = "copy"
  /\ read' = rold
  /\ UNCHANGED <<slots, write, middle, wpc, widx, wold, version, ridx, rold, copy, lost,
                 deaths>>

\* last = read_slot()
Copy ==
  /\ rpc = "copy"
  /\ copy' = [copy EXCEPT ![ridx] = slots[read][ridx]]
  /\ IF ridx = kParts THEN rpc' = "load" /\ ridx' = 1
                      ELSE ridx' = ridx + 1 /\ UNCHANGED rpc
  /\ UNCHANGED <<slots, write, read, middle, wpc, widx, wold, version, rold, lost, deaths>>

------------------------------------------------------------------------------
(* A process dies and the supervisor starts another on the same mapping.     *)

WriterDies ==
  /\ deaths < MaxDeaths /\ deaths' = deaths + 1
  /\ lost' = (lost \/ wpc = "adopt")
  /\ wpc' = "fill" /\ widx' = 1
  /\ UNCHANGED <<slots, write, read, middle, wold, version, rpc, ridx, rold, copy>>

ReaderDies ==
  /\ deaths < MaxDeaths /\ deaths' = deaths + 1
  /\ lost' = (lost \/ rpc = "adopt")
  /\ rpc' = "load" /\ ridx' = 1 /\ copy' = Whole(0)
  /\ UNCHANGED <<slots, write, read, middle, wpc, widx, wold, version, rold>>

Writer == Fill \/ PublishExchange \/ PublishAdopt \/ WriterDies
Reader == ConsumeLoad \/ ConsumeExchange \/ ConsumeAdopt \/ Copy \/ ReaderDies
Next == Writer \/ Reader

Spec == Init /\ [][Next]_vars

------------------------------------------------------------------------------
(* Properties *)

TypeOK ==
  /\ slots \in [Slots -> [Parts -> Versions]]
  /\ write \in Slots /\ read \in Slots
  /\ middle \in [ix : Slots, fresh : BOOLEAN]
  /\ wpc \in {"fill", "exchange", "adopt"} /\ widx \in Parts /\ wold \in Slots
  /\ version \in Versions
  /\ rpc \in {"load", "exchange", "adopt", "copy"} /\ ridx \in Parts /\ rold \in Slots
  /\ copy \in [Parts -> Versions]
  /\ lost \in BOOLEAN /\ deaths \in 0 .. MaxDeaths

\* The slot a side owns: between an exchange and the assignment after it, the
\* one the exchange returned.
WriterSlot == IF wpc = "adopt" THEN wold ELSE write
ReaderSlot == IF rpc = "adopt" THEN rold ELSE read

\* "the two sides never own the same slot" (docs/DESIGN.md), nor the spare one,
\* so the plain copies into and out of slots never race.  This outlives the
\* death of either process at any point but one: between the exchange and the
\* assignment of write_ or read_, where the slot is forgotten (lost).
Ownership ==
  ~ lost => /\ WriterSlot # ReaderSlot
            /\ middle.ix \notin {WriterSlot, ReaderSlot}

\* What the publish process has copied is one snapshot, never parts of two.
WholeCopy == ~ lost /\ rpc # "copy" => \E n \in 0 .. version : copy = Whole(n)

Register == INSTANCE LatestValue WITH
  Empty <- Whole(0), offer <- Whole(version + 1),
  newest <- IF middle.fresh THEN slots[middle.ix] ELSE slots[ReaderSlot],
  fresh <- middle.fresh,
  taken <- slots[ReaderSlot]

\* Until a slot is forgotten every step is one of a register that holds the
\* latest complete snapshot and a fresh mark: publish() puts the snapshot just filled,
\* consume() takes the newest, and the slot the reader holds does not change
\* under it, also when a process dies.
IsLatestValue ==
  Register!Init /\ [][lost' \/ Register!Next \/ UNCHANGED Register!vars]_vars
==============================================================================
