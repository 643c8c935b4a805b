------------------------------ MODULE SpscRing -------------------------------
(* The single-producer single-consumer ring between ingest and compute       *)
(* (include/ratehub/spsc_ring.hpp), one step per access to shared memory.    *)
(*                                                                           *)
(* Memory order.  Each index has one writer, so its modification order is a  *)
(* count: after n stores the index holds Index(n).  An acquire load may      *)
(* return any store that is not older than the last one its thread has seen  *)
(* ("seen"): the load of a stale index is part of the model.  A release      *)
(* store carries what its thread had seen; stamp[n] is what the producer had *)
(* seen of read_ at its n-th store of write_.                                *)
EXTENDS Integers, Sequences

CONSTANTS Values,    \* the records
          Blank,     \* the value-initialised record T{}
          Capacity,  \* slots; one of them always stays empty
          MaxPush    \* bound: how many records are pushed in all

ASSUME RingAssumption ==
  /\ Blank \in Values
  /\ Capacity \in Nat /\ Capacity >= 2
  /\ MaxPush \in Nat

VARIABLES slots,   \* slots_
          pushed,  \* stores to write_ so far
          popped,  \* stores to read_ so far
          stamp,   \* what each store to write_ carries
          prod,    \* the thread inside try_push: pc, value, seen
          cons,    \* the thread inside try_pop: pc, value, seen
          obs,     \* the observer inside occupied: pc, write, read, seen
          out      \* what the last successful try_pop returned

ringVars == <<slots, pushed, popped, stamp, prod, cons, obs, out>>

\* An index after n increments under "& kMask".
Index(n) == n % Capacity

RingInit ==
  /\ slots = [i \in 0 .. Capacity - 1 |-> Blank]
  /\ pushed = 0
  /\ popped = 0
  /\ stamp = <<>>
  /\ prod = [pc |-> "idle", value |-> Blank, seen |-> 0]
  /\ cons = [pc |-> "idle", value |-> Blank, seen |-> 0]
  /\ obs = [pc |-> "idle", write |-> 0, read |-> 0, seen |-> 0]
  /\ out = Blank

------------------------------------------------------------------------------
(* try_push *)

\* Mutant: the full test that lets the producer lap the consumer.
RingFullLate(w, r) == w > r + Capacity

\* next == read_, for w records pushed and r pops seen.
RingFull(w, r) == Index(w + 1) = Index(r)

\* Load read_; a full ring refuses the record and changes nothing.
PushCheck ==
  /\ prod.pc = "idle"
  /\ pushed < MaxPush
  /\ \E v \in Values, r \in prod.seen .. popped :
       prod' = IF RingFull(pushed, r)
               THEN [prod EXCEPT !.seen = r]
               ELSE [pc |-> "write", value |-> v, seen |-> r]
  /\ UNCHANGED <<slots, pushed, popped, stamp, cons, obs, out>>

\* slots_[write] = value
PushSlot ==
  /\ prod.pc = "write"
  /\ slots' = [slots EXCEPT ![Index(pushed)] = prod.value]
  /\ prod' = [prod EXCEPT !.pc = "store"]
  /\ UNCHANGED <<pushed, popped, stamp, cons, obs, out>>

\* Mutant: the index is published before the slot is written.
PushReadyEarly == prod.pc = "write"

\* The slot is written: the index may be stored.
PushReady == prod.pc = "store"

\* write_.store(next, release)
PushPublish ==
  /\ PushReady
  /\ pushed' = pushed + 1
  /\ stamp' = Append(stamp, prod.seen)
  /\ prod' = [prod EXCEPT !.pc = "idle"]
  /\ UNCHANGED <<slots, popped, cons, obs, out>>

------------------------------------------------------------------------------
(* try_pop *)

\* Mutant: the empty test is off by one.
RingEmptyLate(r, w) == r = w + 1

\* read == write_, for r records popped and w pushes seen.
RingEmpty(r, w) == Index(r) = Index(w)

\* Load write_; an empty ring returns false and leaves out unchanged.
PopCheck ==
  /\ cons.pc = "idle"
  /\ \E w \in cons.seen .. pushed :
       cons' = [cons EXCEPT !.seen = w,
                            !.pc = IF RingEmpty(popped, w) THEN "idle" ELSE "read"]
  /\ UNCHANGED <<slots, pushed, popped, stamp, prod, obs, out>>

\* out = slots_[read]
PopSlot ==
  /\ cons.pc = "read"
  /\ cons' = [cons EXCEPT !.pc = "store", !.value = slots[Index(popped)]]
  /\ UNCHANGED <<slots, pushed, popped, stamp, prod, obs, out>>

\* read_.store(read + 1 & kMask, release), and the return
PopPublish ==
  /\ cons.pc = "store"
  /\ popped' = popped + 1
  /\ out' = cons.value
  /\ cons' = [cons EXCEPT !.pc = "idle"]
  /\ UNCHANGED <<slots, pushed, stamp, prod, obs>>

------------------------------------------------------------------------------
(* occupied, called by the observer: write_ is loaded before read_ *)

\* Mutant: the load of write_ is relaxed and carries nothing.
CarriedNothing(w) == 0

\* What an acquire load of the w-th store to write_ tells about read_.
Carried(w) == IF w = 0 THEN 0 ELSE stamp[w]

OccupiedLoadWrite ==
  /\ obs.pc = "idle"
  /\ \E w \in obs.write .. pushed :
       obs' = [obs EXCEPT !.pc = "read", !.write = w,
                          !.seen = IF Carried(w) > @ THEN Carried(w) ELSE @]
  /\ UNCHANGED <<slots, pushed, popped, stamp, prod, cons, out>>

OccupiedLoadRead ==
  /\ obs.pc = "read"
  /\ \E r \in obs.seen .. popped :
       obs' = [obs EXCEPT !.pc = "idle", !.read = r, !.seen = r]
  /\ UNCHANGED <<slots, pushed, popped, stamp, prod, cons, out>>

\* (write - read) & kMask, of the last call that ended.
Occupied == (obs.write - obs.read) % Capacity

------------------------------------------------------------------------------
(* A process that dies inside an operation loses its locals; the slots and   *)
(* the indexes live in the shared mapping.  Its successor is spawned by the  *)
(* supervisor after the death was waited for, so it has seen as much.        *)

ProducerDies ==
  /\ prod.pc # "idle"
  /\ prod' = [prod EXCEPT !.pc = "idle"]
  /\ UNCHANGED <<slots, pushed, popped, stamp, cons, obs, out>>

ConsumerDies ==
  /\ cons.pc # "idle"
  /\ cons' = [cons EXCEPT !.pc = "idle"]
  /\ UNCHANGED <<slots, pushed, popped, stamp, prod, obs, out>>

RingNext ==
  \/ PushCheck \/ PushSlot \/ PushPublish \/ ProducerDies
  \/ PopCheck \/ PopSlot \/ PopPublish \/ ConsumerDies
  \/ OccupiedLoadWrite \/ OccupiedLoadRead

RingSpec == RingInit /\ [][RingNext]_ringVars

------------------------------------------------------------------------------
(* Properties *)

RingTypeOK ==
  /\ slots \in [0 .. Capacity - 1 -> Values]
  /\ pushed \in Nat /\ popped \in Nat
  /\ popped <= pushed /\ pushed <= MaxPush
  /\ stamp \in Seq(Nat) /\ Len(stamp) = pushed
  /\ prod \in [pc : {"idle", "write", "store"}, value : Values, seen : Nat]
  /\ cons \in [pc : {"idle", "read", "store"}, value : Values, seen : Nat]
  /\ obs \in [pc : {"idle", "read"}, write : Nat, read : Nat, seen : Nat]
  /\ prod.seen <= popped /\ cons.seen <= pushed
  /\ obs.write <= pushed /\ obs.read <= popped /\ obs.seen <= popped
  /\ out \in Values

\* The slots are plain memory: two unordered accesses to one of them would be
\* a data race.  While try_push writes a slot, the producer has seen every pop
\* that read it; while try_pop reads a slot, the consumer has seen the push
\* that filled it (the acquire loads of spsc_ring.hpp:55 and :66).
NoDataRace ==
  /\ prod.pc = "write" =>
       \A n \in 0 .. pushed - 1 : Index(n) = Index(pushed) => n < prod.seen
  /\ cons.pc = "read" => popped < cons.seen

\* occupied() never understates: when the read_ it loads has not passed the
\* write_ it loaded before, its result is the exact difference, because the
\* acquire load of write_ also tells how far the producer saw the consumer.
\* (When read_ has passed that write_ the masked difference wraps.)
OccupiedExact == (obs.pc = "idle" /\ obs.read <= obs.write) =>
                   Occupied = obs.write - obs.read

\* The records in the ring, oldest first.
Waiting == [i \in 1 .. pushed - popped |-> slots[Index(popped + i - 1)]]

Fifo == INSTANCE BoundedFifo WITH
  Bound <- Capacity - 1, q <- Waiting, in <- prod.value, out <- out

\* The ring is a bounded FIFO of what the producer offers: no record is lost,
\* duplicated, reordered, overwritten or visible before it is written, with
\* stale indexes and with either process dying inside an operation and being
\* replaced.
IsFifo == Fifo!Spec
==============================================================================
