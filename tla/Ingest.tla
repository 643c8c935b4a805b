------------------------------- MODULE Ingest --------------------------------
(* The ingest process (ingest.cpp): a source thread that reads frames and a  *)
(* frames thread that decodes them, with a BoundedQueue between them         *)
(* (bounded_queue.hpp).  A critical section of the queue is one step; the    *)
(* notify after the unlock is a step of its own.                             *)
EXTENDS Layout

CONSTANT QueueSlots    \* Capacity of the queue; 64 in the code

ASSUME IngestAssumption == QueueSlots \in Nat \ {0}

VARIABLES readable,    \* how many frames the ifstream delivers
          spc, next,   \* the source thread, and how many frames it has read
          fpc, held,   \* the frames thread, and the frame it holds
          queue,       \* slots_, head_ and size_
          closed,      \* closed_
          asleep       \* the threads blocked in ready_.wait

ingest == <<readable, spc, next, fpc, held, queue, closed, asleep>>

IngestInit ==
  /\ readable = 0 /\ spc = "off" /\ next = 0 /\ fpc = "off" /\ held = 0
  /\ queue = <<>> /\ closed = FALSE /\ asleep = {}

\* The process starts its two threads over an empty queue, or is gone ("off").
\* The stream delivers the whole file, or less of it: nothing when it cannot be
\* opened, a part when a read fails.
IngestTo(s, f) ==
  /\ readable' \in IF s = "off" THEN {0} ELSE 0 .. Len(Replay)
  /\ spc' = s /\ next' = 0 /\ fpc' = f /\ held' = 0
  /\ queue' = <<>> /\ closed' = FALSE /\ asleep' = {}

\* notify_one(): some sleeper, if there is one, is woken.
NotifyOne == \/ asleep = {} /\ asleep' = {}
             \/ \E t \in asleep : asleep' = asleep \ {t}

------------------------------------------------------------------------------
(* The source thread *)

\* in.read, then the shutdown flag.  The stream is not asked why it ended: a
\* file that was not opened and a failed read end the loop like the end of file.
SourceRead ==
  /\ spc = "read"
  /\ \/ next = readable /\ spc' = "close" /\ UNCHANGED next
     \/ next < readable /\ Stopped /\ spc' = "close" /\ UNCHANGED next
     \/ next < readable /\ ~ Stopped /\ spc' = "push" /\ next' = next + 1
  /\ UNCHANGED <<readable, fpc, held, queue, closed, asleep>>

\* Mutant: push() does not wait for room.
QueueFullNever == FALSE

QueueFull == Len(queue) = QueueSlots

\* queue.push up to the unlock: wait for closed_ || size_ < Capacity, then
\* return false if closed, else store
SourcePush ==
  /\ spc = "push" /\ "source" \notin asleep
  /\ IF ~ closed /\ QueueFull
     THEN asleep' = asleep \cup {"source"} /\ UNCHANGED <<spc, queue>>
     ELSE /\ spc' = IF closed THEN "close" ELSE "notify"
          /\ queue' = IF closed THEN queue ELSE Append(queue, next)
          /\ UNCHANGED asleep
  /\ UNCHANGED <<readable, next, fpc, held, closed>>

\* queue.push after the unlock; the beat and the pacing sleep
SourceNotify ==
  /\ spc = "notify"
  /\ NotifyOne
  /\ spc' = "read"
  /\ UNCHANGED <<readable, next, fpc, held, queue, closed>>

\* Mutant: close() does not notify.
CloseNotifyMissing == UNCHANGED asleep

\* notify_all()
CloseNotify == asleep' = {}

\* queue.close(): closed_, notify_all
SourceClose ==
  /\ spc = "close"
  /\ closed' = TRUE /\ CloseNotify /\ spc' = "end"
  /\ UNCHANGED <<readable, next, fpc, held, queue>>

------------------------------------------------------------------------------
(* The frames thread *)

\* Mutant: a closed queue is left at once, with what it still holds.
QueueOverEarly == closed

QueueOver == closed /\ queue = <<>>

\* queue.pop up to the unlock
FramesPop ==
  /\ fpc = "pop" /\ "frames" \notin asleep
  /\ \/ QueueOver /\ fpc' = "end" /\ UNCHANGED <<held, queue, asleep>>
     \/ ~ closed /\ queue = <<>> /\ asleep' = asleep \cup {"frames"}
          /\ UNCHANGED <<fpc, held, queue>>
     \/ ~ QueueOver /\ queue # <<>> /\ held' = Head(queue) /\ queue' = Tail(queue)
          /\ fpc' = "notify" /\ UNCHANGED asleep
  /\ UNCHANGED <<readable, spc, next, closed>>

\* Mutant: pop() does not notify.
PopNotifyMissing == UNCHANGED asleep

PopNotify == NotifyOne

\* queue.pop after the unlock, then decode_frame: a bad frame is skipped
FramesNotify ==
  /\ fpc = "notify"
  /\ PopNotify
  /\ fpc' = IF Replay[held].decodes THEN "push" ELSE "pop"
  /\ UNCHANGED <<readable, spc, next, held, queue, closed>>

\* Mutant: the ring takes one record too many.
RingHasRoomLate == Len(ring) <= RingSlots

RingHasRoom == Len(ring) < RingSlots

\* push_record: try_push succeeds, or the ring is full
FramesPush ==
  /\ fpc = "push"
  /\ \/ RingHasRoom /\ ring' = Append(ring, held) /\ fpc' = "pop"
     \/ ~ RingHasRoom /\ fpc' = "full" /\ UNCHANGED ring
  /\ UNCHANGED <<readable, spc, next, held, queue, closed, asleep>>

\* Mutant: a record that finds the ring full is dropped.
TryAgainDropped == "pop"

\* After a yield push_record tries the same record again.
TryAgain == "push"

\* push_record on a full ring: the shutdown flag ends the thread, which does
\* not close the queue
FramesFull ==
  /\ fpc = "full"
  /\ fpc' = IF Stopped THEN "end" ELSE TryAgain
  /\ UNCHANGED <<readable, spc, next, held, queue, closed, asleep>>

\* A condition variable may wake a thread for no reason.
SpuriousWake ==
  /\ \E t \in asleep : asleep' = asleep \ {t}
  /\ UNCHANGED <<readable, spc, next, fpc, held, queue, closed>>

\* Both joins, ingest_done
IngestEnd ==
  /\ spc = "end" /\ fpc = "end" /\ spc' = "exit" /\ fpc' = "exit"
  /\ control' = [control EXCEPT !.ingest_done = 1]
  /\ UNCHANGED <<readable, next, held, queue, closed, asleep, proc>>

\* shm_close, return 0
IngestExit ==
  /\ spc = "exit" /\ fpc = "exit" /\ spc' = "off" /\ fpc' = "off"
  /\ Exit("ingest", "exit0")
  /\ UNCHANGED <<readable, next, held, queue, closed, asleep, control>>

\* The steps of the two threads and of main, with the layout they leave alone.
SourceStep ==
  /\ SourceRead \/ SourcePush \/ SourceNotify \/ SourceClose
  /\ UNCHANGED <<control, ring, proc>>

FramesStep ==
  \/ (FramesPop \/ FramesNotify \/ FramesFull) /\ UNCHANGED <<control, ring, proc>>
  \/ FramesPush /\ UNCHANGED <<control, proc>>

IngestMain == (IngestEnd \/ IngestExit) /\ UNCHANGED ring

IngestStep ==
  \/ SourceStep \/ FramesStep \/ IngestMain
  \/ SpuriousWake /\ UNCHANGED <<control, ring, proc>>

IngestTypeOK ==
  /\ spc \in {"off", "read", "push", "notify", "close", "end", "exit"}
  /\ readable \in 0 .. Len(Replay)
  /\ next \in 0 .. Len(Replay) /\ next <= readable /\ held \in 0 .. Len(Replay)
  /\ fpc \in {"off", "pop", "notify", "push", "full", "end", "exit"}
  /\ queue \in Seq(Records) /\ Len(queue) <= QueueSlots
  /\ closed \in BOOLEAN
  /\ asleep \subseteq {"source", "frames"}
==============================================================================
