----------------------------- MODULE IngestAlone -----------------------------
(* The ingest process between a compute process that drains the ring and a   *)
(* supervisor that may raise the shutdown flag.  The supervisor raises it    *)
(* only once compute has ended, so nothing drains the ring after that        *)
(* (supervisor.cpp:103-117).                                                 *)
EXTENDS Ingest

VARIABLE taken   \* the records drained from the ring, in order

vars == <<control, ring, latest, window, snapshots, proc, ingest, taken>>

Init ==
  /\ LayoutInit
  /\ readable \in 0 .. Len(Replay)
  /\ spc = "read" /\ next = 0 /\ fpc = "pop" /\ held = 0
  /\ queue = <<>> /\ closed = FALSE /\ asleep = {}
  /\ taken = <<>>

Drain ==
  /\ ~ Stopped /\ ring # <<>>
  /\ taken' = Append(taken, Head(ring))
  /\ ring' = Tail(ring)
  /\ UNCHANGED <<control, latest, window, snapshots, proc, ingest>>

RaiseShutdown ==
  /\ ~ Stopped
  /\ control' = [control EXCEPT !.shutdown = 1]
  /\ UNCHANGED <<ring, latest, window, snapshots, proc, ingest, taken>>

Ended == spc = "off"

Rest == UNCHANGED <<latest, window, snapshots, taken>>

\* The process has exited and the ring is left as it is.
Idle == Ended /\ (Stopped \/ ring = <<>>) /\ UNCHANGED vars

Next == (IngestStep /\ Rest) \/ Drain \/ RaiseShutdown \/ Idle

\* Every thread is scheduled and compute keeps draining; nobody has to raise
\* the flag, and no spurious wake-up has to come.
Fairness ==
  /\ WF_vars(SourceStep /\ Rest)
  /\ WF_vars(FramesStep /\ Rest)
  /\ WF_vars(IngestMain /\ Rest)
  /\ WF_vars(Drain)

Spec == Init /\ [][Next]_vars /\ Fairness

------------------------------------------------------------------------------
(* Properties *)

TypeOK == LayoutTypeOK /\ IngestTypeOK /\ taken \in Seq(Records)

Decodes(n) == Replay[n].decodes

\* The number of frames the source thread has handed to the queue.
Handed == IF spc = "push" THEN next - 1 ELSE next

\* The frame the frames thread still has to push.
InHand == IF fpc \in {"notify", "push", "full"} THEN <<held>> ELSE <<>>

\* What has got through to compute or to the ring, and all that is under way.
Through == taken \o ring
Pipe == Through \o (InHand \o queue)

\* Until the flag is raised no frame is lost, duplicated or reordered between
\* the file and compute, over the two threads, the queue and the ring, and
\* only the frames decode_frame refuses are missing: the numbers in the pipe
\* increase, they are numbers of frames handed over, every good one of those is
\* among them, and none but good ones reach the ring.
NothingLost ==
  ~ Stopped =>
    /\ \A i, j \in DOMAIN Pipe : i < j => Pipe[i] < Pipe[j]
    /\ \A i \in DOMAIN Pipe : Pipe[i] \in 1 .. Handed
    /\ \A n \in 1 .. Handed : Decodes(n) => \E i \in DOMAIN Pipe : Pipe[i] = n
    /\ \A i \in DOMAIN Through : Decodes(Through[i])

\* No wake-up is lost on the one condition variable both sides wait on: a
\* thread sleeps only while its predicate is false or the notify that will
\* wake it is still to come, and the two never sleep together.
NoLostWakeup ==
  /\ "source" \in asleep => ~ closed /\ (QueueFull \/ fpc = "notify")
  /\ "frames" \in asleep => ~ closed /\ (queue = <<>> \/ spc = "notify")
  /\ asleep # {"source", "frames"}

\* If the flag is not raised, ingest reads all that the stream delivers, hands
\* over every frame and exits: close() after the last push loses nothing still
\* queued, and neither does a stream that fails at once or half way.
IngestFinishes == <>(Stopped \/ (Ended /\ next = readable /\ queue = <<>>))

\* A raised flag ends the process: "A thread blocked on a full queue also
\* wakes on the shutdown flag" (docs/DESIGN.md).
StopEndsIngest == Stopped ~> Ended
==============================================================================
