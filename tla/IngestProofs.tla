---------------------------- MODULE IngestProofs -----------------------------
(* The ingest process for every file, every size of the queue and of the     *)
(* ring: its types, that no wake-up is lost, and that no frame is lost,      *)
(* duplicated or reordered before the shutdown flag. Then the ring it pushes *)
(* into, step by step, for every capacity and every number of records: free  *)
(* of races, and a bounded FIFO.                                             *)
EXTENDS IngestAlone, SpscRing, SequenceTheorems, TLAPS

------------------------------------------------------------------------------
(* The ingest process: the invariant *)

\* Where the two threads are fits with the queue: only the source thread closes
\* it, last; there is a frame in hand where the code says so; and the ingest
\* process is over with both of its threads.
ThreadsAgree ==
  /\ closed <=> spc \in {"end", "exit", "off"}
  /\ spc \in {"push", "notify"} => next \in Records
  /\ fpc \in {"notify", "push", "full"} => held \in Records
  /\ fpc \in {"push", "full"} => Decodes(held)
  /\ "source" \in asleep => spc = "push"
  /\ "frames" \in asleep => fpc = "pop"

\* How many frames the frames thread is through with.
Finished == Handed - Len(queue) - Len(InHand)

\* The queue and the frame in hand are the last frames handed over, in order.
QueueIsNext ==
  /\ Finished >= 0
  /\ \A i \in 1 .. Len(queue) : queue[i] = Handed - Len(queue) + i
  /\ fpc \in {"notify", "push", "full"} => held = Handed - Len(queue)

\* What got through are the good ones among the frames before those, in order.
ThroughIsGood ==
  /\ \A i, j \in 1 .. Len(Through) : i < j => Through[i] < Through[j]
  /\ \A i \in 1 .. Len(Through) : Through[i] \in 1 .. Finished /\ Decodes(Through[i])
  /\ \A n \in 1 .. Finished : Decodes(n) => \E i \in 1 .. Len(Through) : Through[i] = n

InOrder == ~ Stopped => QueueIsNext /\ ThroughIsGood

IngestInv == TypeOK /\ ThreadsAgree /\ NoLostWakeup /\ InOrder

------------------------------------------------------------------------------
(* The ingest process: types *)

\* What a step does to the mapping it shares with the other processes.
LEMMA LayoutStep ==
  ASSUME TypeOK, ThreadsAgree, [Next]_vars
  PROVE  LayoutTypeOK' /\ taken' \in Seq(Records)
<1>1. LayoutTypeOK /\ IngestTypeOK /\ taken \in Seq(Records)
  BY DEF TypeOK
<1>2. UNCHANGED <<latest, window, snapshots>>
  BY DEF Next, Rest, Drain, RaiseShutdown, Idle, vars
<1>3. CASE UNCHANGED <<control, ring, proc, taken>>
  BY <1>1, <1>2, <1>3 DEF LayoutTypeOK
<1>4. CASE FramesPush /\ UNCHANGED <<control, proc>> /\ Rest
  <2>1. held \in Records
    BY <1>4 DEF FramesPush, ThreadsAgree
  <2>2. ring' \in Seq(Records) /\ Len(ring') <= RingSlots
    <3>1. ring \in Seq(Records) /\ Len(ring) <= RingSlots
      BY <1>1 DEF LayoutTypeOK
    <3>2. CASE ring' = ring
      BY <3>1, <3>2
    <3>3. CASE Len(ring) < RingSlots /\ ring' = Append(ring, held)
      <4>1. Len(ring') = Len(ring) + 1 /\ ring' \in Seq(Records)
        BY <2>1, <3>1, <3>3, AppendProperties
      <4> QED BY <3>1, <3>3, <4>1, LayoutAssumption, LenProperties
    <3> QED BY <1>4, <3>2, <3>3 DEF FramesPush, RingHasRoom
  <2> QED BY <1>1, <1>2, <1>4, <2>2 DEF LayoutTypeOK, Rest
<1>5. CASE Drain
  <2>1. ring \in Seq(Records) /\ Len(ring) <= RingSlots /\ ring # <<>>
    BY <1>1, <1>5 DEF LayoutTypeOK, Drain
  <2>2. Head(ring) \in Records /\ Tail(ring) \in Seq(Records) /\ Len(Tail(ring)) = Len(ring) - 1
    BY <2>1, HeadTailProperties
  <2>3. ring' \in Seq(Records) /\ Len(ring') <= RingSlots
    BY <1>5, <2>1, <2>2, LayoutAssumption, LenProperties DEF Drain
  <2>4. taken' \in Seq(Records)
    BY <1>1, <1>5, <2>2, AppendProperties DEF Drain
  <2> QED BY <1>1, <1>2, <1>5, <2>3, <2>4 DEF LayoutTypeOK, Drain
<1>6. CASE RaiseShutdown
  BY <1>1, <1>2, <1>6, Zenon DEF LayoutTypeOK, RaiseShutdown, Flag
<1>7. CASE (IngestEnd \/ IngestExit) /\ UNCHANGED ring /\ Rest
  BY <1>1, <1>2, <1>7, Zenon DEF LayoutTypeOK, IngestEnd, IngestExit, Exit, Roles, ProcStates, Rest, Flag
<1> QED
  BY <1>3, <1>4, <1>5, <1>6, <1>7, Zenon
  DEF Next, IngestStep, SourceStep, FramesStep, IngestMain, Rest, Idle, vars

\* What a step does to the two threads and their queue.
LEMMA ThreadTypes ==
  ASSUME TypeOK, ThreadsAgree, [Next]_vars
  PROVE  IngestTypeOK'
<1>1. LayoutTypeOK /\ IngestTypeOK
  BY DEF TypeOK
<1>2. /\ queue \in Seq(Records) /\ Len(queue) \in Nat /\ Len(queue) <= QueueSlots
      /\ QueueSlots \in Nat /\ Len(Replay) \in Nat
  BY <1>1, IngestAssumption, LayoutAssumption, LenProperties DEF IngestTypeOK
<1>3. CASE SourceRead
  BY <1>1, <1>2, <1>3 DEF SourceRead, IngestTypeOK
<1>4. CASE SourcePush
  <2>1. queue' \in Seq(Records) /\ Len(queue') <= QueueSlots
    <3>1. CASE queue' = queue
      BY <1>2, <3>1
    <3>2. CASE ~ closed /\ ~ QueueFull /\ queue' = Append(queue, next)
      <4>1. next \in Records
        BY <1>4 DEF SourcePush, ThreadsAgree
      <4>2. queue' \in Seq(Records) /\ Len(queue') = Len(queue) + 1
        BY <1>2, <3>2, <4>1, AppendProperties
      <4> QED BY <1>2, <3>2, <4>2 DEF QueueFull
    <3> QED BY <1>4, <3>1, <3>2 DEF SourcePush
  <2> QED BY <1>1, <1>4, <2>1, Zenon DEF SourcePush, IngestTypeOK
<1>5. CASE SourceNotify \/ SourceClose \/ FramesNotify \/ FramesFull \/ SpuriousWake
  BY <1>1, <1>5, Zenon
  DEF SourceNotify, SourceClose, FramesNotify, FramesFull, SpuriousWake, IngestTypeOK,
      NotifyOne, PopNotify, CloseNotify, TryAgain
<1>6. CASE FramesPop
  <2>1. CASE queue # <<>> /\ held' = Head(queue) /\ queue' = Tail(queue) /\ fpc' = "notify"
             /\ UNCHANGED asleep
    <3>1. /\ Head(queue) \in Records /\ Tail(queue) \in Seq(Records)
          /\ Len(Tail(queue)) = Len(queue) - 1
      BY <1>2, <2>1, HeadTailProperties
    <3>2. held' \in 0 .. Len(Replay) /\ Len(queue') <= QueueSlots
      BY <1>2, <2>1, <3>1 DEF Records
    <3> QED BY <1>1, <1>6, <2>1, <3>1, <3>2 DEF FramesPop, IngestTypeOK
  <2>2. CASE fpc' \in {fpc, "end"} /\ asleep' \in {asleep, asleep \cup {"frames"}}
             /\ UNCHANGED <<held, queue>>
    BY <1>1, <1>6, <2>2 DEF FramesPop, IngestTypeOK
  <2> QED BY <1>6, <2>1, <2>2, Zenon DEF FramesPop
<1>7. CASE FramesPush
  BY <1>1, <1>7 DEF FramesPush, IngestTypeOK
<1>8. CASE IngestEnd \/ IngestExit
  BY <1>1, <1>8 DEF IngestEnd, IngestExit, IngestTypeOK
<1>9. CASE UNCHANGED ingest
  BY <1>1, <1>9 DEF ingest, IngestTypeOK
<1> QED
  BY <1>3, <1>4, <1>5, <1>6, <1>7, <1>8, <1>9, Zenon
  DEF Next, IngestStep, SourceStep, FramesStep, IngestMain, Drain, RaiseShutdown, Idle, vars

------------------------------------------------------------------------------
(* The ingest process: the threads and their wake-ups *)

\* The threads stay where the invariant says, relative to the queue.
LEMMA ThreadsStep ==
  ASSUME TypeOK, ThreadsAgree, [Next]_vars
  PROVE  ThreadsAgree'
<1>1. IngestTypeOK
  BY DEF TypeOK
<1>2. CASE SourceRead
  <2>1. next < Len(Replay) => next + 1 \in Records
    BY <1>1, LayoutAssumption, LenProperties DEF IngestTypeOK, Records
  <2> QED BY <1>1, <1>2, <2>1 DEF SourceRead, IngestTypeOK, ThreadsAgree, Decodes
<1>3. CASE SourcePush
  BY <1>3 DEF SourcePush, ThreadsAgree, Decodes
<1>4. CASE SourceNotify \/ SourceClose \/ FramesNotify \/ FramesFull \/ SpuriousWake
  BY <1>4
  DEF SourceNotify, SourceClose, FramesNotify, FramesFull, SpuriousWake, ThreadsAgree,
      NotifyOne, PopNotify, CloseNotify, TryAgain, Decodes
<1>5. CASE FramesPop
  <2>1. queue # <<>> => Head(queue) \in Records
    BY <1>1, HeadTailProperties DEF IngestTypeOK
  <2> QED BY <1>5, <2>1 DEF FramesPop, ThreadsAgree, Decodes
<1>6. CASE FramesPush
  BY <1>6 DEF FramesPush, ThreadsAgree, Decodes
<1>7. CASE IngestEnd \/ IngestExit
  BY <1>7 DEF IngestEnd, IngestExit, ThreadsAgree, Decodes
<1>8. CASE UNCHANGED ingest
  BY <1>8 DEF ingest, ThreadsAgree, Decodes
<1> QED
  BY <1>2, <1>3, <1>4, <1>5, <1>6, <1>7, <1>8, Zenon
  DEF Next, IngestStep, SourceStep, FramesStep, IngestMain, Drain, RaiseShutdown, Idle, vars

\* A notify finds the one thread it is for, a thread that goes to sleep has
\* tested its predicate in the same critical section, and both cannot sleep:
\* the queue would be full and empty.
LEMMA WakeStep ==
  ASSUME TypeOK, ThreadsAgree, ThreadsAgree', NoLostWakeup, [Next]_vars
  PROVE  NoLostWakeup'
<1>1. IngestTypeOK
  BY DEF TypeOK
<1>2. QueueFull => queue # <<>>
  BY <1>1, IngestAssumption, EmptySeq DEF QueueFull
<1>3. CASE SourceRead
  BY <1>3 DEF SourceRead, NoLostWakeup, QueueFull, ThreadsAgree
<1>4. CASE SourcePush
  BY <1>1, <1>2, <1>4 DEF SourcePush, NoLostWakeup, QueueFull, ThreadsAgree
<1>5. CASE SourceNotify
  BY <1>1, <1>5 DEF SourceNotify, NotifyOne, NoLostWakeup, QueueFull, ThreadsAgree, IngestTypeOK
<1>6. CASE SourceClose
  BY <1>6 DEF SourceClose, CloseNotify, NoLostWakeup
<1>7. CASE FramesPop
  BY <1>1, <1>2, <1>7 DEF FramesPop, NoLostWakeup, QueueFull, QueueOver, ThreadsAgree
<1>8. CASE FramesNotify
  BY <1>1, <1>8
  DEF FramesNotify, PopNotify, NotifyOne, NoLostWakeup, QueueFull, ThreadsAgree, IngestTypeOK
<1>9. CASE FramesPush \/ FramesFull
  BY <1>9 DEF FramesPush, FramesFull, TryAgain, NoLostWakeup, QueueFull, ThreadsAgree
<1>10. CASE SpuriousWake
  BY <1>1, <1>10 DEF SpuriousWake, NoLostWakeup, QueueFull, IngestTypeOK
<1>11. CASE IngestEnd \/ IngestExit
  BY <1>11 DEF IngestEnd, IngestExit, NoLostWakeup, QueueFull, ThreadsAgree
<1>12. CASE UNCHANGED ingest
  BY <1>12 DEF ingest, NoLostWakeup, QueueFull
<1> QED
  BY <1>3, <1>4, <1>5, <1>6, <1>7, <1>8, <1>9, <1>10, <1>11, <1>12, Zenon
  DEF Next, IngestStep, SourceStep, FramesStep, IngestMain, Drain, RaiseShutdown, Idle, vars

------------------------------------------------------------------------------
(* The ingest process: the order of the frames *)

\* Draining moves the boundary between ring and taken, and nothing else.
LEMMA DrainKeeps ==
  ASSUME NEW S, NEW s \in Seq(S), NEW t \in Seq(S), t # <<>>
  PROVE  Append(s, Head(t)) \o Tail(t) = s \o t
<1>1. Head(t) \in S /\ Tail(t) \in Seq(S) /\ t = <<Head(t)>> \o Tail(t)
  <2>1. Head(t) \in S /\ Tail(t) \in Seq(S) /\ Len(Tail(t)) = Len(t) - 1 /\ Len(t) \in Nat
        /\ Len(t) > 0
    BY HeadTailProperties, LenProperties, EmptySeq
  <2> DEFINE u == <<Head(t)>> \o Tail(t)
  <2>2. u \in Seq(S) /\ Len(u) = Len(t) /\ \A i \in 1 .. Len(t) : u[i] = t[i]
    BY <2>1, HeadTailProperties
  <2>3. u = t
    BY <2>2, SeqEqual, Zenon
  <2> QED BY <2>1, <2>3
<1>2. Append(s, Head(t)) = s \o <<Head(t)>> /\ <<Head(t)>> \in Seq(S)
  BY <1>1, AppendIsConcat
<1>3. (s \o <<Head(t)>>) \o Tail(t) = s \o (<<Head(t)>> \o Tail(t))
  BY <1>1, <1>2, ConcatAssociative
<1> QED BY <1>1, <1>2, <1>3

\* A push to the ring is a push to the end of what got through.
LEMMA PushAppends ==
  ASSUME NEW S, NEW s \in Seq(S), NEW t \in Seq(S), NEW x \in S
  PROVE  s \o Append(t, x) = Append(s \o t, x)
<1>1. Append(t, x) = t \o <<x>> /\ <<x>> \in Seq(S) /\ s \o t \in Seq(S)
  BY AppendIsConcat, ConcatProperties
<1>2. Append(s \o t, x) = (s \o t) \o <<x>>
  BY <1>1, AppendIsConcat
<1>3. (s \o t) \o <<x>> = s \o (t \o <<x>>)
  BY <1>1, ConcatAssociative
<1> QED BY <1>1, <1>2, <1>3

\* The counts of QueueIsNext and ThroughIsGood are integers.
LEMMA Counts ==
  ASSUME TypeOK, ThreadsAgree
  PROVE  /\ Handed \in Nat /\ Handed <= Len(Replay)
         /\ queue \in Seq(Records) /\ Len(queue) \in Nat
         /\ Len(InHand) = IF fpc \in {"notify", "push", "full"} THEN 1 ELSE 0
         /\ Finished \in Int
         /\ taken \in Seq(Records) /\ ring \in Seq(Records)
         /\ Through \in Seq(Records) /\ Len(Through) \in Nat
<1>1. IngestTypeOK /\ LayoutTypeOK /\ taken \in Seq(Records)
  BY DEF TypeOK
<1>2. Handed \in Nat /\ Handed <= Len(Replay)
  BY <1>1, LayoutAssumption, LenProperties DEF Handed, IngestTypeOK, ThreadsAgree, Records
<1>3. queue \in Seq(Records) /\ Len(queue) \in Nat
  BY <1>1, LenProperties DEF IngestTypeOK
<1>4. Len(InHand) = IF fpc \in {"notify", "push", "full"} THEN 1 ELSE 0
  BY DEF InHand
<1>5. ring \in Seq(Records) /\ Through \in Seq(Records) /\ Len(Through) \in Nat
  BY <1>1, ConcatProperties, LenProperties DEF Through, LayoutTypeOK
<1>6. Finished \in Int
  BY <1>2, <1>3, <1>4 DEF Finished
<1> QED BY <1>1, <1>2, <1>3, <1>4, <1>5, <1>6, Zenon

\* Every frame keeps its place: a step hands one over, takes one from the queue,
\* finishes one (pushed if it decodes, dropped if not) or moves none.
LEMMA OrderStep ==
  ASSUME TypeOK, ThreadsAgree, TypeOK', ThreadsAgree', InOrder, [Next]_vars
  PROVE  InOrder'
<1> DEFINE busy == fpc \in {"notify", "push", "full"}
<1>1. /\ Handed \in Nat /\ Len(queue) \in Nat /\ queue \in Seq(Records) /\ Finished \in Int
      /\ taken \in Seq(Records) /\ ring \in Seq(Records)
      /\ Through \in Seq(Records) /\ Len(Through) \in Nat
  BY Counts
<1>2. Finished = Handed - Len(queue) - (IF busy THEN 1 ELSE 0)
  BY Counts, Zenon DEF Finished
<1>3. Finished' = Handed' - Len(queue') - (IF busy' THEN 1 ELSE 0)
  <2>1. Len(InHand)' = IF busy' THEN 1 ELSE 0
    BY DEF InHand
  <2> QED BY <2>1 DEF Finished
<1> SUFFICES ASSUME ~ Stopped'
             PROVE  QueueIsNext' /\ ThroughIsGood'
  BY DEF InOrder
<1>4. ~ Stopped
  BY DEF Next, IngestStep, SourceStep, FramesStep, IngestMain, IngestEnd, IngestExit, Drain, RaiseShutdown,
         Idle, vars, Stopped, TypeOK, LayoutTypeOK
<1>5. QueueIsNext /\ ThroughIsGood
  BY <1>4 DEF InOrder
\* Steps that move no frame.
<1>6. ASSUME Handed' = Handed, queue' = queue, Through' = Through,
             busy' = busy, busy => held' = held
      PROVE  QueueIsNext' /\ ThroughIsGood'
  <2>1. Finished' = Finished
    BY <1>2, <1>3, <1>6
  <2>2. QueueIsNext'
    BY <1>5, <1>6, <2>1 DEF QueueIsNext
  <2>3. ThroughIsGood'
    BY <1>5, <1>6, <2>1 DEF ThroughIsGood, Decodes
  <2> QED BY <2>2, <2>3
<1>7. CASE SourceRead /\ UNCHANGED <<ring, taken>>
  <2>1. Handed' = Handed
    <3>1. next \in Int
      BY LayoutAssumption, LenProperties DEF TypeOK, IngestTypeOK
    <3>2. (next + 1) - 1 = next
      BY <3>1
    <3> QED BY <1>7, <3>2 DEF SourceRead, Handed
  <2> QED BY <1>6, <1>7, <2>1 DEF SourceRead, Through
<1>8. CASE SourcePush /\ UNCHANGED <<ring, taken>>
  <2>1. ~ closed
    BY <1>8 DEF SourcePush, ThreadsAgree
  <2>2. CASE QueueFull
    BY <1>6, <1>8, <2>1, <2>2 DEF SourcePush, Through, Handed
  <2>3. CASE ~ QueueFull
    <3>1. /\ queue' = Append(queue, next) /\ Handed' = next /\ Handed = next - 1
          /\ next \in Records /\ busy' = busy /\ held' = held /\ Through' = Through
      BY <1>8, <2>1, <2>3 DEF SourcePush, Through, Handed, ThreadsAgree
    <3>2. /\ Len(queue') = Len(queue) + 1 /\ queue'[Len(queue) + 1] = next
          /\ \A i \in 1 .. Len(queue) : queue'[i] = queue[i]
      BY <1>1, <3>1, AppendProperties
    <3>3. next \in Int /\ Handed' = Handed + 1
      BY <1>1, <3>1 DEF Records
    <3>4. Finished' = Finished
      BY <1>1, <1>2, <1>3, <3>1, <3>2, <3>3
    <3>5. \A i \in 1 .. Len(queue') : queue'[i] = Handed' - Len(queue') + i
      BY <1>1, <1>5, <3>1, <3>2, <3>3 DEF QueueIsNext
    <3>6. busy' => held' = Handed' - Len(queue')
      BY <1>1, <1>5, <3>1, <3>2, <3>3 DEF QueueIsNext
    <3> QED BY <1>5, <3>1, <3>4, <3>5, <3>6 DEF QueueIsNext, ThroughIsGood, Decodes
  <2> QED BY <2>2, <2>3
<1>9. CASE (SourceNotify \/ SourceClose \/ FramesFull \/ SpuriousWake)
           /\ UNCHANGED <<ring, taken, control>>
  BY <1>4, <1>6, <1>9
  DEF SourceNotify, SourceClose, FramesFull, SpuriousWake, TryAgain, Handed, Through, Stopped
<1>10. CASE FramesPop /\ UNCHANGED <<ring, taken>>
  <2>1. CASE queue # <<>> /\ held' = Head(queue) /\ queue' = Tail(queue) /\ fpc' = "notify"
    <3>1. /\ Handed' = Handed /\ Through' = Through /\ busy' /\ ~ busy
      BY <1>10, <2>1 DEF FramesPop, Handed, Through
    <3>2. /\ Len(queue) > 0 /\ Len(queue') = Len(queue) - 1 /\ held' = queue[1]
          /\ \A i \in 1 .. Len(queue') : queue'[i] = queue[i + 1]
      BY <1>1, <2>1, HeadTailProperties, EmptySeq
    <3>3. Finished' = Finished
      BY <1>1, <1>2, <1>3, <3>1, <3>2
    <3>4. held' = Handed' - Len(queue')
      BY <1>1, <1>5, <3>1, <3>2 DEF QueueIsNext
    <3>5. \A i \in 1 .. Len(queue') : queue'[i] = Handed' - Len(queue') + i
      BY <1>1, <1>5, <3>1, <3>2 DEF QueueIsNext
    <3> QED BY <1>5, <3>1, <3>3, <3>4, <3>5 DEF QueueIsNext, ThroughIsGood, Decodes
  <2>2. CASE fpc' \in {"pop", "end"} /\ UNCHANGED <<held, queue>>
    BY <1>6, <1>10, <2>2 DEF FramesPop, Handed, Through
  <2> QED BY <1>10, <2>1, <2>2 DEF FramesPop
<1>11. CASE FramesNotify /\ UNCHANGED <<ring, taken>>
  <2>1. Handed' = Handed /\ queue' = queue /\ Through' = Through /\ held' = held /\ busy
    BY <1>11 DEF FramesNotify, Handed, Through
  <2>2. CASE Decodes(held)
    BY <1>6, <1>11, <2>1, <2>2 DEF FramesNotify, Decodes
  <2>3. CASE ~ Decodes(held)
    <3>1. ~ busy'
      BY <1>11, <2>3 DEF FramesNotify, Decodes
    <3>2. Finished' = Finished + 1 /\ held = Finished + 1 /\ Finished >= 0
      BY <1>1, <1>2, <1>3, <1>5, <2>1, <3>1 DEF QueueIsNext
    <3>3. QueueIsNext'
      BY <1>1, <1>5, <2>1, <3>1, <3>2 DEF QueueIsNext
    <3>4. \A n \in 1 .. Finished' : Decodes(n) => n \in 1 .. Finished
      BY <1>1, <2>3, <3>2
    <3>5. \A n \in 1 .. Finished : n \in 1 .. Finished'
      BY <1>1, <3>2
    <3>6. ThroughIsGood'
      BY <1>5, <2>1, <3>4, <3>5 DEF ThroughIsGood, Decodes
    <3> QED BY <3>3, <3>6
  <2> QED BY <2>2, <2>3
<1>12. CASE FramesPush /\ UNCHANGED taken
  <2>1. Handed' = Handed /\ queue' = queue /\ held' = held /\ busy /\ Decodes(held)
        /\ held \in Records
    BY <1>12 DEF FramesPush, Handed, ThreadsAgree
  <2>2. CASE ring' = ring /\ fpc' = "full"
    BY <1>6, <1>12, <2>1, <2>2 DEF Through
  <2>3. CASE ring' = Append(ring, held) /\ fpc' = "pop"
    <3>1. Finished' = Finished + 1 /\ held = Finished + 1 /\ Finished >= 0
      BY <1>1, <1>2, <1>3, <1>5, <2>1, <2>3 DEF QueueIsNext
    <3>2. QueueIsNext'
      BY <1>1, <1>5, <2>1, <2>3, <3>1 DEF QueueIsNext
    <3>3. Through' = Append(Through, held)
      BY <1>1, <1>12, <2>1, <2>3, PushAppends DEF Through
    <3>4. /\ Len(Through') = Len(Through) + 1 /\ Through'[Len(Through) + 1] = held
          /\ \A i \in 1 .. Len(Through) : Through'[i] = Through[i]
      BY <1>1, <2>1, <3>3, AppendProperties
    <3>5. \A i, j \in 1 .. Len(Through') : i < j => Through'[i] < Through'[j]
      <4> SUFFICES ASSUME NEW i \in 1 .. Len(Through'), NEW j \in 1 .. Len(Through'), i < j
                   PROVE  Through'[i] < Through'[j]
        OBVIOUS
      <4>1. i \in 1 .. Len(Through) /\ (j \in 1 .. Len(Through) \/ j = Len(Through) + 1)
        BY <1>1, <3>4
      <4>2. Through[i] \in 1 .. Finished
        BY <1>5, <4>1 DEF ThroughIsGood
      <4>3. CASE j \in 1 .. Len(Through)
        BY <1>5, <3>4, <4>1, <4>3 DEF ThroughIsGood
      <4>4. CASE j = Len(Through) + 1
        BY <1>1, <3>1, <3>4, <4>1, <4>2, <4>4
      <4> QED BY <4>1, <4>3, <4>4
    <3>6. \A i \in 1 .. Len(Through') : Through'[i] \in 1 .. Finished' /\ Decodes(Through'[i])
      <4> SUFFICES ASSUME NEW i \in 1 .. Len(Through')
                   PROVE  Through'[i] \in 1 .. Finished' /\ Decodes(Through'[i])
        OBVIOUS
      <4>1. i \in 1 .. Len(Through) \/ i = Len(Through) + 1
        BY <1>1, <3>4
      <4>2. CASE i \in 1 .. Len(Through)
        <5>1. Through[i] \in 1 .. Finished /\ Decodes(Through[i]) /\ Through'[i] = Through[i]
          BY <1>5, <3>4, <4>2 DEF ThroughIsGood
        <5>2. \A n \in 1 .. Finished : n \in 1 .. Finished'
          BY <1>1, <3>1
        <5> QED BY <5>1, <5>2
      <4>3. CASE i = Len(Through) + 1
        BY <1>1, <2>1, <3>1, <3>4, <4>3
      <4> QED BY <4>1, <4>2, <4>3
    <3>7. \A n \in 1 .. Finished' : Decodes(n) => \E i \in 1 .. Len(Through') : Through'[i] = n
      <4> SUFFICES ASSUME NEW n \in 1 .. Finished', Decodes(n)
                   PROVE  \E i \in 1 .. Len(Through') : Through'[i] = n
        OBVIOUS
      <4>1. n \in 1 .. Finished \/ n = held
        BY <1>1, <3>1
      <4>2. CASE n \in 1 .. Finished
        <5>1. PICK i \in 1 .. Len(Through) : Through[i] = n
          BY <1>5, <4>2 DEF ThroughIsGood
        <5>2. i \in 1 .. Len(Through') /\ Through'[i] = n
          BY <1>1, <3>4, <5>1
        <5> QED BY <5>2
      <4>3. CASE n = held
        <5>1. Len(Through) + 1 \in 1 .. Len(Through')
          BY <1>1, <3>4
        <5> QED BY <3>4, <4>3, <5>1
      <4> QED BY <4>1, <4>2, <4>3
    <3>8. ThroughIsGood'
      BY <3>5, <3>6, <3>7 DEF ThroughIsGood, Decodes
    <3> QED BY <3>2, <3>8
  <2> QED BY <1>12, <2>2, <2>3 DEF FramesPush
<1>13. CASE (IngestEnd \/ IngestExit) /\ UNCHANGED <<ring, taken>>
  BY <1>6, <1>13 DEF IngestEnd, IngestExit, Handed, Through
<1>14. CASE Drain
  <2>1. Through' = Through
    BY <1>1, <1>14, DrainKeeps DEF Drain, Through
  <2> QED BY <1>6, <1>14, <2>1 DEF Drain, ingest, Handed
<1>15. CASE RaiseShutdown
  BY <1>15 DEF RaiseShutdown, Stopped, TypeOK, LayoutTypeOK
<1>16. CASE UNCHANGED vars
  BY <1>6, <1>16 DEF vars, ingest, Handed, Through
<1> QED
  BY <1>7, <1>8, <1>9, <1>10, <1>11, <1>12, <1>13, <1>14, <1>15, <1>16, Zenon
  DEF Next, IngestStep, SourceStep, FramesStep, IngestMain, Idle, Rest

------------------------------------------------------------------------------
(* The ingest process: the theorems *)

\* The inductive invariant of the ingest process.
THEOREM IngestInvariant == Spec => []IngestInv
<1>1. Init => IngestInv
  <2> SUFFICES ASSUME Init PROVE IngestInv
    OBVIOUS
  <2>1. /\ spc = "read" /\ next = 0 /\ fpc = "pop" /\ held = 0 /\ queue = <<>>
        /\ closed = FALSE /\ asleep = {} /\ taken = <<>> /\ ring = <<>>
    BY DEF Init, LayoutInit
  <2>2. <<>> \in Seq(Records) /\ Len(<<>>) = 0 /\ <<>> \o <<>> = <<>>
    BY EmptySeq, ConcatEmptySeq
  <2>3. Len(Replay) \in Nat /\ QueueSlots \in Nat /\ RingSlots \in Nat
    BY LayoutAssumption, IngestAssumption, LenProperties
  <2>4. IngestTypeOK
    <3>1. queue \in Seq(Records) /\ Len(queue) = 0
      BY <2>1, <2>2
    <3>2. readable \in 0 .. Len(Replay)
      BY DEF Init
    <3>3. 0 \in 0 .. Len(Replay) /\ 0 <= QueueSlots /\ 0 <= readable
      BY <2>3, <3>2
    <3> QED BY <2>1, <3>1, <3>2, <3>3, Zenon DEF IngestTypeOK
  <2>5. EmptyRow \in Row /\ EmptyRows \in [Sources -> Row]
    BY DEF EmptyRow, EmptyRows, Row
  <2>6. LayoutTypeOK
    <3>1. latest \in [Sources -> Row] /\ window \in [Sources -> Row]
      BY <2>5 DEF Init, LayoutInit
    <3>2. snapshots \in [last : Snapshot, fresh : BOOLEAN]
      BY <2>5 DEF Init, LayoutInit, Snapshot, EmptySnapshot
    <3>3. ring \in Seq(Records) /\ Len(ring) <= RingSlots
      BY <2>1, <2>2, <2>3
    <3>4. proc \in [Roles -> ProcStates]
      BY DEF Init, LayoutInit, ProcStates
    <3>5. NoBeats \in [Stages -> Beats]
      BY DEF NoBeats, Beats
    <3>6. FreshControl \in
            [shutdown : Flag, generation : Nat, ingest_done : Flag,
             fast_done : Flag, window_done : Flag, snapshot_done : Flag,
             compute_done : Flag, fault : Flag, heartbeat : [Stages -> Beats]]
      BY <3>5 DEF FreshControl, Flag
    <3> QED BY <3>1, <3>2, <3>3, <3>4, <3>6, Zenon DEF Init, LayoutInit, LayoutTypeOK
  <2>7. TypeOK
    BY <2>1, <2>2, <2>4, <2>6 DEF TypeOK
  <2>8. ThreadsAgree /\ NoLostWakeup
    BY <2>1 DEF ThreadsAgree, NoLostWakeup
  <2>9. Handed = 0 /\ Through = <<>> /\ InHand = <<>>
    BY <2>1, <2>2 DEF Handed, Through, InHand
  <2>10. Finished = 0
    <3>1. Len(queue) = 0 /\ Len(InHand) = 0
      BY <2>1, <2>2, <2>9, Zenon
    <3>2. 0 - 0 - 0 = 0
      OBVIOUS
    <3> QED BY <2>9, <3>1, <3>2, Zenon DEF Finished
  <2>11. QueueIsNext /\ ThroughIsGood
    BY <2>1, <2>2, <2>9, <2>10 DEF QueueIsNext, ThroughIsGood
  <2> QED BY <2>7, <2>8, <2>11 DEF IngestInv, InOrder
<1>2. IngestInv /\ [Next]_vars => IngestInv'
  <2> SUFFICES ASSUME IngestInv, [Next]_vars PROVE IngestInv'
    OBVIOUS
  <2>1. TypeOK /\ ThreadsAgree /\ NoLostWakeup /\ InOrder
    BY DEF IngestInv
  <2>2. LayoutTypeOK' /\ taken' \in Seq(Records)
    BY <2>1, LayoutStep
  <2>3. IngestTypeOK'
    BY <2>1, ThreadTypes
  <2>4. TypeOK'
    BY <2>2, <2>3 DEF TypeOK
  <2>5. ThreadsAgree'
    BY <2>1, ThreadsStep
  <2>6. NoLostWakeup'
    BY <2>1, <2>5, WakeStep
  <2>7. InOrder'
    BY <2>1, <2>4, <2>5, OrderStep
  <2> QED BY <2>4, <2>5, <2>6, <2>7 DEF IngestInv
<1> QED BY <1>1, <1>2, PTL DEF Spec

\* TypeOK for every file, queue and ring: the queue and the ring never hold more
\* than they have slots, and a thread holds a frame where the code uses one.
THEOREM IngestTypes == Spec => []TypeOK
<1>1. IngestInv => TypeOK
  BY DEF IngestInv
<1> QED BY <1>1, IngestInvariant, PTL

\* NoLostWakeup for every size of the queue: notify_one on the one condition
\* variable of BoundedQueue always finds the thread it is meant for.
THEOREM WakeupsArrive == Spec => []NoLostWakeup
<1>1. IngestInv => NoLostWakeup
  BY DEF IngestInv
<1> QED BY <1>1, IngestInvariant, PTL

\* Two increasing sequences, the second above the first, make an increasing one.
LEMMA ConcatIncreases ==
  ASSUME NEW s \in Seq(Int), NEW t \in Seq(Int),
         \A i, j \in 1 .. Len(s) : i < j => s[i] < s[j],
         \A i, j \in 1 .. Len(t) : i < j => t[i] < t[j],
         \A i \in 1 .. Len(s), j \in 1 .. Len(t) : s[i] < t[j]
  PROVE  \A i, j \in 1 .. Len(s \o t) : i < j => (s \o t)[i] < (s \o t)[j]
<1>1. /\ Len(s) \in Nat /\ Len(t) \in Nat /\ Len(s \o t) = Len(s) + Len(t)
      /\ \A i \in 1 .. Len(s) + Len(t) :
           (s \o t)[i] = IF i <= Len(s) THEN s[i] ELSE t[i - Len(s)]
  BY ConcatProperties, LenProperties
<1> SUFFICES ASSUME NEW i \in 1 .. Len(s \o t), NEW j \in 1 .. Len(s \o t), i < j
             PROVE  (s \o t)[i] < (s \o t)[j]
  OBVIOUS
<1>2. CASE j <= Len(s)
  <2>1. i \in 1 .. Len(s) /\ j \in 1 .. Len(s)
    BY <1>1, <1>2
  <2> QED BY <1>1, <1>2, <2>1
<1>3. CASE ~ (j <= Len(s)) /\ i <= Len(s)
  <2>1. i \in 1 .. Len(s) /\ j - Len(s) \in 1 .. Len(t)
    BY <1>1, <1>3
  <2>2. (s \o t)[i] = s[i] /\ (s \o t)[j] = t[j - Len(s)]
    BY <1>1, <1>3
  <2> QED BY <2>1, <2>2
<1>4. CASE ~ (i <= Len(s))
  <2>1. i - Len(s) \in 1 .. Len(t) /\ j - Len(s) \in 1 .. Len(t) /\ i - Len(s) < j - Len(s)
    BY <1>1, <1>4
  <2>2. (s \o t)[i] = t[i - Len(s)] /\ (s \o t)[j] = t[j - Len(s)]
    BY <1>1, <1>4
  <2> QED BY <2>1, <2>2, Zenon
<1> QED BY <1>2, <1>3, <1>4

\* The frame in hand and the queue hold the consecutive frames after the last
\* finished one.
LEMMA UnderWay ==
  ASSUME TypeOK, ThreadsAgree, QueueIsNext
  PROVE  /\ InHand \o queue \in Seq(Int) /\ Len(InHand \o queue) = Handed - Finished
         /\ \A i \in 1 .. Len(InHand \o queue) : (InHand \o queue)[i] = Finished + i
<1>1. /\ Handed \in Nat /\ queue \in Seq(Records) /\ Len(queue) \in Nat
      /\ Len(InHand) = IF fpc \in {"notify", "push", "full"} THEN 1 ELSE 0
  BY Counts
<1>2. queue \in Seq(Int) /\ InHand \in Seq(Int)
  <2>1. Records \subseteq Int
    BY DEF Records
  <2>2. queue \in Seq(Int)
    BY <1>1, <2>1, SeqMonotonic, Zenon
  <2>3. fpc \in {"notify", "push", "full"} => held \in Int
    BY <2>1, Zenon DEF ThreadsAgree
  <2> QED BY <2>2, <2>3 DEF InHand
<1>3. CASE fpc \in {"notify", "push", "full"}
  <2>1. InHand = <<held>> /\ held = Handed - Len(queue) /\ Finished = Handed - Len(queue) - 1
    BY <1>1, <1>3 DEF InHand, QueueIsNext, Finished
  <2>2. /\ InHand \o queue \in Seq(Int) /\ Len(InHand \o queue) = 1 + Len(queue)
        /\ \A i \in 1 .. 1 + Len(queue) :
             (InHand \o queue)[i] = IF i <= 1 THEN InHand[i] ELSE queue[i - 1]
    <3>1. /\ InHand \o queue \in Seq(Int) /\ Len(InHand \o queue) = Len(InHand) + Len(queue)
          /\ \A i \in 1 .. Len(InHand) + Len(queue) :
               (InHand \o queue)[i] = IF i <= Len(InHand) THEN InHand[i] ELSE queue[i - Len(InHand)]
      BY <1>2, ConcatProperties
    <3>2. Len(InHand) = 1
      BY <1>1, <1>3
    <3> QED BY <3>1, <3>2
  <2>3. \A i \in 1 .. 1 + Len(queue) : (InHand \o queue)[i] = Finished + i
    <3> SUFFICES ASSUME NEW i \in 1 .. 1 + Len(queue)
                 PROVE  (InHand \o queue)[i] = Finished + i
      BY Zenon
    <3>1. CASE i <= 1
      <4>1. i = 1 /\ (InHand \o queue)[i] = InHand[i]
        BY <1>1, <2>2, <3>1
      <4>2. InHand[1] = held
        BY <2>1
      <4> QED BY <1>1, <2>1, <4>1, <4>2
    <3>2. CASE ~ (i <= 1)
      <4>1. i - 1 \in 1 .. Len(queue) /\ (InHand \o queue)[i] = queue[i - 1]
        BY <1>1, <2>2, <3>2
      <4>2. queue[i - 1] = Handed - Len(queue) + (i - 1)
        BY <4>1 DEF QueueIsNext
      <4> QED BY <1>1, <2>1, <4>1, <4>2
    <3> QED BY <3>1, <3>2, Zenon
  <2> QED BY <1>1, <2>1, <2>2, <2>3
<1>4. CASE fpc \notin {"notify", "push", "full"}
  <2>1. InHand = <<>> /\ Finished = Handed - Len(queue)
    BY <1>1, <1>4 DEF InHand, Finished
  <2>2. InHand \o queue = queue
    BY <1>2, <2>1, ConcatEmptySeq
  <2> QED BY <1>1, <1>2, <2>1, <2>2 DEF QueueIsNext
<1> QED BY <1>3, <1>4

\* NothingLost for every file, queue and ring: up to the shutdown flag the ring
\* receives every good frame of the file once and in order.
THEOREM FramesArrive == Spec => []NothingLost
<1>1. IngestInv => NothingLost
  <2> SUFFICES ASSUME IngestInv, ~ Stopped
               PROVE  /\ \A i, j \in DOMAIN Pipe : i < j => Pipe[i] < Pipe[j]
                      /\ \A i \in DOMAIN Pipe : Pipe[i] \in 1 .. Handed
                      /\ \A n \in 1 .. Handed :
                           Decodes(n) => \E i \in DOMAIN Pipe : Pipe[i] = n
                      /\ \A i \in DOMAIN Through : Decodes(Through[i])
    BY DEF NothingLost
  <2> DEFINE rest == InHand \o queue
  <2>1. TypeOK /\ ThreadsAgree /\ QueueIsNext /\ ThroughIsGood
    BY DEF IngestInv, InOrder
  <2>2. /\ Handed \in Nat /\ Finished \in Int /\ Finished >= 0
        /\ Through \in Seq(Records) /\ Len(Through) \in Nat
    BY <2>1, Counts DEF QueueIsNext
  <2>3. /\ rest \in Seq(Int) /\ Len(rest) = Handed - Finished
        /\ \A i \in 1 .. Len(rest) : rest[i] = Finished + i
    BY <2>1, UnderWay
  <2> HIDE DEF rest
  <2>4. Through \in Seq(Int) /\ DOMAIN Through = 1 .. Len(Through) /\ Len(rest) \in Nat
    BY <2>2, <2>3, SeqMonotonic, LenProperties DEF Records
  <2>5. Pipe = Through \o rest
    BY DEF Pipe, rest
  <2>6. /\ DOMAIN Pipe = 1 .. Len(Pipe) /\ Len(Pipe) = Len(Through) + Len(rest)
        /\ \A i \in 1 .. Len(Through) + Len(rest) :
             Pipe[i] = IF i <= Len(Through) THEN Through[i] ELSE rest[i - Len(Through)]
    BY <2>3, <2>4, <2>5, ConcatProperties, LenProperties, Zenon
  <2>7. \A i \in 1 .. Len(Through), j \in 1 .. Len(rest) : Through[i] < rest[j]
    BY <2>1, <2>2, <2>3 DEF ThroughIsGood
  <2>8. \A i, j \in 1 .. Len(rest) : i < j => rest[i] < rest[j]
    BY <2>2, <2>3
  <2>9. \A i, j \in 1 .. Len(Through) : i < j => Through[i] < Through[j]
    BY <2>1 DEF ThroughIsGood
  <2>10. \A i, j \in DOMAIN Pipe : i < j => Pipe[i] < Pipe[j]
    BY <2>3, <2>4, <2>5, <2>6, <2>7, <2>8, <2>9, ConcatIncreases
  <2>11. \A i \in DOMAIN Pipe : Pipe[i] \in 1 .. Handed
    <3> SUFFICES ASSUME NEW i \in DOMAIN Pipe PROVE Pipe[i] \in 1 .. Handed
      OBVIOUS
    <3>1. CASE i <= Len(Through)
      <4>1. i \in 1 .. Len(Through) /\ Pipe[i] = Through[i]
        BY <2>2, <2>4, <2>6, <3>1
      <4>2. Through[i] \in 1 .. Finished
        BY <2>1, <4>1 DEF ThroughIsGood
      <4>3. Finished <= Handed
        BY <2>2, <2>3, <2>4
      <4> QED BY <2>2, <4>1, <4>2, <4>3
    <3>2. CASE ~ (i <= Len(Through))
      <4>1. i - Len(Through) \in 1 .. Len(rest) /\ Pipe[i] = rest[i - Len(Through)]
        BY <2>2, <2>4, <2>6, <3>2
      <4> QED BY <2>2, <2>3, <4>1
    <3> QED BY <3>1, <3>2
  <2>12. ASSUME NEW n \in 1 .. Handed, Decodes(n)
         PROVE  \E i \in DOMAIN Pipe : Pipe[i] = n
    <3>1. CASE n <= Finished
      <4>1. PICK i \in 1 .. Len(Through) : Through[i] = n
        BY <2>1, <2>2, <2>12, <3>1 DEF ThroughIsGood
      <4>2. i \in DOMAIN Pipe /\ Pipe[i] = n
        BY <2>2, <2>4, <2>6, <4>1
      <4> QED BY <4>2
    <3>2. CASE ~ (n <= Finished)
      <4>1. n - Finished \in 1 .. Len(rest) /\ rest[n - Finished] = n
        BY <2>2, <2>3, <3>2
      <4> DEFINE k == n - Finished
                 m == Len(Through) + k
      <4>2. /\ m \in 1 .. Len(Through) + Len(rest) /\ ~ (m <= Len(Through))
            /\ m - Len(Through) = k
        BY <2>2, <2>4, <4>1
      <4>3. m \in DOMAIN Pipe /\ Pipe[m] = rest[k]
        BY <2>6, <4>2
      <4> QED BY <4>1, <4>3
    <3> QED BY <3>1, <3>2
  <2>13. \A i \in DOMAIN Through : Decodes(Through[i])
    BY <2>1, <2>4 DEF ThroughIsGood
  <2> QED BY <2>10, <2>11, <2>12, <2>13
<1> QED BY <1>1, IngestInvariant, PTL

------------------------------------------------------------------------------
(* The ring: division with remainder by a symbolic divisor *)

\* The defining decomposition.
LEMMA DivMod ==
  ASSUME NEW n \in Nat, NEW c \in Nat, c > 0
  PROVE  /\ n = c * (n \div c) + (n % c)
         /\ n % c \in 0 .. c - 1
         /\ n \div c \in Nat
OBVIOUS

\* Multiples of c are at least c apart.
LEMMA MultiplesApart ==
  ASSUME NEW a \in Nat, NEW b \in Nat, NEW c \in Nat, a < b
  PROVE  c * b >= c * a + c
<1>1. PICK d \in Nat : b = a + 1 + d
  <2>1. b - a - 1 \in Nat /\ b = a + 1 + (b - a - 1)
    OBVIOUS
  <2> QED BY <2>1
<1>2. c * b = c * a + c + c * d
  BY <1>1
<1>3. c * d \in Nat
  OBVIOUS
<1> QED BY <1>2, <1>3

\* The decomposition is unique.
LEMMA UniqueRemainder ==
  ASSUME NEW n \in Nat, NEW c \in Nat, NEW a \in Nat, NEW r \in 0 .. c - 1,
         n = c * a + r
  PROVE  n % c = r
<1> DEFINE b == n \div c
           s == n % c
<1>1. n = c * b + s /\ b \in Nat /\ s \in 0 .. c - 1
  BY DivMod
<1> HIDE DEF b, s
<1>2. c * a \in Nat /\ c * b \in Nat
  BY <1>1
<1>3. ~ (a < b)
  <2>1. a < b => c * b >= c * a + c
    BY <1>1, MultiplesApart
  <2> QED BY <1>1, <1>2, <2>1
<1>4. ~ (b < a)
  <2>1. b < a => c * a >= c * b + c
    BY <1>1, MultiplesApart
  <2> QED BY <1>1, <1>2, <2>1
<1>5. a = b
  BY <1>1, <1>3, <1>4
<1>6. s = r
  BY <1>1, <1>2, <1>5
<1> QED BY <1>6 DEF s

\* Adding the divisor does not change the remainder.
LEMMA RemainderPeriodic ==
  ASSUME NEW n \in Nat, NEW c \in Nat, c > 0
  PROVE  (n + c) % c = n % c
<1> DEFINE a == n \div c
           r == n % c
<1>1. n = c * a + r /\ a \in Nat /\ r \in 0 .. c - 1
  BY DivMod
<1> HIDE DEF a, r
<1>2. n + c = c * (a + 1) + r /\ a + 1 \in Nat /\ n + c \in Nat
  BY <1>1
<1>3. (n + c) % c = r
  BY <1>1, <1>2, UniqueRemainder
<1> QED BY <1>3 DEF r

\* Numbers less than c apart with the same remainder are equal.
LEMMA RemainderInjective ==
  ASSUME NEW m \in Nat, NEW n \in Nat, NEW c \in Nat, c > 0,
         m <= n, n < m + c, m % c = n % c
  PROVE  m = n
<1> DEFINE a == m \div c
           b == n \div c
           r == n % c
<1>1. m = c * a + r /\ n = c * b + r /\ a \in Nat /\ b \in Nat /\ r \in Nat
  BY DivMod
<1> HIDE DEF a, b, r
<1>2. c * a \in Nat /\ c * b \in Nat
  BY <1>1
<1>3. ~ (a < b)
  <2>1. a < b => c * b >= c * a + c
    BY <1>1, MultiplesApart
  <2> QED BY <1>1, <1>2, <2>1
<1>4. ~ (b < a)
  <2>1. b < a => c * a >= c * b + c
    BY <1>1, MultiplesApart
  <2> QED BY <1>1, <1>2, <2>1
<1> QED BY <1>1, <1>3, <1>4

------------------------------------------------------------------------------
(* The ring: indexes *)

\* An index is a slot number.
LEMMA IndexRange ==
  ASSUME NEW n \in Nat
  PROVE  Index(n) \in 0 .. Capacity - 1
BY DivMod, RingAssumption DEF Index

\* Two counts less than a lap apart that have the same index are equal.
LEMMA IndexInjective ==
  ASSUME NEW m \in Nat, NEW n \in Nat, m <= n, n < m + Capacity,
         Index(m) = Index(n)
  PROVE  m = n
<1>1. Capacity \in Nat /\ Capacity > 0
  BY RingAssumption
<1>2. m % Capacity = n % Capacity
  BY DEF Index
<1> QED BY <1>1, <1>2, RemainderInjective, Zenon

\* Counts exactly one lap apart have the same index.
LEMMA IndexLap ==
  ASSUME NEW n \in Nat
  PROVE  Index(n + Capacity) = Index(n)
<1>1. Capacity \in Nat /\ Capacity > 0
  BY RingAssumption
<1>2. (n + Capacity) % Capacity = n % Capacity
  BY <1>1, RemainderPeriodic, Zenon
<1> QED BY <1>2 DEF Index

------------------------------------------------------------------------------
(* The ring: the inductive invariant *)

\* The producer never runs a lap ahead of the pops it has seen, and once it has
\* passed the full test there is room for its record, which stays in the slot
\* it wrote until the index is stored.
ProducerInv ==
  /\ pushed - prod.seen <= Capacity - 1
  /\ prod.pc # "idle" => pushed < MaxPush /\ pushed - prod.seen < Capacity - 1
  /\ prod.pc = "store" => slots[Index(pushed)] = prod.value

\* The consumer has seen every push it popped, and once it has passed the empty
\* test it has seen the push of the record it reads.
ConsumerInv ==
  /\ popped <= cons.seen
  /\ cons.pc # "idle" => popped < cons.seen
  /\ cons.pc = "store" => cons.value = slots[Index(popped)]

\* Each store to write_ carries a sight of read_ less than a lap behind it, so
\* the observer's two loads are less than a lap apart as well.
ObserverInv ==
  /\ \A n \in 1 .. pushed : stamp[n] <= popped /\ n - stamp[n] <= Capacity - 1
  /\ obs.write - obs.seen <= Capacity - 1
  /\ obs.pc = "idle" => obs.seen = obs.read

RingInv == RingTypeOK /\ ProducerInv /\ ConsumerInv /\ ObserverInv

\* The initial states satisfy the inductive invariant.
LEMMA InitRing == RingInit => RingInv
BY RingAssumption DEF RingInit, RingInv, RingTypeOK, ProducerInv, ConsumerInv, ObserverInv

\* The slot being filled holds no record that is still in the ring.
LEMMA FreeSlot ==
  ASSUME RingInv, prod.pc # "idle", NEW n \in popped .. pushed - 1
  PROVE  Index(n) # Index(pushed)
<1>1. n \in Nat /\ pushed \in Nat /\ n < pushed /\ pushed < n + Capacity
  BY RingAssumption DEF RingInv, RingTypeOK, ProducerInv
<1> QED BY <1>1, IndexInjective

\* try_push preserves the inductive invariant.
LEMMA PushRing ==
  ASSUME RingInv, PushCheck \/ PushSlot \/ PushPublish \/ ProducerDies
  PROVE  RingInv'
<1> USE RingAssumption
<1>1. CASE PushCheck
  <2>1. PICK v \in Values, r \in prod.seen .. popped :
          prod' = IF RingFull(pushed, r)
                  THEN [prod EXCEPT !.seen = r]
                  ELSE [pc |-> "write", value |-> v, seen |-> r]
    BY <1>1 DEF PushCheck
  <2>2. r \in Nat /\ r <= popped /\ pushed - r <= Capacity - 1
    BY DEF RingInv, RingTypeOK, ProducerInv
  <2>3. ~ RingFull(pushed, r) => pushed - r < Capacity - 1
    <3>1. pushed + 1 = r + Capacity => RingFull(pushed, r)
      BY <2>2, IndexLap DEF RingFull
    <3> QED BY <2>2, <3>1 DEF RingInv, RingTypeOK
  <2>4. RingTypeOK'
    <3>1. prod' \in [pc : {"idle", "write", "store"}, value : Values, seen : Nat]
      BY <2>1, <2>2, Zenon DEF RingInv, RingTypeOK
    <3>2. prod'.seen = r
      BY <2>1 DEF RingInv, RingTypeOK
    <3> QED BY <1>1, <2>2, <3>1, <3>2 DEF PushCheck, RingInv, RingTypeOK
  <2>5. ProducerInv'
    BY <1>1, <2>1, <2>2, <2>3, Zenon DEF PushCheck, RingInv, RingTypeOK, ProducerInv
  <2> QED BY <1>1, <2>4, <2>5 DEF PushCheck, RingInv, ConsumerInv, ObserverInv
<1>2. CASE PushSlot
  <2>1. Index(pushed) \in 0 .. Capacity - 1
    BY IndexRange DEF RingInv, RingTypeOK
  <2>2. RingTypeOK'
    BY <1>2, <2>1, Zenon DEF PushSlot, RingInv, RingTypeOK
  <2>4. ProducerInv'
    BY <1>2, <2>1 DEF PushSlot, RingInv, RingTypeOK, ProducerInv
  <2>5. ObserverInv'
    BY <1>2, <2>1 DEF PushSlot, RingInv, RingTypeOK, ObserverInv
  <2>3. ConsumerInv'
    <3>1. cons.pc = "store" => Index(popped) # Index(pushed)
      <4>1. cons.pc = "store" => popped \in popped .. pushed - 1
        BY DEF RingInv, RingTypeOK, ConsumerInv
      <4> QED BY <1>2, <4>1, FreeSlot DEF PushSlot
    <3>2. Index(popped) \in 0 .. Capacity - 1
      BY IndexRange DEF RingInv, RingTypeOK
    <3> QED BY <1>2, <3>1, <3>2 DEF PushSlot, RingInv, RingTypeOK, ConsumerInv
  <2> QED BY <2>2, <2>3, <2>4, <2>5 DEF RingInv
<1>3. CASE PushPublish
  <2>1. pushed' = pushed + 1 /\ stamp' = Append(stamp, prod.seen)
    BY <1>3 DEF PushPublish
  <2>2. RingTypeOK'
    <3>1. stamp' \in Seq(Nat) /\ Len(stamp') = pushed + 1
      BY <2>1 DEF RingInv, RingTypeOK
    <3>2. pushed + 1 <= MaxPush
      BY <1>3 DEF PushPublish, PushReady, RingInv, RingTypeOK, ProducerInv
    <3>3. prod' \in [pc : {"idle", "write", "store"}, value : Values, seen : Nat]
          /\ prod'.seen = prod.seen
      BY <1>3, Zenon DEF PushPublish, RingInv, RingTypeOK
    <3>4. UNCHANGED <<slots, popped, cons, obs, out>>
      BY <1>3 DEF PushPublish
    <3>5. /\ slots' \in [0 .. Capacity - 1 -> Values] /\ out' \in Values
          /\ cons' \in [pc : {"idle", "read", "store"}, value : Values, seen : Nat]
          /\ obs' \in [pc : {"idle", "read"}, write : Nat, read : Nat, seen : Nat]
      BY <3>4 DEF RingInv, RingTypeOK
    <3>6. /\ pushed' \in Nat /\ popped' \in Nat /\ popped' <= pushed'
          /\ cons'.seen <= pushed' /\ obs'.write <= pushed'
      BY <2>1, <3>4 DEF RingInv, RingTypeOK
    <3>7. prod'.seen <= popped' /\ obs'.read <= popped' /\ obs'.seen <= popped'
      BY <3>3, <3>4 DEF RingInv, RingTypeOK
    <3>8. pushed' <= MaxPush /\ Len(stamp') = pushed'
      BY <2>1, <3>1, <3>2
    <3> QED BY <3>1, <3>3, <3>5, <3>6, <3>7, <3>8 DEF RingTypeOK
  <2>3. ProducerInv' /\ ConsumerInv'
    BY <1>3, SMTT(30) DEF PushPublish, PushReady, RingInv, RingTypeOK, ProducerInv, ConsumerInv
  <2>4. ObserverInv'
    <3>1. \A n \in 1 .. pushed + 1 :
            stamp'[n] = IF n = pushed + 1 THEN prod.seen ELSE stamp[n]
      BY <2>1 DEF RingInv, RingTypeOK
    <3>2. UNCHANGED <<popped, obs>>
      BY <1>3 DEF PushPublish
    <3>3. /\ pushed \in Nat /\ prod.seen \in Nat /\ prod.seen <= popped
          /\ pushed + 1 - prod.seen <= Capacity - 1
      BY <1>3, SMTT(30) DEF PushPublish, PushReady, RingInv, RingTypeOK, ProducerInv
    <3>4. ASSUME NEW n \in 1 .. pushed + 1
          PROVE  stamp'[n] <= popped /\ n - stamp'[n] <= Capacity - 1
      <4>1. CASE n = pushed + 1
        <5>1. stamp'[n] = prod.seen
          BY <3>1, <4>1
        <5>2. n - prod.seen <= Capacity - 1
          BY <3>3, <4>1
        <5> QED BY <3>3, <5>1, <5>2
      <4>2. CASE n # pushed + 1
        <5>1. n \in 1 .. pushed
          BY <4>2 DEF RingInv, RingTypeOK
        <5>2. stamp'[n] = stamp[n]
          BY <3>1, <4>2
        <5> QED BY <5>1, <5>2 DEF RingInv, ObserverInv
      <4> QED BY <4>1, <4>2
    <3>5. /\ obs'.write - obs'.seen <= Capacity - 1
          /\ obs'.pc = "idle" => obs'.seen = obs'.read
      BY <3>2 DEF RingInv, ObserverInv
    <3> QED BY <2>1, <3>2, <3>4, <3>5, Zenon DEF ObserverInv
  <2> QED BY <2>2, <2>3, <2>4 DEF RingInv
<1>4. CASE ProducerDies
  BY <1>4, ZenonT(30) DEF ProducerDies, RingInv, RingTypeOK, ProducerInv, ConsumerInv, ObserverInv
<1> QED BY <1>1, <1>2, <1>3, <1>4

\* try_pop preserves the inductive invariant.
LEMMA PopRing ==
  ASSUME RingInv, PopCheck \/ PopSlot \/ PopPublish \/ ConsumerDies
  PROVE  RingInv'
<1> USE RingAssumption
<1>1. CASE PopCheck
  <2>1. PICK w \in cons.seen .. pushed :
          cons' = [cons EXCEPT !.seen = w,
                               !.pc = IF RingEmpty(popped, w) THEN "idle" ELSE "read"]
    BY <1>1, Zenon DEF PopCheck
  <2>2. w \in Nat /\ w <= pushed /\ popped <= w
    BY SMTT(30) DEF RingInv, RingTypeOK, ConsumerInv
  <2>3. ~ RingEmpty(popped, w) => popped < w
    BY <2>2 DEF RingEmpty, RingInv, RingTypeOK
  <2>4. RingTypeOK'
    <3>1. cons' \in [pc : {"idle", "read", "store"}, value : Values, seen : Nat]
      BY <2>1, <2>2, Zenon DEF RingInv, RingTypeOK
    <3>2. cons'.seen = w
      BY <2>1 DEF RingInv, RingTypeOK
    <3> QED BY <1>1, <2>2, <3>1, <3>2, Zenon DEF PopCheck, RingInv, RingTypeOK
  <2>5. ConsumerInv'
    BY <1>1, <2>1, <2>2, <2>3, Zenon DEF PopCheck, RingInv, RingTypeOK, ConsumerInv
  <2> QED BY <1>1, <2>4, <2>5, Zenon DEF PopCheck, RingInv, ProducerInv, ObserverInv
<1>2. CASE PopSlot
  <2>1. Index(popped) \in 0 .. Capacity - 1
    BY IndexRange DEF RingInv, RingTypeOK
  <2> QED BY <1>2, <2>1, Zenon
          DEF PopSlot, RingInv, RingTypeOK, ProducerInv, ConsumerInv, ObserverInv
<1>3. CASE PopPublish
  <2>1. cons' \in [pc : {"idle", "read", "store"}, value : Values, seen : Nat]
        /\ cons'.seen = cons.seen /\ cons'.pc = "idle"
    BY <1>3, Zenon DEF PopPublish, RingInv, RingTypeOK
  <2>2. RingTypeOK'
    <3>1. popped' = popped + 1 /\ UNCHANGED <<slots, pushed, stamp, prod, obs>>
      BY <1>3 DEF PopPublish
    <3>2. /\ slots' \in [0 .. Capacity - 1 -> Values]
          /\ stamp' \in Seq(Nat) /\ Len(stamp') = pushed' /\ pushed' <= MaxPush
          /\ prod' \in [pc : {"idle", "write", "store"}, value : Values, seen : Nat]
          /\ obs' \in [pc : {"idle", "read"}, write : Nat, read : Nat, seen : Nat]
      BY <3>1 DEF RingInv, RingTypeOK
    <3>3. out' \in Values
      BY <1>3 DEF PopPublish, RingInv, RingTypeOK
    <3>4. popped < cons.seen /\ cons.seen <= pushed
      BY <1>3 DEF PopPublish, RingInv, RingTypeOK, ConsumerInv
    <3>5. /\ pushed' \in Nat /\ popped' \in Nat /\ popped' <= pushed'
          /\ cons'.seen <= pushed' /\ obs'.write <= pushed'
      BY <2>1, <3>1, <3>4 DEF RingInv, RingTypeOK
    <3>6. prod'.seen <= popped' /\ obs'.read <= popped' /\ obs'.seen <= popped'
      BY <3>1 DEF RingInv, RingTypeOK
    <3> QED BY <2>1, <3>2, <3>3, <3>5, <3>6 DEF RingTypeOK
  <2>3. ProducerInv'
    BY <1>3 DEF PopPublish, RingInv, RingTypeOK, ProducerInv
  <2>4. ConsumerInv'
    BY <1>3, <2>1, SMTT(30) DEF PopPublish, RingInv, RingTypeOK, ConsumerInv
  <2>5. ObserverInv'
    <3>1. \A n \in 1 .. pushed : stamp[n] \in Nat
      BY DEF RingInv, RingTypeOK
    <3>2. popped' = popped + 1 /\ UNCHANGED <<pushed, stamp, obs>>
      BY <1>3 DEF PopPublish
    <3>3. popped \in Nat /\ pushed \in Nat
      BY DEF RingInv, RingTypeOK
    <3>4. \A n \in 1 .. pushed : stamp[n] <= popped + 1 /\ n - stamp[n] <= Capacity - 1
      BY <3>1, <3>3 DEF RingInv, ObserverInv
    <3> QED BY <3>2, <3>4 DEF RingInv, ObserverInv
  <2> QED BY <2>2, <2>3, <2>4, <2>5 DEF RingInv
<1>4. CASE ConsumerDies
  BY <1>4, ZenonT(30) DEF ConsumerDies, RingInv, RingTypeOK, ProducerInv, ConsumerInv, ObserverInv
<1> QED BY <1>1, <1>2, <1>3, <1>4

\* occupied() preserves the inductive invariant.
LEMMA OccupiedRing ==
  ASSUME RingInv, OccupiedLoadWrite \/ OccupiedLoadRead
  PROVE  RingInv'
<1> USE RingAssumption
<1>1. CASE OccupiedLoadWrite
  <2>1. PICK w \in obs.write .. pushed :
          obs' = [obs EXCEPT !.pc = "read", !.write = w,
                             !.seen = IF Carried(w) > @ THEN Carried(w) ELSE @]
    BY <1>1, Zenon DEF OccupiedLoadWrite
  <2>2. /\ w \in Nat /\ w <= pushed
        /\ Carried(w) \in Nat /\ Carried(w) <= popped
        /\ w - Carried(w) <= Capacity - 1
    <3>1. w \in 0 .. pushed
      BY DEF RingInv, RingTypeOK
    <3>2. w # 0 => stamp[w] \in Nat
      BY <3>1 DEF RingInv, RingTypeOK
    <3> QED BY <3>1, <3>2, SMTT(30) DEF RingInv, RingTypeOK, ObserverInv, Carried
  <2> DEFINE s == IF Carried(w) > obs.seen THEN Carried(w) ELSE obs.seen
  <2>3. obs' = [obs EXCEPT !.pc = "read", !.write = w, !.seen = s]
    BY <2>1
  <2>4. s \in Nat /\ s <= popped /\ w - s <= Capacity - 1
    BY <2>2 DEF RingInv, RingTypeOK
  <2> HIDE DEF s
  <2>5. obs' \in [pc : {"idle", "read"}, write : Nat, read : Nat, seen : Nat]
    BY <2>2, <2>3, <2>4, Zenon DEF RingInv, RingTypeOK
  <2>6. obs'.pc = "read" /\ obs'.write = w /\ obs'.read = obs.read /\ obs'.seen = s
    BY <2>3 DEF RingInv, RingTypeOK
  <2>7. RingTypeOK'
    BY <1>1, <2>2, <2>4, <2>5, <2>6, ZenonT(30) DEF OccupiedLoadWrite, RingInv, RingTypeOK
  <2>8. ObserverInv'
    BY <1>1, <2>2, <2>4, <2>6, ZenonT(30) DEF OccupiedLoadWrite, RingInv, RingTypeOK, ObserverInv
  <2> QED BY <1>1, <2>7, <2>8, Zenon DEF OccupiedLoadWrite, RingInv, ProducerInv, ConsumerInv
<1>2. CASE OccupiedLoadRead
  <2>1. PICK r \in obs.seen .. popped :
          obs' = [obs EXCEPT !.pc = "idle", !.read = r, !.seen = r]
    BY <1>2, Zenon DEF OccupiedLoadRead
  <2>2. r \in Nat /\ obs.seen <= r /\ r <= popped
    BY <2>1 DEF RingInv, RingTypeOK
  <2>3. obs' \in [pc : {"idle", "read"}, write : Nat, read : Nat, seen : Nat]
    BY <2>1, <2>2, Zenon DEF RingInv, RingTypeOK
  <2>4. obs'.pc = "idle" /\ obs'.write = obs.write /\ obs'.read = r /\ obs'.seen = r
    BY <2>1 DEF RingInv, RingTypeOK
  <2>5. RingTypeOK'
    BY <1>2, <2>2, <2>3, <2>4, ZenonT(30) DEF OccupiedLoadRead, RingInv, RingTypeOK
  <2>6. ObserverInv'
    <3>1. obs'.write - obs'.seen <= Capacity - 1
      BY <2>2, <2>4 DEF RingInv, RingTypeOK, ObserverInv
    <3> QED BY <1>2, <2>4, <3>1, Zenon DEF OccupiedLoadRead, RingInv, ObserverInv
  <2> QED BY <1>2, <2>5, <2>6, ZenonT(30) DEF OccupiedLoadRead, RingInv, ProducerInv, ConsumerInv
<1> QED BY <1>1, <1>2

\* Every step preserves the inductive invariant.
LEMMA NextRing ==
  ASSUME RingInv, [RingNext]_ringVars
  PROVE  RingInv'
<1>1. CASE UNCHANGED ringVars
  BY <1>1 DEF ringVars, RingInv, RingTypeOK, ProducerInv, ConsumerInv, ObserverInv,
              Index
<1> QED BY <1>1, PushRing, PopRing, OccupiedRing DEF RingNext

\* The inductive invariant holds throughout.
THEOREM RingInvariant == RingSpec => []RingInv
<1>1. RingInit => RingInv
  BY InitRing
<1>2. RingInv /\ [RingNext]_ringVars => RingInv'
  BY NextRing
<1> QED BY <1>1, <1>2, PTL DEF RingSpec

------------------------------------------------------------------------------
(* The ring: the properties *)

\* The ring's variables stay in their types: no index runs past the other, and
\* no thread sees a store that has not happened.
THEOREM RingTypes == RingSpec => []RingTypeOK
<1>1. RingInv => RingTypeOK
  BY DEF RingInv
<1> QED BY <1>1, RingInvariant, PTL

\* The plain slots are never accessed by both sides without an ordering
\* between the accesses (the acquire loads of try_push and try_pop).
THEOREM RaceFree == RingSpec => []NoDataRace
<1>1. RingInv => NoDataRace
  <2> SUFFICES ASSUME RingInv PROVE NoDataRace
    OBVIOUS
  <2>1. ASSUME prod.pc = "write", NEW n \in 0 .. pushed - 1, Index(n) = Index(pushed)
        PROVE  n < prod.seen
    <3>1. n \in Nat /\ pushed \in Nat /\ n < pushed
      BY DEF RingInv, RingTypeOK
    <3>2. ~ (pushed < n + Capacity)
      BY <2>1, <3>1, IndexInjective
    <3> QED BY <2>1, <3>1, <3>2, RingAssumption DEF RingInv, RingTypeOK, ProducerInv
  <2>2. cons.pc = "read" => popped < cons.seen
    BY DEF RingInv, ConsumerInv
  <2> QED BY <2>1, <2>2 DEF NoDataRace
<1> QED BY <1>1, RingInvariant, PTL

\* occupied() is exact whenever the consumer has not overtaken its first load.
THEOREM OccupiedCorrect == RingSpec => []OccupiedExact
<1>1. RingInv => OccupiedExact
  <2> SUFFICES ASSUME RingInv, obs.pc = "idle", obs.read <= obs.write
               PROVE  Occupied = obs.write - obs.read
    BY DEF OccupiedExact
  <2> DEFINE d == obs.write - obs.read
  <2>1. d \in Nat /\ d \in 0 .. Capacity - 1
    BY RingAssumption DEF RingInv, RingTypeOK, ObserverInv
  <2> HIDE DEF d
  <2>2. Capacity \in Nat /\ d = Capacity * 0 + d
    BY <2>1, RingAssumption
  <2>3. d % Capacity = d
    BY <2>1, <2>2, UniqueRemainder
  <2> QED BY <2>3 DEF d, Occupied
<1> QED BY <1>1, RingInvariant, PTL

------------------------------------------------------------------------------
(* The ring implements the bounded FIFO *)

\* A step that leaves the counts and the slots of the waiting records alone
\* leaves the abstract queue alone.
LEMMA WaitingUnchanged ==
  ASSUME RingTypeOK, pushed' = pushed, popped' = popped,
         \A n \in popped .. pushed - 1 : slots'[Index(n)] = slots[Index(n)]
  PROVE  Waiting' = Waiting
<1>1. \A i \in 1 .. pushed - popped : popped + i - 1 \in popped .. pushed - 1
  BY DEF RingTypeOK
<1>2. \A i \in 1 .. pushed - popped :
        slots'[Index(popped + i - 1)] = slots[Index(popped + i - 1)]
  BY <1>1
<1> QED BY <1>2 DEF Waiting, Index

\* The records waiting form a sequence of records.
LEMMA WaitingType ==
  ASSUME RingTypeOK
  PROVE  /\ Waiting \in Seq(Values)
         /\ Len(Waiting) = pushed - popped
<1>1. pushed - popped \in Nat
  BY DEF RingTypeOK
<1>2. \A i \in 1 .. pushed - popped : slots[Index(popped + i - 1)] \in Values
  <2> TAKE i \in 1 .. pushed - popped
  <2>1. popped + i - 1 \in Nat
    BY DEF RingTypeOK
  <2>2. Index(popped + i - 1) \in 0 .. Capacity - 1
    BY <2>1, IndexRange
  <2> QED BY <2>2 DEF RingTypeOK
<1> QED BY <1>1, <1>2 DEF Waiting

\* The store to write_ is the abstract Put.
LEMMA PublishPuts ==
  ASSUME RingInv, PushPublish
  PROVE  Fifo!Put
<1>1. /\ pushed' = pushed + 1 /\ popped' = popped /\ slots' = slots /\ out' = out
      /\ prod'.value = prod.value /\ prod.pc = "store" /\ pushed - popped < Capacity - 1
  BY RingAssumption, SMTT(30) DEF PushPublish, PushReady, RingInv, RingTypeOK, ProducerInv
<1>2. Waiting \in Seq(Values) /\ Len(Waiting) = pushed - popped
  BY WaitingType DEF RingInv
<1>3. prod.value \in Values /\ slots[Index(pushed)] = prod.value
  BY <1>1 DEF RingInv, RingTypeOK, ProducerInv
<1>4. Waiting' = Append(Waiting, prod.value)
  <2> DEFINE n == pushed - popped
             W == [i \in 1 .. n + 1 |-> slots[Index(popped + i - 1)]]
  <2>1. n \in Nat /\ pushed + 1 - popped = n + 1 /\ popped + (n + 1) - 1 = pushed
    BY DEF RingInv, RingTypeOK
  <2>2. Waiting' = W
    <3>1. Waiting' = [i \in 1 .. (pushed + 1) - popped |-> slots[Index(popped + i - 1)]]
      BY <1>1 DEF Waiting, Index
    <3>2. (pushed + 1) - popped = n + 1
      BY DEF RingInv, RingTypeOK
    <3> QED BY <3>1, <3>2
  <2>3. W = Append(Waiting, prod.value)
    <3>1. \A i \in 1 .. n : W[i] = Waiting[i]
      BY <2>1 DEF Waiting
    <3>2. W[n + 1] = prod.value
      BY <1>3, <2>1
    <3> HIDE DEF W
    <3>3. W = [i \in 1 .. n + 1 |-> W[i]]
      BY DEF W
    <3> HIDE DEF n
    <3>4. Append(Waiting, prod.value)
            = [i \in 1 .. n + 1 |-> IF i = n + 1 THEN prod.value ELSE Waiting[i]]
      BY <1>2, <2>1 DEF n
    <3>5. \A i \in 1 .. n + 1 : W[i] = IF i = n + 1 THEN prod.value ELSE Waiting[i]
      BY <2>1, <3>1, <3>2
    <3> QED BY <3>3, <3>4, <3>5
  <2> QED BY <2>2, <2>3, Zenon
<1> QED BY <1>1, <1>2, <1>3, <1>4 DEF Fifo!Put

\* The store to read_ is the abstract Take.
LEMMA PublishTakes ==
  ASSUME RingInv, PopPublish
  PROVE  Fifo!Take
<1>1. /\ pushed' = pushed /\ popped' = popped + 1 /\ slots' = slots
      /\ out' = cons.value /\ prod' = prod /\ cons.pc = "store" /\ pushed - popped \in Nat \ {0}
  BY SMTT(30) DEF PopPublish, RingInv, RingTypeOK, ConsumerInv
<1>2. Waiting \in Seq(Values) /\ Len(Waiting) = pushed - popped
  BY WaitingType DEF RingInv
<1>3. Waiting # <<>>
  BY <1>1, <1>2
<1>4. out' = Head(Waiting)
  <2>1. Head(Waiting) = Waiting[1]
    BY <1>2, <1>3
  <2>2. Waiting[1] = slots[Index(popped)]
    BY <1>1 DEF Waiting, RingInv, RingTypeOK
  <2> QED BY <1>1, <2>1, <2>2 DEF RingInv, ConsumerInv
<1>5. Waiting' = Tail(Waiting)
  <2> DEFINE n == pushed - popped
  <2>1. n \in Nat /\ n > 0 /\ pushed - (popped + 1) = n - 1
    BY <1>1 DEF RingInv, RingTypeOK
  <2>2. Waiting' = [i \in 1 .. n - 1 |-> slots[Index(popped + 1 + i - 1)]]
    BY <1>1, <2>1 DEF Waiting, Index
  <2>3. Tail(Waiting) = [i \in 1 .. n - 1 |-> Waiting[i + 1]]
    <3>1. /\ Tail(Waiting) \in Seq(Values) /\ Len(Tail(Waiting)) = n - 1
          /\ \A i \in 1 .. n - 1 : Tail(Waiting)[i] = Waiting[i + 1]
      BY <1>2, <1>3, HeadTailProperties
    <3>2. Tail(Waiting) = [i \in 1 .. Len(Tail(Waiting)) |-> Tail(Waiting)[i]]
      BY <3>1, SeqDef, LenProperties, Zenon
    <3> QED BY <3>1, <3>2
  <2>4. \A i \in 1 .. n - 1 : Waiting[i + 1] = slots[Index(popped + 1 + i - 1)]
    <3> TAKE i \in 1 .. n - 1
    <3>1. i + 1 \in 1 .. n /\ popped + (i + 1) - 1 = popped + 1 + i - 1
      BY <2>1 DEF RingInv, RingTypeOK
    <3> QED BY <3>1 DEF Waiting
  <2> QED BY <2>2, <2>3, <2>4
<1> QED BY <1>1, <1>3, <1>4, <1>5 DEF Fifo!Take

\* The ring implements a FIFO of Capacity - 1 records: the stores to the two
\* indexes are its Put and Take, everything else (the slot accesses, refused
\* calls, stale loads, a death inside an operation) leaves it unchanged.
THEOREM RingRefines == RingSpec => IsFifo
<1>1. RingInit => Fifo!Init
  <2> SUFFICES ASSUME RingInit PROVE Fifo!Init
    OBVIOUS
  <2>1. Waiting = <<>>
    BY DEF RingInit, Waiting
  <2> QED BY <2>1, RingAssumption DEF RingInit, Fifo!Init
<1>2. ASSUME RingInv, [RingNext]_ringVars
      PROVE  [Fifo!Next]_<<Waiting, prod.value, out>>
  <2> USE <1>2
  <2>1. CASE PushPublish
    BY <2>1, PublishPuts DEF Fifo!Next
  <2>2. CASE PopPublish
    BY <2>2, PublishTakes DEF Fifo!Next
  <2>3. CASE PushSlot
    <3>1. \A n \in popped .. pushed - 1 : slots'[Index(n)] = slots[Index(n)]
      <4> TAKE n \in popped .. pushed - 1
      <4>1. Index(n) # Index(pushed)
        BY <2>3, FreeSlot DEF PushSlot
      <4>2. n \in Nat
        BY DEF RingInv, RingTypeOK
      <4>3. Index(n) \in 0 .. Capacity - 1
        BY <4>2, IndexRange
      <4> QED BY <2>3, <4>1, <4>3 DEF PushSlot, RingInv, RingTypeOK
    <3>2. Waiting' = Waiting
      BY <2>3, <3>1, WaitingUnchanged DEF PushSlot, RingInv
    <3>3. prod'.value = prod.value /\ out' = out
      BY <2>3 DEF PushSlot, RingInv, RingTypeOK
    <3> QED BY <3>2, <3>3
  <2>4. CASE PushCheck
    <3>1. Waiting' = Waiting
      BY <2>4, WaitingUnchanged DEF PushCheck, RingInv
    <3>2. prod'.value \in Values \cup {prod.value}
      BY <2>4 DEF PushCheck, RingInv, RingTypeOK
    <3>3. out' = out
      BY <2>4 DEF PushCheck
    <3>4. CASE prod'.value \in Values
      BY <3>1, <3>3, <3>4 DEF Fifo!Next, Fifo!Offer
    <3> QED BY <3>1, <3>2, <3>3, <3>4
  <2>5. CASE UNCHANGED <<slots, pushed, popped, out>> /\ prod'.value = prod.value
    BY <2>5, WaitingUnchanged DEF RingInv
  <2>6. ProducerDies => UNCHANGED <<slots, pushed, popped, out>> /\ prod'.value = prod.value
    BY DEF ProducerDies, RingInv, RingTypeOK
  <2> QED BY <2>1, <2>2, <2>3, <2>4, <2>5, <2>6, Zenon
          DEF RingNext, ringVars, PopCheck, PopSlot, ConsumerDies,
              OccupiedLoadWrite, OccupiedLoadRead
<1> QED BY <1>1, <1>2, RingInvariant, PTL DEF RingSpec, IsFifo, Fifo!Spec
==============================================================================
