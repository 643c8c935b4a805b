---------------------------- MODULE RecordsProofs ----------------------------
(* The records of the first pass, for every file and every size of the queue *)
(* and the ring: none is lost, repeated or overtaken on its way to a row.    *)
EXTENDS PipelineProofs, FiniteSetTheorems

------------------------------------------------------------------------------
(* The records of the first pass *)

\* Where a frame can be, from the source thread to the fast stage.
InSource == IF spc = "push" THEN {next} ELSE {}
InQueue == Elements(queue)
InHand == IF fpc \in {"notify", "push", "full"} THEN {held} ELSE {}
InRing == Elements(ring)
InFast == IF cpc["fast"] = "publish" THEN {record} ELSE {}

\* The frames in flight are in file order from the fast stage back to the
\* source thread, and behind every frame that a row shows.
Ordered ==
  /\ Increasing(queue) /\ Increasing(ring)
  /\ Before(InFast, InRing \cup InHand \cup InQueue \cup InSource)
  /\ Before(InRing, InHand \cup InQueue \cup InSource)
  /\ Before(InHand, InQueue \cup InSource)
  /\ Before(InQueue, InSource)
  /\ InFlight \subseteq 1 .. next
  /\ \A id \in Sources : latest[id].sequence <= next /\ Before({latest[id].sequence}, InFlight)

\* What has been decoded, and what integrate accepted.
Checked ==
  /\ fpc \in {"push", "full"} => Replay[held].decodes
  /\ \A n \in InRing \cup InFast : Replay[n].decodes
  /\ \A n \in InFast : Replay[n].fits

\* The rows count what has left the pipe.
Tally ==
  \A id \in Sources :
    /\ latest[id].publishes = Cardinality(Arrived(id))
    /\ \A n \in Arrived(id) : n <= latest[id].sequence
    /\ latest[id].publishes > 0 => latest[id].sequence \in Arrived(id)
    /\ latest[id].by = 0 => latest[id].publishes = 0

\* There is one ingest process and one compute process, and the supervisor goes
\* on only from a compute process that exited 0.
OneEach ==
  /\ supc \in {"observe", "ingest"} => next = 0 /\ queue = <<>> /\ ring = <<>>
  /\ supc # "killed" /\ attempt = 1
  /\ supc \in {"shutdown"} \cup Stopping => proc["compute"] = "exit0"

RecordsInv == Undisturbed => Ordered /\ Checked /\ Tally /\ OneEach

------------------------------------------------------------------------------
(* How a frame moves *)

\* Without a failure the supervisor spawns each child once.
LEMMA OneEachKept ==
  ASSUME ControlInv, OneEach, [Next]_vars, Calm
  PROVE  OneEach'
<1>1. TypeOK /\ Threaded /\ Supervised /\ Collected
  BY Zenon DEF ControlInv, ProcessInv
<1>2. ~ Kill /\ ~ Signal /\ control'.generation = control.generation
      /\ control.generation \in Nat
  BY <1>1, FirstPassSteps DEF Calm, TypeOK, LayoutTypeOK
<1>3. CASE SpawnIngest
  <2>1. supc' = "publish" /\ attempt' = attempt
    BY <1>3, Zenon DEF SpawnIngest
  <2> QED BY <2>1, Zenon DEF OneEach, Stopping
<1>4. CASE SpawnObserve
  <2>1. supc = "observe" /\ supc' = "ingest" /\ UNCHANGED <<attempt, ingest, ring>>
    BY <1>4, Zenon DEF SpawnObserve, shared
  <2> QED BY <2>1, Zenon DEF OneEach, ingest, Stopping
<1>5. CASE SpawnPublish \/ SpawnCompute
  <2>1. supc' \in {"compute", "wait_compute"} /\ attempt' \in {1, attempt}
    BY <1>5, Zenon DEF SpawnPublish, SpawnCompute
  <2> QED BY <2>1, Zenon DEF OneEach, Stopping
<1>6. CASE WaitCompute
  <2>1. control' # control => control'.generation = control.generation + 1
    BY <1>1, <1>6 DEF WaitCompute, NextGeneration, TypeOK, LayoutTypeOK
  <2>2. control' = control
    BY <1>2, <2>1
  <2>3. UNCHANGED <<attempt, proc>> /\ supc' = "shutdown" /\ Waited(proc["compute"]) = "exit0"
    <3>1. exits' = [exits EXCEPT !["compute"] = Waited(proc["compute"])] /\ UNCHANGED proc
      BY <1>6, Zenon DEF WaitCompute
    <3>2. exits'["compute"] = Waited(proc["compute"])
      BY <1>1, <3>1, Zenon DEF TypeOK, Roles
    <3>3. control' = [control EXCEPT !.generation = NextGeneration] =>
            control'.generation = control.generation + 1
      BY <1>1, Zenon DEF NextGeneration, TypeOK, LayoutTypeOK
    <3>4. ~ LastAttempt
      BY DEF OneEach, LastAttempt, kMaxComputeAttempts
    <3> QED BY <1>2, <1>6, <3>1, <3>2, <3>3, <3>4 DEF WaitCompute
  <2>4. proc["compute"] = "exit0"
    BY <2>3, Zenon DEF Waited
  <2> QED BY <2>3, <2>4 DEF OneEach, Stopping
<1>7. CASE \/ RaiseShutdown \/ WaitIngest \/ WaitPublish \/ InstallHandlers \/ Hold
           \/ Release \/ WaitObserve
  <2>1. /\ supc \in {"shutdown"} \cup Stopping /\ supc' \in Stopping
        /\ UNCHANGED <<attempt, proc>>
    BY <1>7, Zenon DEF RaiseShutdown, WaitIngest, WaitPublish, InstallHandlers, Hold, Release,
                WaitObserve, shared, Stopping
  <2> QED BY <2>1, Zenon DEF OneEach, Stopping
<1>8. CASE UNCHANGED supervisor /\ ~ SupervisorStep
  <2>1. UNCHANGED <<supc, attempt>> /\ ~ SpawnIngest /\ ~ SpawnCompute
    BY <1>8, Zenon DEF supervisor, SupervisorStep
  <2>2. supc \in {"shutdown"} \cup Stopping => proc'["compute"] = proc["compute"]
    BY <1>1, <2>1, EndedKept, ZenonT(30) DEF Supervised, Stopping
  <2>3. supc \in {"observe", "ingest"} => UNCHANGED <<next, queue, ring>>
    <3> SUFFICES ASSUME supc \in {"observe", "ingest"}
                 PROVE  UNCHANGED <<next, queue, ring>>
      BY Zenon
    <3>1. spc = "off" /\ fpc = "off"
      BY <1>1, Zenon DEF Supervised, Threaded, IngestThreads
    <3>2. ~ SourceStep /\ ~ FramesStep /\ ~ IngestMain
      BY <3>1, Zenon DEF SourceStep, SourceRead, SourcePush, SourceNotify, SourceClose, FramesStep,
                  FramesPop, FramesNotify, FramesFull, FramesPush, IngestMain, IngestEnd, IngestExit
    <3>3. UNCHANGED <<next, queue>>
      <4>1. SpuriousWake \/ UNCHANGED ingest
        BY <1>2, <2>1, <3>2, IngestWriters, ZenonT(30)
      <4> QED BY <4>1, Zenon DEF SpuriousWake, ingest
    <3>4. ~ FramesPush
      BY <3>1, Zenon DEF FramesPush
    <3>5. ~ FastPop
      <4>1. FastPop => supc = "wait_compute"
        BY StageRuns, Zenon DEF FastPop, Threads, Stages
      <4> QED BY <4>1, Zenon
    <3> QED BY <3>3, <3>4, <3>5, RingWriters
  <2> QED BY <2>1, <2>2, <2>3, Zenon DEF OneEach
<1> QED
  BY <1>2, <1>3, <1>4, <1>5, <1>6, <1>7, <1>8, SupervisorWriters, ZenonT(30)
  DEF SupervisorStep, Calm

\* While the threads of ingest run, the shutdown flag is not up.
LEMMA IngestNotCut ==
  ASSUME ControlInv, OneEach, spc \notin {"off", "exit"}
  PROVE  ~ Stopped
<1> SUFFICES ASSUME Stopped
             PROVE  FALSE
  BY Zenon
<1>1. supc \in Stopping
  BY Zenon DEF ControlInv, ProcessInv, Supervised, OneEach
<1>2. control.fast_done = 1
  BY <1>1, Zenon DEF ControlInv, ProcessInv, Collected, OneEach
<1> QED BY <1>2, Zenon DEF ControlInv, ProcessInv, DoneInOrder

\* The frames in flight, by place.
LEMMA Places ==
  /\ InFlight = InFast \cup InRing \cup InHand \cup InQueue \cup InSource
  /\ InFlight' = InFast' \cup InRing' \cup InHand' \cup InQueue' \cup InSource'
BY Zenon DEF InFlight, InFast, InRing, InHand, InQueue, InSource

\* The places of a frame that a step leaves alone.
StillSource == InSource' = InSource /\ next' = next
StillQueue == queue' = queue
StillHand == InHand' = InHand
StillRing == ring' = ring
StillFast == InFast' = InFast /\ latest' = latest

\* The moves of a frame.
FrameRead ==
  /\ InSource = {} /\ next' = next + 1 /\ InSource' = {next + 1}
  /\ StillQueue /\ StillHand /\ StillRing /\ StillFast
FrameQueued ==
  /\ InSource = {next} /\ next' = next /\ InSource' = {} /\ queue' = Append(queue, next)
  /\ StillHand /\ StillRing /\ StillFast
FramePopped ==
  /\ queue # <<>> /\ queue' = Tail(queue) /\ InHand = {} /\ InHand' = {Head(queue)}
  /\ StillSource /\ StillRing /\ StillFast
FrameSkipped ==
  /\ InHand = {held} /\ InHand' = {} /\ ~ Replay[held].decodes
  /\ StillSource /\ StillQueue /\ StillRing /\ StillFast
RecordPushed ==
  /\ fpc = "push" /\ InHand = {held} /\ InHand' = {} /\ ring' = Append(ring, held)
  /\ StillSource /\ StillQueue /\ StillFast
RecordPopped ==
  /\ ring # <<>> /\ ring' = Tail(ring) /\ InFast = {} /\ latest' = latest
  /\ \/ InFast' = {Head(ring)} /\ Replay[Head(ring)].fits
     \/ InFast' = {} /\ ~ Replay[Head(ring)].fits
  /\ StillSource /\ StillQueue /\ StillHand
RecordPublished ==
  /\ FastPublish /\ InFast = {record} /\ InFast' = {}
  /\ StillSource /\ StillQueue /\ StillHand /\ StillRing
AllStill == StillSource /\ StillQueue /\ StillHand /\ StillRing /\ StillFast

\* A step of the source thread.
LEMMA SourceMoves ==
  ASSUME ControlInv, OneEach, SourceStep, OfIngest
  PROVE  FrameRead \/ FrameQueued \/ AllStill
<1>1. StillHand /\ StillRing /\ StillFast
  BY Zenon DEF SourceStep, SourceRead, SourcePush, SourceNotify, SourceClose, OfIngest, compute, InHand,
         InFast, StillHand, StillRing, StillFast
<1>2. ~ (closed /\ spc = "push")
  BY Zenon DEF ControlInv, ProcessInv, Threaded, IngestThreads
<1>3. CASE SourceRead
  BY <1>1, <1>3, Zenon DEF SourceRead, InSource, FrameRead, AllStill, StillSource, StillQueue
<1>4. CASE SourcePush
  BY <1>1, <1>2, <1>4 DEF SourcePush, InSource, FrameQueued, AllStill, StillSource, StillQueue
<1>5. CASE SourceNotify \/ SourceClose
  BY <1>1, <1>5 DEF SourceNotify, SourceClose, InSource, AllStill, StillSource, StillQueue
<1> QED BY <1>3, <1>4, <1>5 DEF SourceStep

\* A step of the frames thread.
LEMMA FramesMoves ==
  ASSUME ControlInv, OneEach, FramesStep, OfIngest
  PROVE  FramePopped \/ FrameSkipped \/ RecordPushed \/ AllStill
<1>1. StillSource /\ StillFast
  BY Zenon DEF FramesStep, FramesPop, FramesNotify, FramesFull, FramesPush, OfIngest, compute, InSource,
         InFast, StillSource, StillFast
<1>2. CASE FramesPop /\ UNCHANGED ring
  BY <1>1, <1>2, Zenon DEF FramesPop, InHand, FramePopped, AllStill, StillQueue, StillHand, StillRing
<1>3. CASE FramesNotify /\ UNCHANGED ring
  BY <1>1, <1>3, Zenon DEF FramesNotify, InHand, FrameSkipped, AllStill, StillQueue, StillHand, StillRing
<1>4. CASE FramesFull /\ UNCHANGED ring
  <2>1. ~ Stopped
    BY <1>4, IngestNotCut DEF FramesFull, ControlInv, ProcessInv, Threaded, IngestThreads
  <2> QED BY <1>1, <1>4, <2>1
          DEF FramesFull, TryAgain, InHand, AllStill, StillQueue, StillHand, StillRing
<1>5. CASE FramesPush
  BY <1>1, <1>5, Zenon DEF FramesPush, InHand, RecordPushed, AllStill, StillQueue, StillHand, StillRing
<1> QED BY <1>2, <1>3, <1>4, <1>5 DEF FramesStep

\* A step of the fast stage.
LEMMA FastMoves ==
  ASSUME ControlInv, FastStep, OfCompute
  PROVE  RecordPopped \/ RecordPublished \/ AllStill
<1>1. StillSource /\ StillQueue /\ StillHand
  BY Zenon DEF OfCompute, ingest, InSource, InHand, StillSource, StillQueue, StillHand
<1>2. cpc \in [Threads -> {"off", "loop", "drain", "publish", "check", "rows", "last",
                           "finish", "end", "exit"}]
      /\ "fast" \in Threads
  BY Zenon DEF ControlInv, ProcessInv, TypeOK, ComputeTypeOK, Threads, Stages
<1>3. CASE FastPop
  BY <1>1, <1>2, <1>3 DEF FastPop, Goto, InFast, RecordPopped
<1>4. CASE FastPublish
  BY <1>1, <1>2, <1>4 DEF FastPublish, Goto, InFast, RecordPublished, StillRing
<1>5. CASE FastLoop \/ FastEmpty \/ FastCheck \/ FastFinish
  <2>1. UNCHANGED <<ring, latest, record>> /\ cpc["fast"] # "publish" /\ cpc'["fast"] # "publish"
    BY <1>2, <1>5, ZenonT(30) DEF FastLoop, FastEmpty, FastCheck, FastFinish, Goto
  <2> QED BY <1>1, <2>1 DEF InFast, AllStill, StillRing, StillFast
<1> QED BY <1>3, <1>4, <1>5 DEF FastStep

\* No other step moves a frame.
LEMMA OtherMoves ==
  ASSUME ControlInv, OneEach, [Next]_vars, Calm,
         ~ (SourceStep /\ OfIngest), ~ (FramesStep /\ OfIngest), ~ (FastStep /\ OfCompute)
  PROVE  AllStill
<1>1. ring' = ring
  BY RingWriters, ZenonT(30) DEF FramesStep, FastStep
<1>2. latest' = latest
  BY RowWriters, ZenonT(30) DEF FastStep
<1>3. InSource' = InSource /\ next' = next /\ queue' = queue /\ InHand' = InHand
  <2>1. CASE SpawnIngest
    <3>1. IngestTo("read", "pop") /\ supc = "ingest"
      BY <2>1, Zenon DEF SpawnIngest, Calm
    <3>2. spc = "off" /\ fpc = "off" /\ next = 0 /\ queue = <<>>
      BY <3>1, Zenon DEF ControlInv, ProcessInv, Supervised, Threaded, IngestThreads, OneEach
    <3> QED BY <3>1, <3>2 DEF IngestTo, InSource, InHand
  <2>2. CASE IngestMain
    BY <2>2, Zenon DEF IngestMain, IngestEnd, IngestExit, InSource, InHand
  <2>3. CASE SpuriousWake
    BY <2>3, Zenon DEF SpuriousWake, InSource, InHand
  <2>4. CASE UNCHANGED ingest
    BY <2>4, Zenon DEF ingest, InSource, InHand
  <2>5. ~ Kill /\ ~ Signal
    BY FirstPassSteps, ZenonT(30) DEF Calm
  <2> QED BY <2>1, <2>2, <2>3, <2>4, <2>5, IngestWriters, ZenonT(30)
<1>4. InFast' = InFast
  <2>1. "fast" \in Threads
    BY Zenon DEF Threads, Stages
  <2>2. CASE SpawnCompute /\ ComputeTo("loop")
    <3>1. cpc["fast"] # "publish"
      BY <2>1, <2>2, StageRuns DEF SpawnCompute
    <3>2. cpc'["fast"] = "loop"
      BY <2>1, <2>2, Zenon DEF ComputeTo, AllAt
    <3> QED BY <3>1, <3>2, ZenonT(30) DEF InFast
  <2>3. CASE ComputeExit /\ ComputeTo("off")
    <3>1. cpc["fast"] = "exit"
      BY <2>1, <2>3, Zenon DEF ComputeExit, AllAt
    <3>2. cpc'["fast"] = "off"
      BY <2>1, <2>3, Zenon DEF ComputeTo, AllAt
    <3> QED BY <3>1, <3>2, Zenon DEF InFast
  <2>4. CASE UNCHANGED <<cpc["fast"], record>>
    BY <2>4, Zenon DEF InFast
  <2>5. UNCHANGED compute => UNCHANGED <<cpc["fast"], record>>
    BY Zenon DEF compute
  <2>6. CASE cpc["fast"] = "end" /\ cpc'["fast"] = "exit"
    BY <2>6, Zenon DEF InFast
  <2> QED BY <2>1, <2>2, <2>3, <2>4, <2>5, <2>6, ThreadMoves, Zenon
<1> QED BY <1>1, <1>2, <1>3, <1>4
        DEF AllStill, StillSource, StillQueue, StillHand, StillRing, StillFast

\* So a calm step is one of the moves, or moves no frame.
LEMMA FrameMoves ==
  ASSUME ControlInv, OneEach, [Next]_vars, Calm
  PROVE  \/ FrameRead \/ FrameQueued \/ FramePopped \/ FrameSkipped
         \/ RecordPushed \/ RecordPopped \/ RecordPublished \/ AllStill
BY SourceMoves, FramesMoves, FastMoves, OtherMoves, ZenonT(30)

------------------------------------------------------------------------------
(* The order of the frames *)

\* The frames stay in file order on their way.
LEMMA OrderedKept ==
  ASSUME ControlInv, TypeOK', Ordered, OneEach, [Next]_vars, Calm
  PROVE  Ordered'
<1> DEFINE rest == InFast \cup InRing \cup InHand \cup InQueue \cup InSource
           rows == {latest[id].sequence : id \in Sources}
           Chain == /\ Before(InFast, InRing \cup InHand \cup InQueue \cup InSource)
                    /\ Before(InRing, InHand \cup InQueue \cup InSource)
                    /\ Before(InHand, InQueue \cup InSource)
                    /\ Before(InQueue, InSource)
                    /\ rest \subseteq 1 .. next
                    /\ Before(rows, rest)
                    /\ \A m \in rows : m <= next
<1>1. Chain /\ Increasing(queue) /\ Increasing(ring)
  BY Places, Zenon DEF Ordered, Before
<1>2. TypeOK /\ Threaded
  BY ZenonT(30) DEF ControlInv, ProcessInv
<1>3. /\ queue \in Seq(Records) /\ ring \in Seq(Records) /\ next \in Nat /\ next' \in Nat
      /\ queue' \in Seq(Records) /\ ring' \in Seq(Records)
  BY <1>2, LayoutAssumption DEF TypeOK, LayoutTypeOK, IngestTypeOK
<1>4. \A m \in rows : m \in Nat
  <2>1. \A id \in Sources : latest[id] \in Row
    BY <1>2, Zenon DEF TypeOK, LayoutTypeOK
  <2>2. \A id \in Sources : latest[id].sequence \in Nat
    BY <2>1, Zenon DEF Row
  <2> QED BY <2>2, Zenon
<1> SUFFICES Chain' /\ Increasing(queue') /\ Increasing(ring')
  <2>1. ASSUME Chain', Increasing(queue'), Increasing(ring')
        PROVE  Ordered'
    BY <2>1, Places, Zenon DEF Ordered, Before
  <2> QED BY <2>1, Zenon
<1>5. (latest' = latest => rows' = rows) /\ (StillQueue => InQueue' = InQueue)
      /\ (StillRing => InRing' = InRing)
  BY Zenon DEF StillQueue, StillRing, InQueue, InRing
<1>6. CASE AllStill
  <2>1. /\ InFast' = InFast /\ InRing' = InRing /\ InHand' = InHand /\ InQueue' = InQueue
        /\ InSource' = InSource /\ next' = next /\ rows' = rows
        /\ queue' = queue /\ ring' = ring
    BY <1>5, <1>6, ZenonT(30) DEF AllStill, StillSource, StillQueue, StillHand, StillRing, StillFast
  <2> HIDE DEF rows
  <2> QED BY <1>1, <2>1, Zenon
<1>7. CASE FrameRead
  <2>1. /\ InFast' = InFast /\ InRing' = InRing /\ InHand' = InHand /\ InQueue' = InQueue
        /\ InSource = {} /\ InSource' = {next + 1} /\ next' = next + 1 /\ rows' = rows
        /\ queue' = queue /\ ring' = ring
    BY <1>5, <1>7, Zenon DEF FrameRead, StillQueue, StillHand, StillRing, StillFast
  <2>2. Before(rest, {next + 1}) /\ rest' = rest \cup {next + 1} /\ rest' \subseteq 1 .. next'
    <3>1. rest' = rest \cup {next + 1}
      BY <2>1, Zenon
    <3>2. \A m \in rest : m < next + 1 /\ m \in 1 .. next + 1
      BY <1>1, <1>3
    <3>3. next + 1 \in 1 .. next + 1
      BY <1>3
    <3> QED BY <2>1, <3>1, <3>2, <3>3, ZenonT(30) DEF Before
  <2>3. \A m \in rows : m <= next
    BY <1>1, Zenon
  <2> HIDE DEF rows
  <2>4. Before(rows, {next + 1}) /\ \A m \in rows : m <= next'
    BY <1>3, <1>4, <2>1, <2>3 DEF Before
  <2> QED BY <1>1, <2>1, <2>2, <2>4 DEF Before
<1>8. CASE FrameQueued
  <2>1. /\ InFast' = InFast /\ InRing' = InRing /\ InHand' = InHand
        /\ InSource = {next} /\ InSource' = {} /\ next' = next /\ rows' = rows
        /\ queue' = Append(queue, next) /\ ring' = ring
    BY <1>5, <1>8, Zenon DEF FrameQueued, StillHand, StillRing, StillFast
  <2>2. next \in Records
    <3>1. next \in 1 .. next
      BY <1>1, <2>1
    <3>2. Len(Replay) \in Nat /\ next \in 0 .. Len(Replay)
      BY <1>2, LayoutAssumption DEF TypeOK, IngestTypeOK
    <3> QED BY <3>1, <3>2 DEF Records
  <2>3. InQueue' = InQueue \cup {next} /\ Increasing(queue')
    BY <1>1, <1>3, <2>1, <2>2, ElementsPushed, ZenonT(30) DEF InQueue
  <2> HIDE DEF rows
  <2> QED BY <1>1, <2>1, <2>3 DEF Before
<1>9. CASE FramePopped
  <2>1. /\ InFast' = InFast /\ InRing' = InRing /\ InHand = {} /\ InHand' = {Head(queue)}
        /\ InSource' = InSource /\ next' = next /\ rows' = rows
        /\ queue # <<>> /\ queue' = Tail(queue) /\ ring' = ring
    BY <1>5, <1>9, Zenon DEF FramePopped, StillSource, StillRing, StillFast
  <2>2. /\ InQueue = {Head(queue)} \cup InQueue' /\ Increasing(queue')
        /\ Before({Head(queue)}, InQueue')
    BY <1>1, <1>3, <2>1, ElementsPopped, ZenonT(30) DEF InQueue
  <2> HIDE DEF rows
  <2> QED BY <1>1, <2>1, <2>2 DEF Before
<1>10. CASE FrameSkipped
  <2>1. /\ InFast' = InFast /\ InRing' = InRing /\ InHand' = {} /\ InQueue' = InQueue
        /\ InSource' = InSource /\ next' = next /\ rows' = rows
        /\ queue' = queue /\ ring' = ring
    BY <1>5, <1>10 DEF FrameSkipped, StillSource, StillQueue, StillRing, StillFast
  <2> HIDE DEF rows
  <2> QED BY <1>1, <2>1 DEF Before
<1>11. CASE RecordPushed
  <2>1. /\ InFast' = InFast /\ InHand = {held} /\ InHand' = {} /\ InQueue' = InQueue
        /\ InSource' = InSource /\ next' = next /\ rows' = rows
        /\ queue' = queue /\ ring' = Append(ring, held)
    BY <1>5, <1>11, ZenonT(30) DEF RecordPushed, StillSource, StillQueue, StillFast
  <2>2. held \in Records
    <3>1. held \in 1 .. next
      BY <1>1, <2>1
    <3>2. Len(Replay) \in Nat /\ next \in 0 .. Len(Replay)
      BY <1>2, LayoutAssumption DEF TypeOK, IngestTypeOK
    <3> QED BY <3>1, <3>2 DEF Records
  <2>3. InRing' = InRing \cup {held} /\ Increasing(ring')
    <3>1. Before(InRing, {held})
      BY <1>1, <2>1, ZenonT(30) DEF Before
    <3> QED BY <1>1, <1>3, <2>1, <2>2, <3>1, ElementsPushed DEF InRing
  <2> HIDE DEF rows
  <2> QED BY <1>1, <2>1, <2>3 DEF Before
<1>12. CASE RecordPopped
  <2>1. /\ InFast = {} /\ InFast' \subseteq {Head(ring)} /\ InHand' = InHand
        /\ InQueue' = InQueue /\ InSource' = InSource /\ next' = next /\ rows' = rows
        /\ queue' = queue /\ ring # <<>> /\ ring' = Tail(ring)
    BY <1>5, <1>12, Zenon DEF RecordPopped, StillSource, StillQueue, StillHand
  <2>2. /\ InRing = {Head(ring)} \cup InRing' /\ Increasing(ring')
        /\ Before({Head(ring)}, InRing')
    BY <1>1, <1>3, <2>1, ElementsPopped, ZenonT(30) DEF InRing
  <2> HIDE DEF rows
  <2> QED BY <1>1, <2>1, <2>2 DEF Before
<1>13. CASE RecordPublished
  <2>1. /\ InFast = {record} /\ InFast' = {} /\ InRing' = InRing /\ InHand' = InHand
        /\ InQueue' = InQueue /\ InSource' = InSource /\ next' = next
        /\ queue' = queue /\ ring' = ring
    BY <1>5, <1>13, ZenonT(30) DEF RecordPublished, StillSource, StillQueue, StillHand, StillRing
  <2>2. \A m \in rows' : m \in rows \cup {record}
    <3>1. \A id \in Sources : latest'[id].sequence \in rows \cup {record}
      <4>1. latest'[Replay[record].id].sequence = record
        BY <1>2, <1>13, RowPublished DEF RecordPublished
      <4>2. \A id \in Sources \ {Replay[record].id} : latest'[id] = latest[id]
        BY <1>2, <1>13, RowPublished, ZenonT(30) DEF RecordPublished
      <4> QED BY <4>1, <4>2, ZenonT(30)
    <3> QED BY <3>1, Zenon
  <2> HIDE DEF rows
  <2>3. record \in 1 .. next
    BY <1>1, <2>1, ZenonT(30)
  <2>4. Before({record}, rest') /\ rest' \subseteq rest
    BY <1>1, <2>1, ZenonT(30) DEF Before
  <2>5. \A m \in rows' : m <= next'
    BY <1>1, <1>3, <2>1, <2>2, <2>3
  <2>6. Before(rows', rest')
    BY <1>1, <2>2, <2>4, ZenonT(30) DEF Before
  <2> QED BY <1>1, <2>1, <2>4, <2>5, <2>6 DEF Before
<1> QED BY <1>6, <1>7, <1>8, <1>9, <1>10, <1>11, <1>12, <1>13, FrameMoves, ZenonT(30)

------------------------------------------------------------------------------
(* What has been checked *)

\* A frame is pushed only once decode_frame has accepted it.
LEMMA HandChecked ==
  ASSUME ControlInv, [Next]_vars, Calm, fpc' \in {"push", "full"}
  PROVE  (held' = held /\ fpc \in {"push", "full"}) \/ Replay[held'].decodes
<1>1. ~ Kill /\ ~ Signal
  BY FirstPassSteps, Zenon DEF Calm
<1>2. CASE SourceStep \/ SpuriousWake \/ UNCHANGED ingest
  BY <1>2, Zenon DEF SourceStep, SourceRead, SourcePush, SourceNotify, SourceClose, SpuriousWake, ingest
<1>3. CASE SpawnIngest
  <2>1. IngestTo("read", "pop")
    BY <1>3, Zenon DEF SpawnIngest, Calm
  <2> QED BY <2>1, Zenon DEF IngestTo
<1>4. CASE IngestMain
  BY <1>4, Zenon DEF IngestMain, IngestEnd, IngestExit
<1>5. CASE FramesStep
  BY <1>5, Zenon DEF FramesStep, FramesPop, FramesNotify, FramesFull, FramesPush
<1> QED BY <1>1, <1>2, <1>3, <1>4, <1>5, IngestWriters, ZenonT(30)

\* The ring and the fast stage hold only records that decode_frame accepted,
\* and the fast stage publishes only those that integrate accepted.
LEMMA CheckedKept ==
  ASSUME ControlInv, Ordered, Checked, OneEach, [Next]_vars, Calm
  PROVE  Checked'
<1>1. TypeOK
  BY Zenon DEF ControlInv, ProcessInv
<1>2. queue \in Seq(Records) /\ ring \in Seq(Records)
  BY <1>1, ZenonT(30) DEF TypeOK, LayoutTypeOK, IngestTypeOK
<1>3. fpc' \in {"push", "full"} => Replay[held'].decodes
  BY HandChecked, Zenon DEF Checked
<1>4. CASE FrameRead \/ FrameQueued \/ FramePopped \/ FrameSkipped \/ AllStill
  <2>1. InRing' = InRing /\ InFast' = InFast
    BY <1>4, Zenon DEF FrameRead, FrameQueued, FramePopped, FrameSkipped, AllStill, StillRing, StillFast,
                InRing
  <2> QED BY <1>3, <2>1, Zenon DEF Checked
<1>5. CASE RecordPushed
  <2>1. fpc = "push" /\ ring' = Append(ring, held) /\ InFast' = InFast /\ InHand = {held}
    BY <1>5, ZenonT(30) DEF RecordPushed, StillFast
  <2>2. held \in Records
    <3>1. held \in 1 .. next
      BY <2>1, Places, ZenonT(30) DEF Ordered
    <3>2. Len(Replay) \in Nat /\ next \in 0 .. Len(Replay)
      BY <1>1, LayoutAssumption DEF TypeOK, IngestTypeOK
    <3> QED BY <3>1, <3>2 DEF Records
  <2>3. InRing' = InRing \cup {held}
    BY <1>2, <2>1, <2>2, ElementsPushed, ZenonT(30) DEF InRing
  <2> QED BY <1>3, <2>1, <2>3, ZenonT(30) DEF Checked
<1>6. CASE RecordPopped
  <2>1. /\ ring # <<>> /\ ring' = Tail(ring)
        /\ \A n \in InFast' : n = Head(ring) /\ Replay[n].fits
    BY <1>6, Zenon DEF RecordPopped
  <2>2. InRing = {Head(ring)} \cup InRing'
    BY <1>2, <2>1, ElementsPopped, ZenonT(30) DEF InRing, Ordered
  <2> QED BY <1>3, <2>1, <2>2, ZenonT(30) DEF Checked
<1>7. CASE RecordPublished
  <2>1. InRing' = InRing /\ InFast' = {}
    BY <1>7, Zenon DEF RecordPublished, StillRing, InRing
  <2> QED BY <1>3, <2>1, ZenonT(30) DEF Checked
<1> QED BY <1>4, <1>5, <1>6, <1>7, FrameMoves, ZenonT(30)

------------------------------------------------------------------------------
(* The count *)

Good(id, n) == Replay[n].id = id /\ Replay[n].decodes /\ Replay[n].fits

\* A frame has arrived when it has been read, is good and is in no place.
LEMMA ArrivedGood ==
  ASSUME NEW id
  PROVE  /\ Arrived(id) = {n \in 1 .. next : Good(id, n) /\ n \notin InFlight}
         /\ Arrived(id)' = {n \in 1 .. next' : Good(id, n) /\ n \notin InFlight'}
BY Zenon DEF Arrived, Good

\* Only the fast stage's publication makes a frame arrive.
LEMMA NoneArrives ==
  ASSUME ControlInv, Ordered, Checked, OneEach, [Next]_vars, Calm, ~ RecordPublished, NEW id
  PROVE  Arrived(id)' = Arrived(id) /\ latest' = latest
<1>1. /\ queue \in Seq(Records) /\ ring \in Seq(Records) /\ next \in 0 .. Len(Replay)
      /\ Len(Replay) \in Nat
  BY LayoutAssumption DEF ControlInv, ProcessInv, TypeOK, LayoutTypeOK, IngestTypeOK
<1>2. InFlight \subseteq 1 .. next
  BY Zenon DEF Ordered
<1>3. CASE FrameRead
  <2>1. next' = next + 1 /\ InFlight' = InFlight \cup {next + 1} /\ latest' = latest
    BY <1>3, Places, ZenonT(30)
    DEF FrameRead, StillQueue, StillHand, StillRing, StillFast, InQueue, InRing
  <2>2. \A n : n \in 1 .. next' /\ n \notin InFlight' <=> n \in 1 .. next /\ n \notin InFlight
    BY <1>1, <2>1
  <2> QED BY <2>1, <2>2, ArrivedGood, ZenonT(30)
<1>4. CASE AllStill \/ FrameQueued \/ FramePopped \/ RecordPushed
  <2>1. next' = next /\ latest' = latest
    BY <1>4, Zenon DEF AllStill, FrameQueued, FramePopped, RecordPushed, StillSource, StillFast
  <2>2. InFlight' = InFlight
    <3>1. CASE AllStill
      BY <3>1, Places DEF AllStill, StillSource, StillQueue, StillHand, StillRing, StillFast,
                          InQueue, InRing
    <3>2. CASE FrameQueued
      <4>1. next \in Records
        BY <1>1, <1>2, <3>2, Places DEF FrameQueued, Records
      <4>2. InQueue' = InQueue \cup {next}
        BY <1>1, <3>2, <4>1, ElementsPushed, ZenonT(30) DEF FrameQueued, InQueue
      <4> QED BY <3>2, <4>2, Places DEF FrameQueued, StillHand, StillRing, StillFast, InRing
    <3>3. CASE FramePopped
      <4>1. InQueue = {Head(queue)} \cup InQueue'
        BY <1>1, <3>3, ElementsPopped, ZenonT(30) DEF FramePopped, InQueue, Ordered
      <4> QED BY <3>3, <4>1, Places, ZenonT(30) DEF FramePopped, StillSource, StillRing, StillFast, InRing
    <3>4. CASE RecordPushed
      <4>1. held \in Records
        <5>1. held \in 1 .. next
          BY <1>2, <3>4, Places, ZenonT(30) DEF RecordPushed
        <5> QED BY <1>1, <5>1 DEF Records
      <4>2. InRing' = InRing \cup {held}
        BY <1>1, <3>4, <4>1, ElementsPushed, ZenonT(30) DEF RecordPushed, InRing
      <4> QED BY <3>4, <4>2, Places, ZenonT(30) DEF RecordPushed, StillSource, StillQueue, StillFast, InQueue
    <3> QED BY <1>4, <3>1, <3>2, <3>3, <3>4, ZenonT(30)
  <2> QED BY <2>1, <2>2, ArrivedGood, ZenonT(30)
<1>5. CASE FrameSkipped
  <2>1. /\ next' = next /\ latest' = latest /\ InFlight = InFlight' \cup {held}
        /\ ~ Replay[held].decodes
    BY <1>5, Places, ZenonT(30) DEF FrameSkipped, StillSource, StillQueue, StillRing, StillFast, InQueue,
                        InRing
  <2> QED BY <2>1, ArrivedGood, ZenonT(30) DEF Good
<1>6. CASE RecordPopped
  <2>1. InRing = {Head(ring)} \cup InRing'
    BY <1>1, <1>6, ElementsPopped, ZenonT(30) DEF RecordPopped, InRing, Ordered
  <2>2. /\ next' = next /\ latest' = latest
        /\ \/ InFlight' = InFlight
           \/ InFlight = InFlight' \cup {Head(ring)} /\ ~ Replay[Head(ring)].fits
    BY <1>6, <2>1, Places, ZenonT(30) DEF RecordPopped, StillSource, StillQueue, StillHand, InQueue
  <2> QED BY <2>2, ArrivedGood, ZenonT(30) DEF Good
<1> QED BY <1>3, <1>4, <1>5, <1>6, FrameMoves, ZenonT(30)

\* FastPublish takes its record out of the pipe, and the row counts it.
LEMMA OneArrives ==
  ASSUME ControlInv, Ordered, Checked, RecordPublished, NEW id
  PROVE  /\ record \in 1 .. next /\ record \notin Arrived(id)
         /\ Replay[record].id = id => Arrived(id)' = Arrived(id) \cup {record}
         /\ Replay[record].id # id => Arrived(id)' = Arrived(id)
<1>1. /\ InFast = {record} /\ InFast' = {} /\ InRing' = InRing /\ InHand' = InHand
      /\ InQueue' = InQueue /\ InSource' = InSource /\ next' = next
  BY Zenon DEF RecordPublished, StillSource, StillQueue, StillHand, StillRing, InRing, InQueue
<1>2. record \in 1 .. next /\ next \in Nat
  <2>1. record \in InFlight
    BY <1>1, Places, ZenonT(30)
  <2>2. next \in Nat
    BY LayoutAssumption DEF ControlInv, ProcessInv, TypeOK, IngestTypeOK
  <2> QED BY <2>1, <2>2, ZenonT(30) DEF Ordered
<1>3. record \notin InFlight'
  <2>1. ~ (record < record)
    BY <1>2
  <2>2. \A n \in InRing \cup InHand \cup InQueue \cup InSource : record < n
    BY <1>1, Zenon DEF Ordered, Before
  <2>3. InFlight' = InRing \cup InHand \cup InQueue \cup InSource
    BY <1>1, Places, ZenonT(30)
  <2> QED BY <2>1, <2>2, <2>3, ZenonT(30)
<1>4. InFlight = InFlight' \cup {record}
  BY <1>1, Places, ZenonT(30)
<1>5. Good(id, record) <=> Replay[record].id = id
  BY <1>1, Zenon DEF Checked, Good
<1>6. /\ Arrived(id) = {n \in 1 .. next : Good(id, n) /\ n \notin InFlight}
      /\ Arrived(id)' = {n \in 1 .. next : Good(id, n) /\ n \notin InFlight'}
  BY <1>1, ArrivedGood, ZenonT(30)
<1>7. record \notin Arrived(id)
  BY <1>4, <1>6, ZenonT(30)
<1>8. \A n : n \notin InFlight' <=> n \notin InFlight \/ n = record
  BY <1>3, <1>4, ZenonT(30)
<1>9. Good(id, record) => Arrived(id)' = Arrived(id) \cup {record}
  BY <1>2, <1>6, <1>8, ZenonT(30)
<1>10. ~ Good(id, record) => Arrived(id)' = Arrived(id)
  BY <1>6, <1>8, ZenonT(30)
<1> QED BY <1>2, <1>5, <1>7, <1>9, <1>10

\* The rows go on counting what has left the pipe.
LEMMA TallyKept ==
  ASSUME ControlInv, Ordered, Checked, Tally, OneEach, [Next]_vars, Calm
  PROVE  Tally'
<1> DEFINE Row1(id) == /\ latest[id].publishes = Cardinality(Arrived(id))
                       /\ \A n \in Arrived(id) : n <= latest[id].sequence
                       /\ latest[id].publishes > 0 => latest[id].sequence \in Arrived(id)
                       /\ latest[id].by = 0 => latest[id].publishes = 0
<1> SUFFICES ASSUME NEW id \in Sources
             PROVE  Row1(id)'
  BY Zenon DEF Tally
<1>1. Row1(id)
  BY Zenon DEF Tally
<1>2. CASE ~ RecordPublished
  <2>1. Arrived(id)' = Arrived(id) /\ latest' = latest
    BY <1>2, NoneArrives, ZenonT(30)
  <2> QED BY <1>1, <2>1, ZenonT(30)
<1>3. CASE RecordPublished
  <2> DEFINE id0 == Replay[record].id
  <2>1. /\ id0 \in Sources /\ Running("compute")
        /\ latest'[id0] = [publishes |-> publishes[id0] + 1, sequence |-> record,
                           by |-> control.generation]
        /\ \A i \in Sources \ {id0} : latest'[i] = latest[i]
    BY <1>3, RowPublished, ZenonT(30) DEF RecordPublished, ControlInv, ProcessInv
  <2>2. /\ record \in 1 .. next /\ record \notin Arrived(id)
        /\ id0 = id => Arrived(id)' = Arrived(id) \cup {record}
        /\ id0 # id => Arrived(id)' = Arrived(id)
    BY <1>3, OneArrives, ZenonT(30)
  <2> HIDE DEF id0
  <2>3. CASE id # id0
    <3>1. latest'[id] = latest[id] /\ Arrived(id)' = Arrived(id)
      BY <2>1, <2>2, <2>3
    <3> QED BY <1>1, <3>1, ZenonT(30)
  <2>4. CASE id = id0
    <3>1. /\ latest'[id].publishes = publishes[id] + 1 /\ latest'[id].sequence = record
          /\ latest'[id].by = 1
      BY <2>1, <2>4 DEF Calm, Undisturbed
    <3>2. publishes[id] = latest[id].publishes
      <4>1. latest[id] \in Row /\ control.generation = 1
        BY Zenon DEF ControlInv, ProcessInv, TypeOK, LayoutTypeOK, Calm, Undisturbed
      <4>2. latest[id].by \in Nat /\ latest[id].by <= 1
        BY <4>1, ZenonT(30) DEF Row, ControlInv, ProcessInv, Counted
      <4>3. publishes[id] = IF latest[id].by = 1 THEN latest[id].publishes ELSE 0
        BY <2>1, <4>1, ZenonT(30) DEF ControlInv, ProcessInv, Counted
      <4> QED BY <1>1, <4>2, <4>3
    <3>3. Arrived(id) \subseteq 1 .. next /\ next \in Nat /\ record \in 1 .. next
      <4>1. Arrived(id) \subseteq 1 .. next
        BY ArrivedGood, ZenonT(30)
      <4>2. next \in Nat
        BY LayoutAssumption DEF ControlInv, ProcessInv, TypeOK, IngestTypeOK
      <4> QED BY <2>2, <4>1, <4>2, ZenonT(30)
    <3>4. IsFiniteSet(Arrived(id))
      <4>1. IsFiniteSet(1 .. next)
        BY <3>3, FS_Interval
      <4> QED BY <3>3, <4>1, FS_Subset, ZenonT(30)
    <3>5. Cardinality(Arrived(id) \cup {record}) = Cardinality(Arrived(id)) + 1
      BY <2>2, <2>4, <3>4, FS_AddElement, ZenonT(30)
    <3>6. latest'[id].publishes = Cardinality(Arrived(id)')
      BY <1>1, <2>2, <2>4, <3>1, <3>2, <3>5, ZenonT(30)
    <3>7. latest[id].sequence \in Nat /\ latest[id].sequence < record
      <4>1. record \in InFlight
        BY <1>3, Places, ZenonT(30) DEF RecordPublished
      <4>2. latest[id] \in Row
        BY Zenon DEF ControlInv, ProcessInv, TypeOK, LayoutTypeOK
      <4>3. latest[id].sequence < record
        BY <4>1, ZenonT(30) DEF Ordered, Before
      <4> QED BY <4>2, <4>3, ZenonT(30) DEF Row
    <3>8. \A n \in Arrived(id)' : n <= latest'[id].sequence
      <4>1. \A n \in Arrived(id) : n \in Nat /\ n <= latest[id].sequence
        BY <1>1, <3>3
      <4> QED BY <2>2, <2>4, <3>1, <3>3, <3>7, <4>1
    <3>9. latest'[id].sequence \in Arrived(id)'
      BY <2>2, <2>4, <3>1, ZenonT(30)
    <3> QED BY <3>1, <3>6, <3>8, <3>9
  <2> QED BY <2>3, <2>4, ZenonT(30)
<1> QED BY <1>2, <1>3, ZenonT(30)

\* The pipe is empty at the start, and no row counts anything.
LEMMA RecordsInit ==
  ASSUME Init
  PROVE  RecordsInv
<1>1. /\ queue = <<>> /\ ring = <<>> /\ next = 0 /\ spc = "off" /\ fpc = "off"
      /\ supc = "observe" /\ attempt = 1 /\ latest = EmptyRows
  BY Zenon DEF Init, IngestInit, LayoutInit
<1>2. cpc["fast"] = "off"
  BY Zenon DEF Init, ComputeInit, AllAt, Threads, Stages
<1>3. /\ InFast = {} /\ InRing = {} /\ InHand = {} /\ InQueue = {} /\ InSource = {}
      /\ InFlight = {}
  <2>1. Elements(<<>>) = {}
    BY DEF Elements
  <2>2. InFast = {} /\ InRing = {} /\ InHand = {} /\ InQueue = {} /\ InSource = {}
    BY <1>1, <1>2, <2>1, ZenonT(30) DEF InFast, InRing, InHand, InQueue, InSource
  <2> QED BY <2>2, Places, ZenonT(30)
<1>4. \A id \in Sources : latest[id] = EmptyRow
  BY <1>1, ZenonT(30) DEF EmptyRows
<1>5. Ordered
  BY <1>1, <1>3, <1>4 DEF Ordered, Increasing, Before, EmptyRow
<1>6. Checked
  BY <1>1, <1>3, ZenonT(30) DEF Checked
<1>7. Tally
  <2>1. ASSUME NEW id \in Sources
        PROVE  Arrived(id) = {}
    BY <1>1 DEF Arrived
  <2>2. Cardinality({}) = 0
    BY FS_EmptySet, Zenon
  <2>3. \A id \in Sources : latest[id].publishes = 0
    BY <1>4 DEF EmptyRow
  <2> QED BY <2>1, <2>2, <2>3 DEF Tally
<1>8. OneEach
  BY <1>1, Zenon DEF OneEach, Stopping
<1> QED BY <1>5, <1>6, <1>7, <1>8 DEF RecordsInv

\* Every step keeps it.
LEMMA RecordsStep ==
  ASSUME ControlInv, TypeOK', RecordsInv, [Next]_vars
  PROVE  RecordsInv'
<1> SUFFICES ASSUME Undisturbed'
             PROVE  Ordered' /\ Checked' /\ Tally' /\ OneEach'
  BY Zenon DEF RecordsInv
<1>1. Calm
  BY FirstPassSteps, Zenon
<1>2. Ordered /\ Checked /\ Tally /\ OneEach
  BY <1>1, Zenon DEF RecordsInv, Calm
<1> QED BY <1>1, <1>2, OrderedKept, CheckedKept, TallyKept, OneEachKept

\* In the first pass the frames travel in file order through the queue, the
\* frames thread, the ring and the fast stage, and the rows count the good ones
\* that have left.
THEOREM RecordsInvariant == SafetySpec => []RecordsInv
<1>1. Init => RecordsInv
  BY RecordsInit, Zenon
<1>2. ControlInv /\ TypeOK' /\ RecordsInv /\ [Next]_vars => RecordsInv'
  BY RecordsStep, Zenon
<1> QED BY <1>1, <1>2, ControlInvariant, PipelineTypes, PTL DEF SafetySpec

\* Every good record is integrated and published exactly once and in file order:
\* process_frames, the ring and run_fast neither lose, repeat nor reorder one.
THEOREM RecordsOnce == SafetySpec => []ExactlyOnce
<1>1. RecordsInv => ExactlyOnce
  BY Zenon DEF RecordsInv, Tally, ExactlyOnce
<1> QED BY <1>1, RecordsInvariant, PTL
==============================================================================
