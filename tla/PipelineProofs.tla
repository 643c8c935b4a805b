---------------------------- MODULE PipelineProofs ---------------------------
(* What the processes of the composed system tell each other: the done       *)
(* flags, the exit codes the supervisor collects, the generations, and in a  *)
(* first pass without failure what each stage hands to the next.             *)
EXTENDS ProcessProofs

------------------------------------------------------------------------------
(* The invariant *)

\* The order of the done flags: who raised one had seen the one before, or its
\* thread is at its end.
DoneInOrder ==
  /\ supc \in {"observe", "ingest"} => control.ingest_done = 0
  /\ control.fast_done = 1 \/ cpc["fast"] \in {"finish", "end", "exit"} => control.ingest_done = 1
  /\ cpc["fast"] \in {"end", "exit"} => control.fast_done = 1
  /\ cpc["window"] \in {"end", "exit"} => control.window_done = 1
  /\ cpc["snapshot"] \in {"end", "exit"} => control.snapshot_done = 1
  /\ cpc["watchdog"] = "exit" => control.compute_done = 1
  /\ control.ingest_done = 1 => spc \in {"exit", "off"}
  /\ control.ingest_done = 1 /\ (~ Stopped \/ control.fast_done = 1)
       => next = readable /\ queue = <<>>
  /\ ~ Stopped /\ spc \in {"close", "end"} => next = readable
  /\ ~ Stopped /\ fpc = "end" => closed /\ queue = <<>>

\* What the supervisor has collected is what became of its children.
Collected ==
  /\ supc \in {"wait_compute", "shutdown"} \cup Stopping /\ proc["compute"] = "exit0" =>
       /\ control.fast_done = 1 /\ control.window_done = 1 /\ control.snapshot_done = 1
       /\ control.compute_done = 1 /\ control.fault = 0
  /\ supc \in {"shutdown"} \cup Stopping => exits["compute"] = Waited(proc["compute"])
  /\ supc \in Stopping \ {"wait_ingest"} => exits["ingest"] = Waited(proc["ingest"])
  /\ supc \in Stopping \ {"wait_ingest", "wait_publish"} =>
       /\ exits["publish"] = Waited(proc["publish"])
       /\ status = 0 => \A r \in Roles : exits[r] = "exit0"

\* The fast stage's count continues the rows of its own generation, and a
\* compute process that is still to come has a generation of its own.
Counted ==
  /\ control.generation >= 1
  /\ \A id \in Sources :
       /\ latest[id].by <= control.generation
       /\ supc \in {"observe", "ingest", "publish", "compute"}
            => latest[id].by < control.generation
       /\ Running("compute") =>
            publishes[id] = IF latest[id].by = control.generation
                            THEN latest[id].publishes ELSE 0

ControlInv == ProcessInv /\ DoneInOrder /\ Collected /\ Counted

------------------------------------------------------------------------------
(* The done flags *)

\* Only the reset goes back to before the ingest process.
LEMMA SupervisorBefore ==
  ASSUME TypeOK, [Next]_vars, supc' \in {"observe", "ingest"}
  PROVE  supc \in {"observe", "ingest"} \/ ResetControl
<1>1. CASE SpawnObserve \/ SpawnIngest \/ SpawnPublish \/ SpawnCompute
  BY <1>1, Zenon DEF SpawnObserve, SpawnIngest, SpawnPublish, SpawnCompute
<1>2. CASE \/ WaitCompute \/ RaiseShutdown \/ WaitIngest \/ WaitPublish \/ InstallHandlers
           \/ Hold \/ Release \/ WaitObserve
  BY <1>2, Zenon DEF WaitCompute, RaiseShutdown, WaitIngest, WaitPublish, InstallHandlers, Hold, Release,
              WaitObserve
<1>3. CASE Signal \/ UNCHANGED supervisor
  BY <1>3, SMTT(30) DEF Signal, supervisor
<1> QED BY <1>1, <1>2, <1>3, SupervisorWriters, ZenonT(30) DEF SupervisorStep

\* The flag of ingest is raised over a stream read to its end and an empty queue,
\* unless the shutdown flag cut it short.
IngestDone ==
  /\ supc \in {"observe", "ingest"} => control.ingest_done = 0
  /\ control.ingest_done = 1 => spc \in {"exit", "off"}
  /\ control.ingest_done = 1 /\ (~ Stopped \/ control.fast_done = 1)
       => next = readable /\ queue = <<>>
  /\ ~ Stopped /\ spc \in {"close", "end"} => next = readable
  /\ ~ Stopped /\ fpc = "end" => closed /\ queue = <<>>

\* The flags of the stages.
StagesDone ==
  /\ control.fast_done = 1 \/ cpc["fast"] \in {"finish", "end", "exit"} => control.ingest_done = 1
  /\ cpc["fast"] \in {"end", "exit"} => control.fast_done = 1
  /\ cpc["window"] \in {"end", "exit"} => control.window_done = 1
  /\ cpc["snapshot"] \in {"end", "exit"} => control.snapshot_done = 1
  /\ cpc["watchdog"] = "exit" => control.compute_done = 1

\* The order of the flags is that of ingest and that of the stages.
LEMMA DoneSplit == DoneInOrder <=> IngestDone /\ StagesDone
BY Zenon DEF DoneInOrder, IngestDone, StagesDone

\* run_ingest raises its flag only after both threads have joined.
LEMMA IngestDoneKept ==
  ASSUME TypeOK, Threaded, Supervised, DoneInOrder, [Next]_vars
  PROVE  IngestDone'
<1>1. IngestDone /\ StagesDone /\ IngestThreads /\ control \in ControlType
  BY DoneSplit, Zenon DEF Threaded, TypeOK, LayoutTypeOK, ControlType
<1>2. supc' \in {"observe", "ingest"} => supc \in {"observe", "ingest"} \/ ResetControl
  BY SupervisorBefore, Zenon
<1>3. CASE ResetControl
  <2>1. control'.ingest_done = 0 /\ UNCHANGED ingest
    BY <1>3, Zenon DEF ResetControl, FreshControl
  <2>2. spc = "off" /\ fpc = "off"
    BY <1>1, <1>3, Zenon DEF ResetControl, Supervised, IngestThreads
  <2> QED BY <2>1, <2>2 DEF IngestDone, ingest
<1>4. CASE SpawnIngest
  <2>1. control.ingest_done = 0 /\ UNCHANGED control /\ supc' = "publish"
    BY <1>1, <1>4, Zenon DEF SpawnIngest, IngestDone
  <2>2. CASE IngestTo("read", "pop")
    BY <2>1, <2>2 DEF IngestTo, IngestDone
  <2>3. CASE UNCHANGED ingest
    BY <1>1, <2>1, <2>3, Zenon DEF ingest, IngestDone, Stopped
  <2> QED BY <1>4, <2>2, <2>3, SMTT(30) DEF SpawnIngest
<1>5. CASE Kill \/ Signal
  <2>1. UNCHANGED control /\ ~ ResetControl
    BY <1>5, SMTT(30) DEF Kill, Signal, supervisor, ResetControl
  <2>2. CASE Running("ingest") /\ IngestTo("off", "off")
    <3>1. spc' = "off" /\ fpc' = "off" /\ next' = readable' /\ queue' = <<>>
      BY <2>2 DEF IngestTo
    <3> QED BY <1>1, <1>2, <2>1, <3>1, SMTT(30) DEF IngestDone
  <2>3. CASE UNCHANGED ingest
    BY <1>1, <1>2, <2>1, <2>3, Zenon DEF ingest, IngestDone, Stopped
  <2> QED BY <1>5, <2>2, <2>3, Deaths, Zenon
<1>11. CASE IngestExit /\ UNCHANGED ring /\ OfIngest
  <2>1. UNCHANGED <<control, readable, next, queue, supc>> /\ spc' = "off" /\ fpc' = "off"
    BY <1>11, Zenon DEF IngestExit, OfIngest, Environment, supervisor
  <2> QED BY <1>1, <2>1, SMTT(30) DEF IngestDone, Stopped
<1>6. CASE IngestEnd /\ UNCHANGED ring /\ OfIngest
  <2>1. control' = [control EXCEPT !.ingest_done = 1] /\ UNCHANGED <<readable, next, queue, supc>>
        /\ spc' = "exit" /\ fpc' = "exit" /\ spc = "end" /\ fpc = "end"
    BY <1>6, Zenon DEF IngestEnd, OfIngest, Environment, supervisor
  <2>2. supc \notin {"observe", "ingest"}
    BY <1>1, <2>1, Zenon DEF IngestThreads, Supervised
  <2>3. control'.shutdown = control.shutdown /\ control'.fast_done = control.fast_done
    BY <1>1, <2>1, Zenon DEF ControlType
  <2>4. control.fast_done # 1
    BY <1>1, <2>1, Zenon DEF IngestDone, StagesDone
  <2>5. ~ Stopped => next = readable /\ queue = <<>>
    BY <1>1, <2>1, SMTT(30) DEF IngestDone
  <2> QED BY <2>1, <2>2, <2>3, <2>4, <2>5, Zenon DEF IngestDone, Stopped
<1>7. CASE SourceStep /\ OfIngest
  <2>1. UNCHANGED <<control, supc, fpc, readable>>
        /\ spc \notin {"off", "exit"} /\ spc' \notin {"off", "exit"}
    BY <1>7, Zenon DEF SourceStep, SourceRead, SourcePush, SourceNotify, SourceClose, OfIngest,
                Environment, supervisor
  <2>2. control.ingest_done # 1
    BY <1>1, <2>1, SMTT(30) DEF IngestDone
  <2>3. ~ Stopped /\ spc' \in {"close", "end"} => next' = readable
    BY <1>1, <1>7, SMTT(30)
    DEF SourceStep, SourceRead, SourcePush, SourceNotify, SourceClose, IngestDone, IngestThreads
  <2>4. ~ Stopped /\ fpc = "end" => closed' /\ queue' = <<>>
    BY <1>1, <1>7, ZenonT(30)
    DEF SourceStep, SourceRead, SourcePush, SourceNotify, SourceClose, IngestDone, IngestThreads
  <2> QED BY <1>1, <2>1, <2>2, <2>3, <2>4, SMTT(30) DEF IngestDone, Stopped
<1>8. CASE FramesStep /\ OfIngest
  <2>1. UNCHANGED <<control, supc, spc, readable, next, closed>> /\ fpc \notin {"off", "end", "exit"}
    BY <1>8, Zenon DEF FramesStep, FramesPop, FramesNotify, FramesPush, FramesFull, OfIngest,
                Environment, supervisor
  <2>2. control.ingest_done # 1
    BY <1>1, <2>1, SMTT(30) DEF IngestDone, IngestThreads
  <2>3. ~ Stopped /\ fpc' = "end" => closed /\ queue' = <<>>
    BY <1>8, SMTT(30) DEF FramesStep, FramesPop, FramesNotify, FramesPush, FramesFull, QueueOver, TryAgain
  <2> QED BY <1>1, <2>1, <2>2, <2>3, Zenon DEF IngestDone, Stopped
<1>9. CASE SpuriousWake /\ UNCHANGED <<control, ring, proc>> /\ OfIngest
  BY <1>1, <1>9, SMTT(30) DEF SpuriousWake, OfIngest, Environment, supervisor, IngestDone, Stopped
<1>10. CASE UNCHANGED ingest /\ ~ ResetControl
  <2>1. ~ IngestEnd
    BY <1>10, Zenon DEF IngestEnd, ingest
  <2>2. /\ control'.shutdown = control.shutdown \/ RaiseShutdown
        /\ control'.ingest_done = control.ingest_done
        /\ control'.fast_done = control.fast_done \/ FastFinish
    BY <1>10, <2>1, FlagWriters, ZenonT(30)
  <2>3. RaiseShutdown => control'.shutdown = 1
    BY <1>1, Zenon DEF RaiseShutdown, ControlType
  <2>4. FastFinish => cpc["fast"] = "finish"
    BY Zenon DEF FastFinish
  <2>5. cpc["fast"] = "finish" => ~ Stopped
    <3>1. cpc["fast"] = "finish" => Running("compute")
      BY Zenon DEF Threaded, ComputeThreads, AllAt, Threads, Stages
    <3> QED BY <3>1, Zenon DEF Supervised, Stopping
  <2>6. Stopped => Stopped'
    BY <2>2, <2>3, SMTT(30) DEF Stopped
  <2>7. control.ingest_done = 1 /\ (~ Stopped' \/ control'.fast_done = 1)
          => next = readable /\ queue = <<>>
    BY <1>1, <2>2, <2>4, <2>5, <2>6, Zenon DEF IngestDone
  <2>8. supc' \in {"observe", "ingest"} => supc \in {"observe", "ingest"}
    BY <1>2, <1>10, Zenon
  <2> QED BY <1>1, <1>10, <2>2, <2>6, <2>7, <2>8, Zenon DEF IngestDone, ingest
<1> QED
  BY <1>3, <1>4, <1>5, <1>6, <1>7, <1>8, <1>9, <1>10, <1>11, IngestWriters, Zenon DEF IngestMain

\* A stage raises its flag after it has seen the one before.
LEMMA StagesDoneKept ==
  ASSUME TypeOK, Threaded, Supervised, DoneInOrder, [Next]_vars
  PROVE  StagesDone'
<1>1. StagesDone /\ ComputeThreads /\ control \in ControlType
  BY DoneSplit, SMTT(30) DEF Threaded, TypeOK, LayoutTypeOK, ControlType
<1>2. /\ cpc \in [Threads -> {"off", "loop", "drain", "publish", "check", "rows", "last",
                             "finish", "end", "exit"}]
      /\ {"fast", "window", "snapshot", "watchdog"} \subseteq Threads
  BY Zenon DEF TypeOK, ComputeTypeOK, Threads, Stages
<1>3. CASE ResetControl
  <2>1. control'.fast_done = 0 /\ UNCHANGED compute
    BY <1>3, Zenon DEF ResetControl, FreshControl
  <2>2. cpc = AllAt("off")
    BY <1>1, <1>3, Zenon DEF ResetControl, Supervised, ComputeThreads
  <2>3. /\ cpc'["fast"] = "off" /\ cpc'["window"] = "off"
        /\ cpc'["snapshot"] = "off" /\ cpc'["watchdog"] = "off"
    BY <1>2, <2>1, <2>2, Zenon DEF compute, AllAt
  <2> QED BY <2>1, <2>3 DEF StagesDone
<1>4. CASE ~ ResetControl
  <2>1. /\ control.fast_done = 1 => control'.fast_done = 1
        /\ control.window_done = 1 => control'.window_done = 1
        /\ control.snapshot_done = 1 => control'.snapshot_done = 1
        /\ control.ingest_done = 1 => control'.ingest_done = 1
        /\ control.compute_done = 1 => control'.compute_done = 1
        /\ control'.fast_done = 1 => control.fast_done = 1 \/ FastFinish
    <3>1. control'.fast_done = control.fast_done \/ FastFinish
      BY <1>4, FlagWriters, ZenonT(30)
    <3> QED BY <1>4, <3>1, FlagsRise, Zenon
  <2>2. CASE \E pc \in {"loop", "off"} : ComputeTo(pc)
    <3>1. cpc'["fast"] \in {"loop", "off"} /\ cpc'["window"] \in {"loop", "off"}
          /\ cpc'["snapshot"] \in {"loop", "off"} /\ cpc'["watchdog"] \in {"loop", "off"}
      BY <1>2, <2>2, Zenon DEF ComputeTo, AllAt
    <3>2. FastFinish => control.ingest_done = 1
      BY <1>1, SMTT(30) DEF FastFinish, StagesDone
    <3> QED BY <1>1, <2>1, <3>1, <3>2, SMTT(30) DEF StagesDone
  <2>3. CASE UNCHANGED compute
    <3>1. ~ FastFinish
      BY <1>2, <2>3, SMTT(30) DEF FastFinish, Goto, compute
    <3> QED BY <1>1, <2>1, <2>3, <3>1, Zenon DEF StagesDone, compute
  <2>4. CASE FastStep
    <3>1. UNCHANGED <<cpc["window"], cpc["snapshot"], cpc["watchdog"]>>
      BY <1>2, <2>4, SMTT(30)
      DEF FastStep, FastLoop, FastPop, FastEmpty, FastPublish, FastCheck, FastFinish, Goto
    <3>2. cpc'["fast"] = "finish" => control.ingest_done = 1
      <4>1. ~ Stopped
        <5>1. cpc["fast"] # "off"
          BY <2>4, Zenon DEF FastStep, FastLoop, FastPop, FastEmpty, FastPublish, FastCheck, FastFinish
        <5>2. Running("compute")
          BY <1>1, <1>2, <5>1, SMTT(30) DEF ComputeThreads, AllAt
        <5> QED BY <5>2, Zenon DEF Supervised, Stopping
      <4> QED BY <1>2, <2>4, <4>1, Zenon
              DEF FastStep, FastLoop, FastPop, FastEmpty, FastPublish, FastCheck, FastFinish, Goto
    <3>3. cpc'["fast"] \in {"end", "exit"} => FastFinish
      BY <1>2, <2>4, Zenon
      DEF FastStep, FastLoop, FastPop, FastEmpty, FastPublish, FastCheck, FastFinish, Goto
    <3>4. FastFinish => control'.fast_done = 1 /\ control.ingest_done = 1
      BY <1>1, SMTT(30) DEF FastFinish, ControlType, StagesDone
    <3> QED BY <1>1, <2>1, <3>1, <3>2, <3>3, <3>4, SMTT(30) DEF StagesDone
  <2>5. CASE WindowStep \/ SnapshotStep \/ WatchdogEnd
    <3>1. UNCHANGED cpc["fast"]
      BY <1>2, <2>5, SMTT(30)
      DEF WindowStep, WindowLoop, WindowLoad, WindowPublish, NextSource, WindowFinish, SnapshotStep, SnapshotWait, compute,
          SnapshotStart, SnapshotRow, SnapshotPublish, SnapshotFinish, WatchdogEnd, Goto
    <3>2. cpc'["window"] \in {"end", "exit"} => cpc["window"] \in {"end", "exit"} \/ WindowFinish
      BY <1>2, <2>5, SMTT(30)
      DEF WindowStep, WindowLoop, WindowLoad, WindowPublish, NextSource, WindowFinish, SnapshotStep, SnapshotWait, compute,
          SnapshotStart, SnapshotRow, SnapshotPublish, SnapshotFinish, WatchdogEnd, Goto
    <3>7. cpc'["watchdog"] = "exit" => cpc["watchdog"] = "exit"
      BY <1>2, <2>5, Zenon
      DEF WindowStep, WindowLoop, WindowLoad, WindowPublish, NextSource, WindowFinish, SnapshotStep, SnapshotWait, compute,
          SnapshotStart, SnapshotRow, SnapshotPublish, SnapshotFinish, WatchdogEnd, Goto
    <3>3. cpc'["snapshot"] \in {"end", "exit"}
            => cpc["snapshot"] \in {"end", "exit"} \/ SnapshotFinish
      BY <1>2, <2>5, Zenon
      DEF WindowStep, WindowLoop, WindowLoad, WindowPublish, NextSource, WindowFinish, SnapshotStep, SnapshotWait, compute,
          SnapshotStart, SnapshotRow, SnapshotPublish, SnapshotFinish, WatchdogEnd, Goto
    <3>4. ~ FastFinish
      BY <1>2, <3>1, Zenon DEF FastFinish, Goto
    <3>5. WindowFinish => control'.window_done = 1
      BY <1>1, Zenon DEF WindowFinish, Beat, ControlType
    <3>6. SnapshotFinish => control'.snapshot_done = 1
      BY <1>1, Zenon DEF SnapshotFinish, Beat, ControlType
    <3> QED BY <1>1, <2>1, <3>1, <3>2, <3>3, <3>4, <3>5, <3>6, <3>7, SMTT(30) DEF StagesDone
  <2>6. SpawnCompute \/ ComputeExit \/ Kill \/ Signal
          => UNCHANGED compute \/ \E pc \in {"loop", "off"} : ComputeTo(pc)
    BY Deaths, Zenon DEF SpawnCompute, ComputeExit
  <2>7. CASE ComputeEnd
    <3>1. cpc["fast"] = "end" /\ cpc["window"] = "end" /\ cpc["snapshot"] = "end"
      BY <1>2, <2>7, Zenon DEF ComputeEnd, AllAt
    <3>2. control' = [control EXCEPT !.compute_done = 1]
      BY <2>7, Zenon DEF ComputeEnd
    <3>3. control'.compute_done = 1
      BY <1>1, <3>2, Zenon DEF ControlType
    <3> QED BY <1>1, <2>1, <3>1, <3>3, Zenon DEF StagesDone
  <2> QED BY <2>2, <2>3, <2>4, <2>5, <2>6, <2>7, ComputeWriters, Zenon DEF ComputeMain
<1> QED BY <1>3, <1>4, SMTT(30)

\* So the flags keep their order.
LEMMA DoneInOrderKept ==
  ASSUME TypeOK, Threaded, Supervised, DoneInOrder, [Next]_vars
  PROVE  DoneInOrder'
<1>1. IngestDone' /\ StagesDone'
  BY IngestDoneKept, StagesDoneKept, Zenon
<1> QED BY <1>1, Zenon DEF DoneInOrder, IngestDone, StagesDone

------------------------------------------------------------------------------
(* What the supervisor has collected, and the generations *)

\* A child that has ended is what it was until it is spawned again.
LEMMA EndedKept ==
  ASSUME TypeOK, Threaded, [Next]_vars
  PROVE  /\ ~ Running("ingest") => proc'["ingest"] = proc["ingest"] \/ SpawnIngest
         /\ ~ Running("publish") => proc'["publish"] = proc["publish"] \/ SpawnPublish
         /\ ~ Running("compute") => proc'["compute"] = proc["compute"] \/ SpawnCompute
<1>1. Kill \/ Signal =>
        /\ ~ Running("ingest") => proc'["ingest"] = proc["ingest"]
        /\ ~ Running("publish") => proc'["publish"] = proc["publish"]
        /\ ~ Running("compute") => proc'["compute"] = proc["compute"]
  BY Deaths, Zenon
<1>2. IngestExit => Running("ingest")
  BY Zenon DEF IngestExit, Threaded, IngestThreads
<1>3. PublishWrite \/ PublishWriteFails => Running("publish")
  BY Zenon DEF PublishWrite, PublishWriteFails, Threaded, PublishThread
<1>4. ComputeExit => Running("compute")
  BY Zenon DEF ComputeExit, Threaded, ComputeThreads, AllAt, Threads, Stages
<1> QED BY <1>1, <1>2, <1>3, <1>4, RoleWriters, Zenon

AllDone ==
  /\ control.fast_done = 1 /\ control.window_done = 1 /\ control.snapshot_done = 1
  /\ control.compute_done = 1 /\ control.fault = 0

\* A compute process exits 0 with every flag up and without a fault, and
\* nothing takes that back while the supervisor goes on.
LEMMA AllDoneKept ==
  ASSUME TypeOK, Threaded, Supervised, DoneInOrder, Collected, [Next]_vars,
         supc' \in {"wait_compute", "shutdown"} \cup Stopping, proc'["compute"] = "exit0"
  PROVE  AllDone'
<1>1. control \in ControlType /\ proc \in [Roles -> ProcStates] /\ "compute" \in Roles
  BY SMTT(30) DEF TypeOK, LayoutTypeOK, ControlType, Roles
<1>2. ~ SpawnCompute
  BY <1>1, Zenon DEF SpawnCompute, Stillborn
<1>3. ~ ResetControl
  BY Zenon DEF ResetControl, Stopping
<1>4. CASE ComputeExit
  <2>1. \A t \in {"fast", "window", "snapshot", "watchdog"} : cpc[t] = "exit"
    BY <1>4, SMTT(30) DEF ComputeExit, AllAt, Threads, Stages
  <2>2. /\ control.fast_done = 1 /\ control.window_done = 1 /\ control.snapshot_done = 1
        /\ control.compute_done = 1
    BY <2>1, Zenon DEF DoneInOrder
  <2>3. control' = control
        /\ proc' = [proc EXCEPT !["compute"] = IF control.fault = 1 THEN "exit3" ELSE "exit0"]
    BY <1>4, Zenon DEF ComputeExit, Exit
  <2>4. control.fault # 1
    BY <1>1, <2>3, Zenon
  <2>5. control.fault = 0
    BY <1>1, <2>4, Zenon DEF ControlType, Flag
  <2> QED BY <1>1, <2>2, <2>3, <2>5, Zenon DEF AllDone, ControlType
<1>5. CASE ~ ComputeExit
  <2>1. proc["compute"] = "exit0"
    <3>1. CASE Kill \/ Signal
      <4>1. proc'["compute"] = "killed" \/ proc'["compute"] = proc["compute"]
        BY <3>1, Deaths, Zenon
      <4> QED BY <4>1, Zenon
    <3> QED BY <1>2, <1>5, <3>1, RoleWriters, Zenon
  <2>2. supc \in {"wait_compute", "shutdown"} \cup Stopping
    <3>1. CASE SupervisorStep
      BY <1>2, <3>1, ZenonT(30)
      DEF SupervisorStep, SpawnObserve, SpawnIngest, SpawnPublish, WaitCompute, RaiseShutdown,
          WaitIngest, WaitPublish, InstallHandlers, Hold, ResetControl, Release, WaitObserve, Stopping
    <3>2. CASE Signal \/ UNCHANGED supervisor
      BY <3>2, Zenon DEF Signal, supervisor, Stopping
    <3> QED BY <3>1, <3>2, SupervisorWriters, ZenonT(30)
  <2>3. AllDone
    BY <2>1, <2>2, Zenon DEF Collected, AllDone
  <2>4. ~ WatchdogCheck
    <3>1. WatchdogCheck => Running("compute")
      BY Zenon DEF WatchdogCheck, Threaded, ComputeThreads, AllAt, Threads, Stages
    <3> QED BY <2>1, <3>1, Zenon DEF Running
  <2>5. control'.fault = control.fault
    BY <1>3, <2>4, FlagWriters, ZenonT(30)
  <2> QED BY <1>3, <2>3, <2>5, FlagsRise, Zenon DEF AllDone
<1> QED BY <1>4, <1>5, SMTT(30)

\* The exit codes, child by child.
LEMMA CollectedKept ==
  ASSUME TypeOK, Threaded, Supervised, DoneInOrder, Collected, [Next]_vars
  PROVE  Collected'
<1>1. /\ exits \in [Roles -> {"exit0", "exit1", "exit2", "exit3"}]
      /\ {"ingest", "publish", "compute"} \subseteq Roles
  BY Zenon DEF TypeOK, Roles
<1>2. supc' \in {"wait_compute", "shutdown"} \cup Stopping /\ proc'["compute"] = "exit0" => AllDone'
  BY AllDoneKept, Zenon
<1> DEFINE
  Codes == /\ supc \in {"shutdown"} \cup Stopping => exits["compute"] = Waited(proc["compute"])
           /\ supc \in Stopping \ {"wait_ingest"} => exits["ingest"] = Waited(proc["ingest"])
           /\ supc \in Stopping \ {"wait_ingest", "wait_publish"} =>
                /\ exits["publish"] = Waited(proc["publish"])
                /\ status = 0 => \A r \in Roles : exits[r] = "exit0"
<1>3. Codes
  BY SMTT(30) DEF Collected
<1>4. ASSUME UNCHANGED <<exits, status>>,
             \/ supc' = supc
             \/ supc' \notin {"shutdown"} \cup Stopping
             \/ supc = "shutdown" /\ supc' = "wait_ingest"
             \/ {supc, supc'} \subseteq Stopping \ {"wait_ingest", "wait_publish"},
             ~ SpawnIngest, ~ SpawnPublish, ~ SpawnCompute
      PROVE  Codes'
  <2>1. supc \in {"shutdown"} \cup Stopping => proc'["compute"] = proc["compute"]
    BY <1>4, EndedKept, ZenonT(30) DEF Supervised, Stopping
  <2>2. supc \in Stopping \ {"wait_ingest"} => proc'["ingest"] = proc["ingest"]
    BY <1>4, EndedKept, SMTT(30) DEF Supervised, Stopping
  <2>3. supc \in Stopping \ {"wait_ingest", "wait_publish"} => proc'["publish"] = proc["publish"]
    BY <1>4, EndedKept, SMTT(30) DEF Supervised, Stopping
  <2> QED BY <1>3, <1>4, <2>1, <2>2, <2>3, SMTT(30) DEF Waited, Stopping
<1>5. CASE SpawnObserve \/ SpawnIngest \/ SpawnPublish \/ SpawnCompute \/ ResetControl
  <2>1. supc' \in {"ingest", "publish", "compute", "wait_compute"}
    BY <1>5, SMTT(30) DEF SpawnObserve, SpawnIngest, SpawnPublish, SpawnCompute, ResetControl
  <2> QED BY <1>2, <2>1, SMTT(30) DEF Collected, AllDone, Stopping
<1>6. CASE WaitCompute
  <2>1. supc' \in {"shutdown", "compute"} /\ exits' = [exits EXCEPT !["compute"] = Waited(proc["compute"])]
        /\ UNCHANGED proc
    BY <1>6, SMTT(30) DEF WaitCompute
  <2> QED BY <1>1, <1>2, <2>1, Zenon DEF Collected, AllDone, Stopping
<1>7. CASE WaitIngest
  <2>1. supc = "wait_ingest" /\ supc' = "wait_publish" /\ UNCHANGED proc
        /\ exits' = [exits EXCEPT !["ingest"] = Waited(proc["ingest"])]
    BY <1>7, Zenon DEF WaitIngest, shared
  <2>2. exits'["compute"] = exits["compute"] /\ exits'["ingest"] = Waited(proc["ingest"])
    BY <1>1, <2>1, SMTT(30)
  <2> QED BY <1>2, <1>3, <2>1, <2>2, SMTT(30) DEF Collected, AllDone, Stopping
<1>8. CASE WaitPublish
  <2>1. supc = "wait_publish" /\ UNCHANGED proc
        /\ exits' = [exits EXCEPT !["publish"] = Waited(proc["publish"])]
        /\ status' = IF \A r \in Roles : exits'[r] = "exit0" THEN 0 ELSE 1
    BY <1>8, Zenon DEF WaitPublish, shared
  <2>2. exits'["compute"] = exits["compute"] /\ exits'["ingest"] = exits["ingest"]
        /\ exits'["publish"] = Waited(proc["publish"])
    BY <1>1, <2>1, Zenon
  <2>3. status' = 0 => \A r \in Roles : exits'[r] = "exit0"
    BY <2>1
  <2>4. exits["compute"] = Waited(proc["compute"]) /\ exits["ingest"] = Waited(proc["ingest"])
    BY <1>3, <2>1, SMTT(30) DEF Stopping
  <2> QED BY <1>2, <2>1, <2>2, <2>3, <2>4, SMTT(30) DEF Collected, AllDone
<1>9. CASE WaitObserve
  <2>1. supc = "wait_observe" /\ supc' = "exit" /\ UNCHANGED <<proc, exits>>
        /\ (status' = 0 => status = 0)
    BY <1>9 DEF WaitObserve, shared
  <2> QED BY <1>2, <1>3, <2>1, Zenon DEF Collected, AllDone, Stopping
<1>10. CASE RaiseShutdown \/ InstallHandlers \/ Hold \/ Release \/ Signal \/ UNCHANGED supervisor
  <2>1. UNCHANGED <<exits, status>>
    BY <1>10 DEF RaiseShutdown, InstallHandlers, Hold, Release, Signal, supervisor
  <2>2. \/ supc' = supc
        \/ supc' \notin {"shutdown"} \cup Stopping
        \/ supc = "shutdown" /\ supc' = "wait_ingest"
        \/ {supc, supc'} \subseteq Stopping \ {"wait_ingest", "wait_publish"}
    BY <1>10, SMTT(30) DEF RaiseShutdown, InstallHandlers, Hold, Release, Signal, supervisor, Stopping
  <2>3. CASE ~ SpawnIngest /\ ~ SpawnPublish /\ ~ SpawnCompute
    <3>1. Codes'
      BY <1>4, <2>1, <2>2, <2>3, SMTT(30)
    <3> QED BY <1>2, <3>1, SMTT(30) DEF Collected, AllDone
  <2> QED BY <1>5, <2>3, Zenon
<1> QED
  BY <1>5, <1>6, <1>7, <1>8, <1>9, <1>10, SupervisorWriters, Zenon DEF SupervisorStep

\* A generation never comes back, and every compute process starts in one that
\* has published nothing.
LEMMA GenerationRises ==
  ASSUME TypeOK, Threaded, Supervised, [Next]_vars
  PROVE  /\ \/ control'.generation = control.generation
            \/ ~ Running("compute") /\ control'.generation = control.generation + 1
         /\ supc' \in {"observe", "ingest", "publish", "compute"} =>
              \/ control'.generation = control.generation + 1
              \/ supc \in {"observe", "ingest", "publish", "compute"}
<1>1. control \in ControlType
  BY Zenon DEF TypeOK, LayoutTypeOK, ControlType
<1>2. CASE ResetControl
  <2>1. control'.generation = control.generation + 1
    BY <1>2, Zenon DEF ResetControl, FreshControl, NextGeneration
  <2>2. ~ Running("compute")
    BY <1>2, Zenon DEF ResetControl, Supervised
  <2> QED BY <2>1, <2>2, Zenon
<1>3. CASE WaitCompute
  <2>1. ~ Running("compute")
    BY <1>3, Zenon DEF WaitCompute, Reaped
  <2>2. \/ supc' = "shutdown" /\ control' = control
        \/ supc' = "compute" /\ control' = [control EXCEPT !.generation = control.generation + 1]
    BY <1>3, Zenon DEF WaitCompute, NextGeneration
  <2> QED BY <1>1, <2>1, <2>2, Zenon DEF ControlType
<1>4. CASE ~ ResetControl /\ ~ WaitCompute
  <2>1. control'.generation = control.generation
    BY <1>4, FlagWriters, ZenonT(30)
  <2> DEFINE early == {"observe", "ingest", "publish", "compute"}
  <2>2. CASE SpawnObserve \/ SpawnIngest \/ SpawnPublish \/ SpawnCompute
    <3>1. supc \in early
      BY <2>2, Zenon DEF SpawnObserve, SpawnIngest, SpawnPublish, SpawnCompute
    <3> QED BY <2>1, <3>1, Zenon
  <2>3. CASE \/ RaiseShutdown \/ WaitIngest \/ WaitPublish \/ InstallHandlers \/ Hold
             \/ Release \/ WaitObserve
    <3>1. supc' \notin early
      BY <2>3, Zenon DEF RaiseShutdown, WaitIngest, WaitPublish, InstallHandlers, Hold, Release,
                  WaitObserve
    <3> QED BY <2>1, <3>1, Zenon
  <2>4. CASE Signal \/ UNCHANGED supervisor
    <3>1. supc' \in early => supc \in early
      BY <2>4, Zenon DEF Signal, supervisor
    <3> QED BY <2>1, <3>1, Zenon
  <2> QED BY <1>4, <2>2, <2>3, <2>4, SupervisorWriters, ZenonT(30) DEF SupervisorStep
<1> QED BY <1>2, <1>3, <1>4, SMTT(30)

\* The counters of the fast stage move with the rows; a compute process that
\* starts has them at zero.
LEMMA PublishesWriters ==
  ASSUME TypeOK, Threaded, [Next]_vars, Running("compute")'
  PROVE  \/ UNCHANGED publishes /\ Running("compute") /\ ~ FastPublish
         \/ FastPublish /\ OfCompute /\ Running("compute")
         \/ SpawnCompute /\ publishes' = NoPublishes
<1>1. proc \in [Roles -> ProcStates] /\ "compute" \in Roles
  BY SMTT(30) DEF TypeOK, LayoutTypeOK, Roles
<1>2. CASE SpawnCompute
  BY <1>1, <1>2, Zenon DEF SpawnCompute, Stillborn, ComputeTo, Running
<1>3. CASE ~ SpawnCompute
  <2>1. Running("compute")
    BY <1>3, EndedKept, Zenon DEF Running
  <2>2. CASE Kill \/ Signal
    <3>1. \/ proc'["compute"] = "killed"
          \/ proc'["compute"] = proc["compute"] /\ UNCHANGED compute
      BY <2>2, Deaths, Zenon
    <3>2. UNCHANGED compute
      BY <3>1, SMTT(30) DEF Running
    <3>3. ~ FastPublish
      BY <3>2, Zenon DEF FastPublish, Goto, compute, TypeOK, ComputeTypeOK, Threads, Stages
    <3> QED BY <2>1, <3>2, <3>3, Zenon DEF compute
  <2>3. ~ ComputeExit
    BY <1>1, Zenon DEF ComputeExit, Exit, Running
  <2>7. CASE ComputeEnd
    <3>1. cpc["fast"] = "end"
      BY <2>7, Zenon DEF ComputeEnd, AllAt, Threads, Stages
    <3> QED BY <2>1, <2>7, <3>1, Zenon DEF ComputeEnd, FastPublish
  <2>4. CASE FastStep /\ OfCompute
    BY <2>1, <2>4, Zenon
    DEF FastStep, FastLoop, FastPop, FastEmpty, FastPublish, FastCheck, FastFinish
  <2>5. CASE WindowStep \/ SnapshotStep \/ WatchdogEnd
    <3>1. UNCHANGED publishes
      BY <2>5, SMTT(30)
      DEF WindowStep, WindowLoop, WindowLoad, WindowPublish, NextSource, WindowFinish, SnapshotStep, SnapshotWait, compute,
          SnapshotStart, SnapshotRow, SnapshotPublish, SnapshotFinish, WatchdogEnd
    <3>2. UNCHANGED latest
      BY <2>5, SMTT(30)
      DEF WindowStep, WindowLoop, WindowLoad, WindowPublish, NextSource, WindowFinish, SnapshotStep, SnapshotWait,
          SnapshotStart, SnapshotRow, SnapshotPublish, SnapshotFinish, WatchdogEnd
    <3>3. UNCHANGED cpc["fast"]
      BY <2>5, SMTT(30)
      DEF WindowStep, WindowLoop, WindowLoad, WindowPublish, NextSource, WindowFinish, SnapshotStep, SnapshotWait, compute,
          SnapshotStart, SnapshotRow, SnapshotPublish, SnapshotFinish, WatchdogEnd, Goto,
          TypeOK, ComputeTypeOK, Threads, Stages
    <3>4. ~ FastPublish
      BY <3>3, Zenon DEF FastPublish, Goto, TypeOK, ComputeTypeOK, Threads, Stages
    <3> QED BY <2>1, <3>1, <3>4, SMTT(30)
  <2>6. CASE UNCHANGED compute
    <3>1. ~ FastPublish
      BY <2>6, SMTT(30) DEF FastPublish, Goto, compute, TypeOK, ComputeTypeOK, Threads, Stages
    <3> QED BY <2>1, <2>6, <3>1, SMTT(30) DEF compute
  <2> QED BY <1>3, <2>2, <2>3, <2>4, <2>5, <2>6, <2>7, ComputeWriters, Zenon DEF ComputeMain
<1> QED BY <1>2, <1>3, SMTT(30)

\* What FastPublish writes.
LEMMA RowPublished ==
  ASSUME TypeOK, Threaded, FastPublish
  PROVE  /\ Replay[record].id \in Sources /\ Running("compute")
         /\ publishes' = [publishes EXCEPT ![Replay[record].id] = @ + 1]
         /\ latest'[Replay[record].id] =
              [publishes |-> publishes[Replay[record].id] + 1, sequence |-> record,
               by |-> control.generation]
         /\ \A id \in Sources \ {Replay[record].id} : latest'[id] = latest[id]
<1>1. record \in Records /\ latest \in [Sources -> Row] /\ publishes \in [Sources -> Nat]
  BY SMTT(30) DEF FastPublish, Threaded, ComputeThreads, TypeOK, LayoutTypeOK, ComputeTypeOK
<1>2. Replay[record] \in Frames
  BY <1>1, LayoutAssumption, SeqElement, Zenon DEF Records
<1>3. Replay[record].id \in Sources
  BY <1>2, SMTT(30) DEF Frames
<1>4. Running("compute")
  BY SMTT(30) DEF FastPublish, Threaded, ComputeThreads, AllAt, Threads, Stages
<1> DEFINE id0 == Replay[record].id
<1>5. /\ publishes' = [publishes EXCEPT ![id0] = publishes[id0] + 1]
      /\ latest' = [latest EXCEPT ![id0] = [publishes |-> publishes'[id0], sequence |-> record,
                                            by |-> control.generation]]
  BY SMTT(30) DEF FastPublish, Count
<1>6. publishes'[id0] = publishes[id0] + 1
  BY <1>1, <1>3, <1>5, Zenon
<1> QED BY <1>1, <1>3, <1>4, <1>5, <1>6, SMTT(30)

\* FastPublish moves the count and the row together, and a restart begins anew.
LEMMA CountedKept ==
  ASSUME TypeOK, Threaded, Supervised, Counted, [Next]_vars
  PROVE  Counted'
<1>1. /\ control \in ControlType /\ latest \in [Sources -> Row] /\ publishes \in [Sources -> Nat]
      /\ control.generation \in Nat
  BY Zenon DEF TypeOK, LayoutTypeOK, ControlType, ComputeTypeOK
<1>2. control'.generation >= 1 /\ control'.generation >= control.generation
      /\ control'.generation \in Nat
  BY <1>1, GenerationRises, SMTT(30) DEF Counted
<1>3. CASE FastPublish /\ OfCompute
  <2>1. UNCHANGED control
    BY <1>3, Zenon DEF FastPublish
  <2>2. supc' = supc
    BY <1>3, SMTT(30) DEF OfCompute, Environment, supervisor
  <2>3. Running("compute") /\ supc = "wait_compute" /\ Replay[record].id \in Sources
    BY <1>3, RowPublished, SMTT(30) DEF Supervised
  <2>4. ASSUME NEW id \in Sources
        PROVE  /\ latest'[id].by <= control.generation
               /\ publishes'[id] = IF latest'[id].by = control.generation
                                   THEN latest'[id].publishes ELSE 0
    <3>1. CASE id = Replay[record].id
      BY <1>1, <1>3, <3>1, RowPublished, SMTT(30)
    <3>2. CASE id # Replay[record].id
      <4>1. publishes'[id] = publishes[id] /\ latest'[id] = latest[id]
        BY <1>1, <1>3, <3>2, RowPublished, SMTT(30)
      <4> QED BY <2>3, <4>1, SMTT(30) DEF Counted
    <3> QED BY <3>1, <3>2, SMTT(30)
  <2> QED BY <1>2, <2>1, <2>2, <2>3, <2>4, SMTT(30) DEF Counted
<1>4. CASE UNCHANGED latest
  <2>1. ASSUME NEW id \in Sources
        PROVE  latest[id].by <= control'.generation
    BY <1>1, <1>2 DEF Counted, Row
  <2>2. ASSUME NEW id \in Sources, supc' \in {"observe", "ingest", "publish", "compute"}
        PROVE  latest[id].by < control'.generation
    <3>1. latest[id].by \in Nat /\ latest[id].by <= control.generation
          /\ (supc \in {"observe", "ingest", "publish", "compute"}
                => latest[id].by < control.generation)
      BY <1>1, Zenon DEF Counted, Row
    <3>2. \/ control'.generation = control.generation + 1
          \/ supc \in {"observe", "ingest", "publish", "compute"}
      BY <2>2, GenerationRises, Zenon
    <3> QED BY <1>1, <1>2, <3>1, <3>2, SMTT(30)
  <2>3. ASSUME NEW id \in Sources, Running("compute")', ~ (FastPublish /\ OfCompute)
        PROVE  publishes'[id] = IF latest[id].by = control'.generation
                                THEN latest[id].publishes ELSE 0
    <3>1. CASE UNCHANGED publishes /\ Running("compute")
      BY <3>1, GenerationRises, Zenon DEF Counted
    <3>2. CASE SpawnCompute /\ publishes' = NoPublishes
      <4>1. control' = control /\ supc = "compute"
        BY <3>2, SMTT(30) DEF SpawnCompute
      <4>2. latest[id].by < control'.generation
        BY <4>1, Zenon DEF Counted
      <4>3. latest[id].by # control'.generation
        BY <1>1, <1>2, <4>2, SMTT(30) DEF Row
      <4> QED BY <3>2, <4>3, SMTT(30) DEF NoPublishes
    <3> QED BY <2>3, <3>1, <3>2, PublishesWriters, ZenonT(30)
  <2> QED BY <1>2, <1>3, <1>4, <2>1, <2>2, <2>3, SMTT(30) DEF Counted
<1> QED BY <1>3, <1>4, RowWriters, ZenonT(30)

------------------------------------------------------------------------------
(* The invariant holds *)

\* No flag is up at the start, and no row has been published.
LEMMA InitControl ==
  ASSUME Init
  PROVE  ControlInv
<1>1. /\ \A r \in Roles : proc[r] = "none"
      /\ \A t \in Threads : cpc[t] = "off"
      /\ cpc = AllAt("off")
      /\ {"ingest", "publish", "compute"} \subseteq Roles
      /\ {"fast", "window", "snapshot", "watchdog"} \subseteq Threads
  BY Zenon DEF Init, LayoutInit, ComputeInit, AllAt, Roles, Threads, Stages
<1>2. /\ control.generation = 1 /\ control.ingest_done = 0
      /\ control.fast_done = 0
  BY Zenon DEF Init, LayoutInit, FreshControl
<1>5. DoneInOrder
  BY <1>1, <1>2, SMTT(30) DEF Init, IngestInit, DoneInOrder
<1>6. Collected
  BY SMTT(30) DEF Init, Collected, Stopping
<1>7. \A id \in Sources : latest[id].by = 0
  BY SMTT(30) DEF Init, LayoutInit, EmptyRows, EmptyRow
<1>8. Counted
  BY <1>1, <1>2, <1>7, SMTT(30) DEF Counted, Running
<1> QED BY <1>5, <1>6, <1>8, InitProcess, Zenon DEF ControlInv

\* Every step keeps it.
LEMMA ControlStep ==
  ASSUME ControlInv, [Next]_vars
  PROVE  ControlInv'
<1>1. ProcessInv /\ TypeOK /\ Threaded /\ Supervised
  BY Zenon DEF ControlInv, ProcessInv
<1>2. DoneInOrder /\ Collected /\ Counted
  BY Zenon DEF ControlInv
<1>3. ProcessInv'
  BY <1>1, ProcessStep, Zenon
<1>4. DoneInOrder' /\ Collected' /\ Counted'
  BY <1>1, <1>2, DoneInOrderKept, CollectedKept, CountedKept, Zenon
<1> QED BY <1>3, <1>4, Zenon DEF ControlInv

\* Whatever the file, the scenario and the interleaving of the supervisor, the
\* children, the signals and the failures: the processes, the control block and
\* what the supervisor has collected agree.
THEOREM ControlInvariant == SafetySpec => []ControlInv
<1>1. Init => ControlInv
  BY InitControl, Zenon
<1>2. ControlInv /\ [Next]_vars => ControlInv'
  BY ControlStep, Zenon
<1> QED BY <1>1, <1>2, PTL DEF SafetySpec

\* Exit 0 of the supervisor: what the stream delivered was handed over, every
\* stage finished with the fault flag down, and every child exited 0.
THEOREM ExitZeroHonest == SafetySpec => []ExitZeroMeansFinished
<1>1. ControlInv => ExitZeroMeansFinished
  <2> SUFFICES ASSUME ControlInv, supc = "exit", status = 0
               PROVE  /\ next = readable /\ queue = <<>>
                      /\ \A f \in {"ingest_done", "fast_done", "window_done", "snapshot_done",
                                   "compute_done"} : control[f] = 1
                      /\ control.fault = 0
                      /\ \A r \in Roles : proc[r] = "exit0"
    BY Zenon DEF ExitZeroMeansFinished
  <2>1. TypeOK /\ DoneInOrder /\ Collected /\ supc \in Stopping \ {"wait_ingest", "wait_publish"}
    BY SMTT(30) DEF ControlInv, ProcessInv, Stopping
  <2>2. \A r \in Roles : exits[r] = "exit0" /\ exits[r] = Waited(proc[r])
    BY <2>1, SMTT(30) DEF Collected, Roles
  <2>3. \A r \in Roles : proc[r] = "exit0"
    BY <2>2, SMTT(30) DEF Waited
  <2>4. /\ control.fast_done = 1 /\ control.window_done = 1 /\ control.snapshot_done = 1
        /\ control.compute_done = 1 /\ control.fault = 0
    BY <2>1, <2>3, SMTT(30) DEF Collected, Roles
  <2>5. control.ingest_done = 1
    BY <2>1, <2>4, SMTT(30) DEF DoneInOrder
  <2>6. next = readable /\ queue = <<>>
    BY <2>1, <2>4, <2>5, Zenon DEF DoneInOrder
  <2> QED BY <2>3, <2>4, <2>5, <2>6, Zenon
<1> QED BY <1>1, ControlInvariant, PTL

\* A step moves a row on within its generation or to a higher one.
RowContinues ==
  \A id \in Sources :
    latest'[id] # latest[id] =>
      IF latest'[id].by = latest[id].by
      THEN latest'[id].publishes = latest[id].publishes + 1
      ELSE latest'[id].by > latest[id].by /\ latest'[id].publishes = 1

\* Across kills, restarts and reruns a reader of latest[] can tell a new compute
\* process from the continuation of an old one.
THEOREM RestartsShow == SafetySpec => GenerationMarksRestart
<1>1. ControlInv /\ [Next]_vars => [RowContinues]_vars
  <2> SUFFICES ASSUME ControlInv, [Next]_vars, NEW id \in Sources, latest'[id] # latest[id]
               PROVE  IF latest'[id].by = latest[id].by
                      THEN latest'[id].publishes = latest[id].publishes + 1
                      ELSE latest'[id].by > latest[id].by /\ latest'[id].publishes = 1
    BY Zenon DEF RowContinues
  <2>1. TypeOK /\ Threaded /\ Counted
    BY Zenon DEF ControlInv, ProcessInv
  <2>2. FastPublish
    BY RowWriters, ZenonT(30)
  <2>3. /\ Running("compute") /\ Replay[record].id = id
        /\ latest'[id].by = control.generation
        /\ latest'[id].publishes = publishes[id] + 1
    <3> DEFINE row == [publishes |-> publishes[id] + 1, sequence |-> record,
                       by |-> control.generation]
    <3>1. Running("compute") /\ Replay[record].id = id /\ latest'[id] = row
      BY <2>1, <2>2, RowPublished, Zenon
    <3>2. row.by = control.generation /\ row.publishes = publishes[id] + 1
      BY Zenon
    <3> QED BY <3>1, <3>2, Zenon
  <2>4. /\ latest[id].by <= control.generation
        /\ publishes[id] = IF latest[id].by = control.generation THEN latest[id].publishes ELSE 0
    BY <2>1, <2>3, Zenon DEF Counted
  <2>5. latest[id].by \in Nat /\ control.generation \in Nat
    BY <2>1, Zenon DEF TypeOK, LayoutTypeOK, Row
  <2>6. CASE latest[id].by = control.generation
    BY <2>3, <2>4, <2>6, ZenonT(30)
  <2>7. CASE latest[id].by # control.generation
    BY <2>3, <2>4, <2>5, <2>7
  <2> QED BY <2>6, <2>7, Zenon
<1>2. SafetySpec => [][RowContinues]_vars
  BY <1>1, ControlInvariant, PTL DEF SafetySpec
<1> QED BY <1>2, SMTT(30) DEF GenerationMarksRestart, RowContinues

------------------------------------------------------------------------------
(* The first pass: what each stage hands to the next *)

\* The snapshot of the rows as they are.
Whole == [generation |-> 1, rows |-> latest]

\* One pass of the first pipeline.  Nothing is done before the first compute
\* process, then each stage copies what the stage before it has finished: the
\* window stage the rows,
FirstRows ==
  /\ supc \in {"observe", "ingest", "publish", "compute"} =>
       /\ latest = EmptyRows /\ window = EmptyRows
       /\ control.fast_done = 0 /\ control.window_done = 0
  /\ \A id \in Sources :
       latest[id].publishes = 0 => latest[id] = EmptyRow /\ window[id] = EmptyRow
  /\ control.fast_done = 1 => cpc["fast"] \in {"end", "exit", "off"}
  /\ control.window_done = 1 =>
       /\ cpc["window"] \in {"end", "exit", "off"} /\ window = latest
       /\ control.fast_done = 1
  /\ cpc["window"] = "last" =>
       control.fast_done = 1 /\ \A id \in 0 .. wid - 1 : window[id] = latest[id]
  /\ wrow # EmptyRow => latest[wid].publishes # 0
  /\ wrow # EmptyRow /\ cpc["window"] = "last" => wrow = latest[wid]

\* the snapshot stage the windows,
FirstSnapshot ==
  /\ supc \in {"observe", "ingest", "publish", "compute"} =>
       ~ snapshots.fresh /\ control.snapshot_done = 0
  /\ cpc["snapshot"] \in {"rows", "finish", "end", "exit"} => control.window_done = 1
  /\ cpc["snapshot"] = "rows" =>
       /\ snap.generation = 1
       /\ \A id \in 0 .. sid - 1 : snap.rows[id] = window[id]
  /\ cpc["snapshot"] \in {"finish", "end", "exit"} \/ control.snapshot_done = 1 \/ snapshots.fresh =>
       control.window_done = 1 /\ snapshots.last = Whole

\* and the publish process the snapshot.
FirstOutput ==
  /\ have => control.window_done = 1 /\ last = Whole
  /\ ppc = "write" => have \/ Stopped
  /\ file # EmptySnapshot => control.window_done = 1 /\ file = Whole
  /\ proc["publish"] = "exit0" /\ ~ Stopped => control.window_done = 1 /\ file = Whole

FirstPass == Undisturbed => FirstRows /\ FirstSnapshot /\ FirstOutput

------------------------------------------------------------------------------
(* One pass of the first pipeline *)

\* A failure counts itself.
LEMMA FailuresCount ==
  ASSUME [Next]_vars
  PROVE  failures' = failures \/ Fail
<1>1. CASE SupervisorStep
  BY <1>1, Zenon DEF SupervisorStep, SpawnObserve, SpawnIngest, SpawnPublish, SpawnCompute, WaitCompute,
              RaiseShutdown, WaitIngest, WaitPublish, InstallHandlers, Hold, ResetControl, Release,
              WaitObserve, used
<1>2. CASE OfIngest \/ OfCompute \/ OfPublish
  BY <1>2, Zenon DEF OfIngest, OfCompute, OfPublish, Environment, used
<1>3. CASE RequestRerun \/ ObserverExit \/ UNCHANGED vars
  BY <1>3, Zenon DEF RequestRerun, ObserverExit, used, vars
<1>4. CASE ObserverFails \/ Kill \/ Signal \/ PublishWriteFails \/ StageStalls
  BY <1>4, Zenon DEF ObserverFails, Kill, Signal, PublishWriteFails, StageStalls
<1> QED BY <1>1, <1>2, <1>3, <1>4, Steps, Zenon

\* A step of the first pass: no failure, no restart and no reset.
Calm == Undisturbed /\ Undisturbed' /\ ~ Fail /\ ~ ResetControl

\* A step that ends in the first pass was taken in it, and is calm.
LEMMA FirstPassSteps ==
  ASSUME ControlInv, [Next]_vars, Undisturbed'
  PROVE  /\ Calm /\ control'.generation = control.generation
         /\ ~ Kill /\ ~ Signal /\ ~ PublishWriteFails
<1>1. TypeOK /\ Threaded /\ Supervised /\ control.generation \in Nat /\ control.generation >= 1
      /\ failures \in Nat
  BY DEF ControlInv, ProcessInv, Counted, TypeOK, LayoutTypeOK
<1>2. control'.generation = control.generation
  BY <1>1, GenerationRises DEF Undisturbed
<1>3. ~ Fail
  BY <1>1 DEF Fail, Undisturbed
<1>4. ~ ResetControl
  BY <1>1, <1>2 DEF ResetControl, NextGeneration, FreshControl
<1>5. failures = 0
  BY <1>3, FailuresCount, Zenon DEF Undisturbed
<1>6. ~ Kill /\ ~ Signal /\ ~ PublishWriteFails
  BY <1>3, Zenon DEF Kill, Signal, PublishWriteFails
<1> QED BY <1>2, <1>3, <1>4, <1>5, <1>6 DEF Calm, Undisturbed

\* A thread of compute moves while the supervisor waits for it, before the
\* shutdown flag.
LEMMA StageRuns ==
  ASSUME ControlInv, NEW t \in Threads, cpc[t] # "off"
  PROVE  supc = "wait_compute" /\ ~ Stopped /\ Running("compute")
<1>1. Running("compute")
  BY Zenon DEF ControlInv, ProcessInv, Threaded, ComputeThreads, AllAt
<1> QED BY <1>1, Zenon DEF ControlInv, ProcessInv, Supervised, Stopping

\* Where the threads of compute go in a calm step.
LEMMA ThreadMoves ==
  ASSUME ControlInv, [Next]_vars, Calm
  PROVE  \/ UNCHANGED compute
         \/ SpawnCompute /\ ComputeTo("loop")
         \/ FastStep /\ OfCompute /\ UNCHANGED <<cpc["window"], cpc["snapshot"], wid, wrow, sid, snap>>
         \/ WindowStep /\ OfCompute /\ UNCHANGED <<cpc["fast"], cpc["snapshot"], record, sid, snap>>
         \/ SnapshotStep /\ OfCompute /\ UNCHANGED <<cpc["fast"], cpc["window"], record, wid, wrow>>
         \/ /\ WatchdogEnd /\ OfCompute
            /\ UNCHANGED <<cpc["fast"], cpc["window"], cpc["snapshot"], record, wid, wrow, sid, snap>>
         \/ /\ ComputeEnd /\ OfCompute /\ UNCHANGED <<record, wid, wrow, sid, snap>>
            /\ \A t \in Threads : cpc[t] = "end" /\ cpc'[t] = "exit"
         \/ ComputeExit /\ OfCompute /\ ComputeTo("off")
<1>1. cpc \in [Threads -> {"off", "loop", "drain", "publish", "check", "rows", "last",
                           "finish", "end", "exit"}]
      /\ {"fast", "window", "snapshot", "watchdog"} \subseteq Threads
  BY Zenon DEF ControlInv, ProcessInv, TypeOK, ComputeTypeOK, Threads, Stages
<1>2. SpawnCompute => UNCHANGED compute \/ ComputeTo("loop")
  BY Zenon DEF SpawnCompute
<1>3. FastStep => UNCHANGED <<cpc["window"], cpc["snapshot"], wid, wrow, sid, snap>>
  BY <1>1, Zenon DEF FastStep, FastLoop, FastPop, FastEmpty, FastPublish, FastCheck, FastFinish, Goto
<1>4. WindowStep => UNCHANGED <<cpc["fast"], cpc["snapshot"], record, sid, snap>>
  BY <1>1, Zenon DEF WindowStep, WindowLoop, WindowLoad, WindowPublish, NextSource, WindowFinish, Goto
<1>5. SnapshotStep => UNCHANGED <<cpc["fast"], cpc["window"], record, wid, wrow>>
  BY <1>1, Zenon DEF SnapshotStep, SnapshotWait, SnapshotStart, SnapshotRow, SnapshotPublish,
              SnapshotFinish, compute, Goto
<1>6. WatchdogEnd =>
        UNCHANGED <<cpc["fast"], cpc["window"], cpc["snapshot"], record, wid, wrow, sid, snap>>
  BY <1>1, Zenon DEF WatchdogEnd, Goto
<1>7. ComputeExit => ComputeTo("off")
  BY Zenon DEF ComputeExit
<1>9. ComputeEnd => /\ UNCHANGED <<record, wid, wrow, sid, snap>>
                    /\ \A t \in Threads : cpc[t] = "end" /\ cpc'[t] = "exit"
  BY Zenon DEF ComputeEnd, AllAt
<1>8. ~ Kill /\ ~ Signal
  BY FirstPassSteps, Zenon DEF Calm
<1> QED BY <1>2, <1>3, <1>4, <1>5, <1>6, <1>7, <1>8, <1>9, ComputeWriters, Zenon DEF ComputeMain

\* Once fast_done is up the rows stand, once window_done is up the windows do.
LEMMA RowsStand ==
  ASSUME ControlInv, FirstRows, [Next]_vars, Calm
  PROVE  /\ control.fast_done = 1 => UNCHANGED latest
         /\ control.window_done = 1 => UNCHANGED <<latest, window>>
         /\ supc \in {"observe", "ingest", "publish", "compute"} => UNCHANGED <<latest, window>>
<1>1. {"fast", "window"} \subseteq Threads
  BY Zenon DEF Threads, Stages
<1>2. FastPublish => cpc["fast"] = "publish" /\ supc = "wait_compute"
  BY <1>1, StageRuns, Zenon DEF FastPublish
<1>3. WindowPublish => cpc["window"] \in {"rows", "last"} /\ supc = "wait_compute"
  BY <1>1, StageRuns, Zenon DEF WindowPublish
<1> QED BY <1>2, <1>3, RowWriters, Zenon DEF FirstRows

\* The window stage copies rows that fast_done has made final.
LEMMA FirstRowsKept ==
  ASSUME ControlInv, FirstRows, [Next]_vars, Calm
  PROVE  FirstRows'
<1>1. TypeOK /\ Threaded /\ Supervised
  BY Zenon DEF ControlInv, ProcessInv
<1>2. /\ control \in ControlType /\ latest \in [Sources -> Row] /\ window \in [Sources -> Row]
      /\ wid \in 0 .. kMaxSources /\ kMaxSources \in Nat
      /\ {"fast", "window", "snapshot"} \subseteq Threads
  BY <1>1, LayoutAssumption, Zenon DEF TypeOK, LayoutTypeOK, ComputeTypeOK, ControlType, Threads, Stages
<1>3. supc' \in {"observe", "ingest", "publish", "compute"}
        => supc \in {"observe", "ingest", "publish", "compute"}
  BY <1>1, <1>2, GenerationRises, FirstPassSteps DEF Calm, ControlType
<1>4. /\ control'.fast_done = control.fast_done \/ FastFinish
      /\ control'.window_done = control.window_done \/ WindowFinish
  BY <1>1, FlagWriters, Zenon DEF Calm
<1>5. control.fast_done = 1 => control'.fast_done = 1
  BY <1>1, FlagsRise, Zenon DEF Calm
<1>6. FastFinish => supc = "wait_compute"
  BY <1>2, StageRuns, Zenon DEF FastFinish
<1>7. WindowFinish => supc = "wait_compute"
  BY <1>2, StageRuns, Zenon DEF WindowFinish
<1>8. supc' \in {"observe", "ingest", "publish", "compute"} =>
        /\ latest' = EmptyRows /\ window' = EmptyRows
        /\ control'.fast_done = 0 /\ control'.window_done = 0
  BY <1>3, <1>4, <1>6, <1>7, RowsStand, Zenon DEF FirstRows
<1>9. ASSUME NEW id \in Sources, latest'[id].publishes = 0
      PROVE  latest'[id] = EmptyRow /\ window'[id] = EmptyRow
  <2>1. latest'[id] = latest[id]
    <3>1. CASE FastPublish
      <4>1. publishes[id] + 1 # 0
        BY <1>1 DEF TypeOK, ComputeTypeOK
      <4> QED BY <1>1, <1>9, <3>1, <4>1, RowPublished
    <3> QED BY <3>1, RowWriters, ZenonT(30)
  <2>2. window'[id] = window[id]
    <3>1. CASE WindowPublish
      <4>1. latest[id].publishes = 0
        BY <1>9, <2>1, Zenon
      <4>2. id # wid
        BY <3>1, <4>1, Zenon DEF WindowPublish, FirstRows
      <4> QED BY <1>2, <3>1, <4>2, Zenon DEF WindowPublish
    <3> QED BY <3>1, RowWriters, Zenon
  <2> QED BY <1>9, <2>1, <2>2, Zenon DEF FirstRows
<1>10. control'.fast_done = 1 => cpc'["fast"] \in {"end", "exit", "off"}
  <2>1. CASE SpawnCompute
    BY <1>4, <1>6, <2>1 DEF SpawnCompute, FirstRows
  <2>2. CASE ComputeTo("off")
    BY <1>2, <2>2, Zenon DEF ComputeTo, AllAt
  <2>3. CASE FastFinish
    BY <1>1, <1>2, <2>3, Zenon DEF FastFinish, Goto, TypeOK, ComputeTypeOK
  <2>4. CASE FastStep /\ ~ FastFinish
    BY <1>4, <2>4, ZenonT(30)
    DEF FastStep, FastLoop, FastPop, FastEmpty, FastPublish, FastCheck, FirstRows
  <2>5. CASE UNCHANGED cpc["fast"] /\ ~ FastFinish
    BY <1>4, <2>5, ZenonT(30) DEF FirstRows
  <2>6. CASE cpc'["fast"] = "exit"
    BY <2>6, Zenon
  <2> QED BY <1>2, <2>1, <2>2, <2>3, <2>4, <2>5, <2>6, ThreadMoves, ZenonT(30) DEF compute
<1>11. ASSUME cpc["window"] = "last", control.fast_done = 1, wid = kMaxSources
       PROVE  window = latest
  BY <1>2, <1>11 DEF FirstRows, Sources
<1>12. control'.window_done = 1 =>
         /\ cpc'["window"] \in {"end", "exit", "off"} /\ window' = latest'
         /\ control'.fast_done = 1
  <2>1. CASE WindowFinish
    <3>1. cpc'["window"] = "end" /\ UNCHANGED <<latest, window>>
      BY <1>1, <1>2, <2>1, Zenon DEF WindowFinish, Goto, TypeOK, ComputeTypeOK
    <3>2. cpc["window"] = "last" /\ wid = kMaxSources /\ control.fast_done = 1
      BY <2>1, Zenon DEF WindowFinish, FirstRows
    <3> QED BY <1>5, <1>11, <3>1, <3>2, Zenon
  <2>2. CASE ~ WindowFinish
    <3> SUFFICES ASSUME control'.window_done = 1
                 PROVE  /\ cpc'["window"] \in {"end", "exit", "off"} /\ window' = latest'
                        /\ control'.fast_done = 1
      BY Zenon
    <3>1. control.window_done = 1 /\ cpc["window"] \in {"end", "exit", "off"}
      BY <1>4, <2>2, Zenon DEF FirstRows
    <3>2. window' = latest' /\ control'.fast_done = 1
      BY <1>5, <3>1, RowsStand, Zenon DEF FirstRows
    <3>3. ~ SpawnCompute /\ ~ WindowStep
      <4>1. wrow = EmptyRow
        BY <1>1, <3>1, SMTT(30) DEF Threaded, ComputeThreads
      <4> QED BY <3>1, <4>1 DEF SpawnCompute, FirstRows, WindowStep, WindowLoop, WindowLoad,
                                WindowPublish, WindowFinish
    <3>4. CASE ComputeTo("off")
      BY <1>2, <3>2, <3>4, Zenon DEF ComputeTo, AllAt
    <3>5. CASE UNCHANGED cpc["window"]
      BY <3>1, <3>2, <3>5, Zenon
    <3>6. CASE cpc'["window"] = "exit"
      BY <3>2, <3>6, Zenon
    <3> QED BY <1>2, <3>3, <3>4, <3>5, <3>6, ThreadMoves, Zenon DEF compute
  <2> QED BY <2>1, <2>2, Zenon
<1>13. cpc'["window"] = "last" =>
         control'.fast_done = 1 /\ \A id \in 0 .. wid' - 1 : window'[id] = latest'[id]
  <2>1. CASE ComputeTo("loop") \/ ComputeTo("off")
    BY <1>2, <2>1, Zenon DEF ComputeTo, AllAt
  <2>2. CASE WindowLoop
    <3>1. ~ Stopped
      BY <1>2, <2>2, StageRuns, Zenon DEF WindowLoop
    <3>2. cpc'["window"] = "last" => wid' = 0 /\ control.fast_done # 0
      BY <1>1, <1>2, <2>2, <3>1, Zenon DEF WindowLoop, LastPassFrom, Goto, TypeOK, ComputeTypeOK
    <3>3. control.fast_done # 0 => control.fast_done = 1
      BY <1>2, Zenon DEF ControlType, Flag
    <3> QED BY <1>5, <3>2, <3>3
  <2>3. CASE WindowFinish
    BY <1>1, <1>2, <2>3, Zenon DEF WindowFinish, Goto, TypeOK, ComputeTypeOK
  <2>4. CASE WindowLoad \/ WindowPublish
    <3> SUFFICES ASSUME cpc'["window"] = "last"
                 PROVE  control'.fast_done = 1 /\ \A id \in 0 .. wid' - 1 : window'[id] = latest'[id]
      BY Zenon
    <3>1. cpc["window"] = "last" /\ wid < kMaxSources /\ (wid' = wid \/ wid' = wid + 1)
      BY <1>1, <1>2, <2>4, Zenon
      DEF WindowLoad, WindowPublish, NextSource, Goto, TypeOK, ComputeTypeOK, Threaded, ComputeThreads
    <3>2. control.fast_done = 1 /\ cpc["fast"] # "publish" /\ wid \in Sources
          /\ \A id \in 0 .. wid - 1 : window[id] = latest[id]
      BY <1>2, <3>1 DEF FirstRows, Sources
    <3>3. UNCHANGED latest
      BY <2>4, Zenon DEF WindowLoad, WindowPublish
    <3>4. \/ wid' = wid /\ window' = window
          \/ window' = [window EXCEPT ![wid] = latest[wid]]
          \/ window' = window /\ latest[wid].publishes = 0
      BY <2>4, <3>1, <3>2, Zenon DEF WindowLoad, WindowPublish, FastWriting, FirstRows
    <3>5. wid' = wid \/ window'[wid] = latest[wid]
      BY <1>2, <3>2, <3>4, Zenon DEF FirstRows
    <3>6. \A id \in 0 .. wid - 1 : window'[id] = latest[id]
      <4> SUFFICES ASSUME NEW id \in 0 .. wid - 1
                   PROVE  window'[id] = latest[id]
        BY Zenon
      <4>1. id \in Sources /\ id # wid
        BY <1>2, <3>1 DEF Sources
      <4>2. window'[id] = window[id]
        BY <1>2, <3>4, <4>1, Zenon
      <4> QED BY <3>2, <4>2, Zenon
    <3>7. \A id \in 0 .. wid' - 1 : id \in 0 .. wid - 1 \/ (id = wid /\ wid' # wid)
      BY <1>2, <3>1
    <3> QED BY <1>5, <3>2, <3>3, <3>5, <3>6, <3>7, Zenon
  <2>5. CASE UNCHANGED <<cpc["window"], wid>> /\ ~ WindowStep
    <3> SUFFICES ASSUME cpc["window"] = "last"
                 PROVE  control'.fast_done = 1 /\ \A id \in 0 .. wid - 1 : window'[id] = latest'[id]
      BY <2>5, Zenon
    <3>1. control.fast_done = 1 /\ \A id \in 0 .. wid - 1 : window[id] = latest[id]
      BY Zenon DEF FirstRows
    <3>2. ~ WindowPublish
      BY <2>5, Zenon DEF WindowStep
    <3>3. UNCHANGED <<latest, window>>
      BY <3>1, <3>2, RowsStand, RowWriters, Zenon
    <3> QED BY <1>5, <3>1, <3>3, Zenon
  <2>6. CASE cpc'["window"] = "exit"
    BY <2>6, Zenon
  <2>7. WindowStep \/ ~ WindowStep
    BY Zenon
  <2> QED
    BY <1>2, <2>1, <2>2, <2>3, <2>4, <2>5, <2>6, <2>7, ThreadMoves, Zenon DEF compute, WindowStep
<1>16. wrow' # EmptyRow =>
         \/ /\ wrow' = latest[wid] /\ latest[wid].publishes > 0 /\ wid < kMaxSources
            /\ UNCHANGED <<wid, cpc, latest>>
         \/ wrow # EmptyRow /\ wid < kMaxSources /\ UNCHANGED <<wid, wrow, cpc["window"]>>
  <2>1. wrow # EmptyRow => cpc["window"] \in {"rows", "last"} /\ wid < kMaxSources
    BY <1>1, Zenon DEF Threaded, ComputeThreads
  <2>2. CASE ComputeTo("loop") \/ ComputeTo("off")
    BY <2>2, Zenon DEF ComputeTo
  <2>3. CASE WindowLoad \/ WindowPublish
    BY <2>3, Zenon DEF WindowLoad, WindowPublish
  <2>4. CASE WindowLoop \/ WindowFinish
    BY <1>2, <2>1, <2>4 DEF WindowLoop, WindowFinish
  <2>5. CASE UNCHANGED <<cpc["window"], wid, wrow>>
    BY <2>1, <2>5, Zenon
  <2>6. CASE ComputeEnd
    <3>1. cpc["window"] = "end" /\ UNCHANGED wrow
      BY <1>2, <2>6, Zenon DEF ComputeEnd, AllAt
    <3> QED BY <2>1, <3>1, SMTT(30)
  <2> QED BY <2>2, <2>3, <2>4, <2>5, <2>6, ThreadMoves, Zenon DEF compute, WindowStep
<1>14. wrow' # EmptyRow => latest'[wid'].publishes # 0
  <2> SUFFICES ASSUME wrow' # EmptyRow
               PROVE  latest'[wid'].publishes # 0
    BY Zenon
  <2>1. wid' = wid /\ wid \in Sources
    BY <1>2, <1>16 DEF Sources
  <2>2. latest[wid].publishes # 0
    BY <1>2, <1>16, <2>1 DEF FirstRows, Row
  <2>3. CASE FastPublish
    <3>1. CASE wid = Replay[record].id
      <4>1. publishes[wid] + 1 # 0
        BY <1>1, <2>1 DEF TypeOK, ComputeTypeOK
      <4> QED BY <1>1, <2>1, <2>3, <3>1, <4>1, RowPublished
    <3>2. CASE wid # Replay[record].id
      BY <1>1, <2>1, <2>2, <2>3, <3>2, RowPublished, Zenon
    <3> QED BY <3>1, <3>2, Zenon
  <2> QED BY <2>1, <2>2, <2>3, RowWriters, Zenon
<1>15. wrow' # EmptyRow /\ cpc'["window"] = "last" => wrow' = latest'[wid']
  <2>1. cpc["window"] = "last" => UNCHANGED latest
    BY RowsStand, Zenon DEF FirstRows
  <2> QED BY <1>16, <2>1, Zenon DEF FirstRows
<1> QED BY <1>8, <1>9, <1>10, <1>12, <1>13, <1>14, <1>15, Zenon DEF FirstRows

\* The snapshot is built from windows that stand.
LEMMA FirstSnapshotKept ==
  ASSUME ControlInv, FirstRows, FirstSnapshot, [Next]_vars, Calm
  PROVE  FirstSnapshot'
<1>1. TypeOK /\ Threaded /\ Supervised
  BY Zenon DEF ControlInv, ProcessInv
<1>2. /\ control \in ControlType /\ window \in [Sources -> Row] /\ snap \in Snapshot
      /\ latest \in [Sources -> Row]
      /\ sid \in 0 .. kMaxSources /\ kMaxSources \in Nat /\ "snapshot" \in Threads
      /\ snapshots \in [last : Snapshot, fresh : BOOLEAN]
  BY <1>1, LayoutAssumption, Zenon DEF TypeOK, LayoutTypeOK, ComputeTypeOK, ControlType, Threads, Stages
<1>3. cpc \in [Threads -> {"off", "loop", "drain", "publish", "check", "rows", "last",
                           "finish", "end", "exit"}]
  BY <1>1, Zenon DEF TypeOK, ComputeTypeOK
<1>4. control'.snapshot_done = control.snapshot_done \/ SnapshotFinish
  BY <1>1, FlagWriters, Zenon DEF Calm
<1>5. control.window_done = 1 => control'.window_done = 1 /\ UNCHANGED <<latest, window>>
  BY <1>1, FlagsRise, RowsStand, Zenon DEF Calm
<1>6. SnapshotPublish \/ SnapshotFinish => supc = "wait_compute"
  BY <1>2, StageRuns, Zenon DEF SnapshotPublish, SnapshotFinish
<1>7. snapshots'.fresh => snapshots.fresh \/ SnapshotPublish
  <2>1. PublishConsume => snapshots' = snapshots \/ snapshots'.fresh = FALSE
    BY <1>2, Zenon DEF PublishConsume
  <2> QED BY <2>1, RowWriters, Zenon
<1>8. ~ SnapshotPublish => snapshots'.last = snapshots.last
  <2>1. PublishConsume => snapshots'.last = snapshots.last
    BY <1>2, Zenon DEF PublishConsume
  <2> QED BY <2>1, RowWriters, Zenon
<1>9. supc' \in {"observe", "ingest", "publish", "compute"} =>
        ~ snapshots'.fresh /\ control'.snapshot_done = 0
  <2>1. supc' \in {"observe", "ingest", "publish", "compute"}
          => supc \in {"observe", "ingest", "publish", "compute"}
    BY <1>1, <1>2, GenerationRises, FirstPassSteps DEF Calm, ControlType
  <2> QED BY <1>4, <1>6, <1>7, <2>1, Zenon DEF FirstSnapshot
<1>10. cpc'["snapshot"] \in {"rows", "finish", "end", "exit"} => control.window_done = 1
  <2>1. CASE ComputeTo("loop") \/ ComputeTo("off")
    BY <1>2, <2>1, Zenon DEF ComputeTo, AllAt
  <2>2. CASE SnapshotStart
    <3>1. ~ Stopped
      BY <1>2, <2>2, StageRuns, Zenon DEF SnapshotStart
    <3> QED BY <2>2, <3>1, Zenon DEF SnapshotStart
  <2>3. CASE SnapshotStep /\ ~ SnapshotStart
    BY <1>2, <1>3, <2>3, Zenon
    DEF SnapshotStep, SnapshotWait, SnapshotRow, SnapshotPublish, SnapshotFinish, compute, Goto,
        FirstSnapshot
  <2>4. CASE UNCHANGED cpc["snapshot"]
    BY <2>4, Zenon DEF FirstSnapshot
  <2>5. CASE cpc["snapshot"] = "end"
    BY <2>5, Zenon DEF FirstSnapshot
  <2> QED BY <1>2, <2>1, <2>2, <2>3, <2>4, <2>5, ThreadMoves, Zenon DEF compute
<1>11. cpc'["snapshot"] = "rows" =>
         /\ snap'.generation = 1
         /\ \A id \in 0 .. sid' - 1 : snap'.rows[id] = window'[id]
  <2> SUFFICES ASSUME cpc'["snapshot"] = "rows"
               PROVE  /\ snap'.generation = 1
                      /\ \A id \in 0 .. sid' - 1 : snap'.rows[id] = window'[id]
    BY Zenon
  <2>1. control.window_done = 1 /\ UNCHANGED window
    BY <1>5, <1>10, Zenon
  <2>2. CASE SnapshotStart
    <3>1. sid' = 0 /\ snap' = [EmptySnapshot EXCEPT !.generation = control.generation]
      BY <2>2, Zenon DEF SnapshotStart
    <3>2. snap'.generation = 1
      BY <3>1, Zenon DEF EmptySnapshot, Calm, Undisturbed
    <3> QED BY <3>1, <3>2
  <2>3. CASE SnapshotRow
    <3>1. cpc["snapshot"] = "rows" /\ sid \in Sources /\ sid' = sid + 1
      BY <1>2, <2>3 DEF SnapshotRow, Sources
    <3>2. ~ WindowWriting(sid)
      <4>1. cpc["window"] \in {"end", "exit", "off"}
        BY <2>1, Zenon DEF FirstRows
      <4> QED BY <1>1, <4>1, SMTT(30) DEF WindowWriting, Threaded, ComputeThreads
    <3>3. snap' = [snap EXCEPT !.rows[sid] = window[sid]]
      BY <2>3, <3>2, Zenon DEF SnapshotRow
    <3>4. snap.rows \in [Sources -> Row]
      BY <1>2, Zenon DEF Snapshot
    <3>5. snap'.generation = snap.generation /\ snap'.rows = [snap.rows EXCEPT ![sid] = window[sid]]
      BY <1>2, <3>3, Zenon DEF Snapshot
    <3>6. ASSUME NEW id \in 0 .. sid
          PROVE  snap'.rows[id] = window[id]
      <4>1. CASE id = sid
        BY <3>1, <3>4, <3>5, <4>1, Zenon
      <4>2. CASE id # sid
        <5>1. id \in Sources /\ id \in 0 .. sid - 1
          BY <1>2, <3>1, <4>2 DEF Sources
        <5>2. snap'.rows[id] = snap.rows[id]
          BY <3>4, <3>5, <4>2, <5>1, Zenon
        <5> QED BY <3>1, <5>1, <5>2, Zenon DEF FirstSnapshot
      <4> QED BY <4>1, <4>2, Zenon
    <3>7. sid' - 1 = sid
      BY <1>2, <3>1
    <3> QED BY <2>1, <3>1, <3>5, <3>6, <3>7, Zenon DEF FirstSnapshot
  <2>4. CASE UNCHANGED <<cpc["snapshot"], sid, snap>>
    BY <2>1, <2>4, Zenon DEF FirstSnapshot
  <2>5. ~ (ComputeTo("loop") \/ ComputeTo("off"))
    BY <1>2, Zenon DEF ComputeTo, AllAt
  <2>6. ~ SnapshotPublish /\ ~ SnapshotFinish
    BY <1>2, <1>3, Zenon DEF SnapshotPublish, SnapshotFinish, Goto
  <2>7. SnapshotWait => UNCHANGED compute
    BY Zenon DEF SnapshotWait
  <2> QED BY <1>2, <2>2, <2>3, <2>4, <2>5, <2>6, <2>7, ThreadMoves, Zenon DEF compute, SnapshotStep
<1>12. cpc'["snapshot"] \in {"finish", "end", "exit"} \/ control'.snapshot_done = 1 \/ snapshots'.fresh =>
         control.window_done = 1 /\ snapshots'.last = Whole
  <2>1. CASE SnapshotPublish
    <3>1. cpc["snapshot"] = "rows" /\ sid = kMaxSources /\ snapshots'.last = snap
      BY <2>1, Zenon DEF SnapshotPublish
    <3>2. control.window_done = 1 /\ snap.generation = 1
      BY <3>1, Zenon DEF FirstSnapshot
    <3>3. \A id \in Sources : snap.rows[id] = window[id]
      BY <1>2, <3>1, Zenon DEF FirstSnapshot, Sources
    <3>4. snap.rows \in [Sources -> Row] /\ snap = [generation |-> snap.generation, rows |-> snap.rows]
      BY <1>2, Zenon DEF Snapshot
    <3>5. snap.rows = window
      BY <1>2, <3>3, <3>4
    <3>6. window = latest
      BY <3>2, Zenon DEF FirstRows
    <3>7. snap = Whole
      BY <3>2, <3>4, <3>5, <3>6, Zenon DEF Whole
    <3> QED BY <3>1, <3>2, <3>7, Zenon
  <2>2. CASE ~ SnapshotPublish
    <3>1. cpc'["snapshot"] \in {"finish", "end", "exit"}
            => cpc["snapshot"] \in {"finish", "end", "exit"}
      <4>1. CASE ComputeTo("loop") \/ ComputeTo("off")
        BY <1>2, <4>1, Zenon DEF ComputeTo, AllAt
      <4>2. CASE SnapshotStep
        BY <1>2, <1>3, <2>2, <4>2, Zenon
        DEF SnapshotStep, SnapshotWait, SnapshotStart, SnapshotRow, SnapshotFinish, compute, Goto
      <4>3. CASE UNCHANGED cpc["snapshot"]
        BY <4>3, Zenon
      <4>4. CASE cpc["snapshot"] = "end"
        BY <4>4, Zenon
      <4> QED BY <1>2, <4>1, <4>2, <4>3, <4>4, ThreadMoves, Zenon DEF compute
    <3>2. SnapshotFinish => cpc["snapshot"] = "finish"
      BY Zenon DEF SnapshotFinish
    <3> QED BY <1>4, <1>7, <1>8, <2>2, <3>1, <3>2, Zenon DEF FirstSnapshot
  <2> QED BY <2>1, <2>2, Zenon
<1>13. control.window_done = 1 => Whole' = Whole
  BY <1>5, Zenon DEF Whole
<1> QED BY <1>5, <1>9, <1>10, <1>11, <1>12, <1>13, Zenon DEF FirstSnapshot

\* The publish process takes and writes the one snapshot.
LEMMA FirstOutputKept ==
  ASSUME ControlInv, FirstRows, FirstSnapshot, FirstOutput, [Next]_vars, Calm
  PROVE  FirstOutput'
<1>1. TypeOK /\ Threaded /\ Supervised
  BY Zenon DEF ControlInv, ProcessInv
<1>2. proc \in [Roles -> ProcStates] /\ "publish" \in Roles /\ control \in ControlType
  BY <1>1, Zenon DEF TypeOK, LayoutTypeOK, Roles, ControlType
<1>3. control.window_done = 1 => control'.window_done = 1 /\ Whole' = Whole
  BY <1>1, FlagsRise, RowsStand, Zenon DEF Calm, Whole
<1>4. Stopped => Stopped'
  <2>1. control'.shutdown = control.shutdown \/ RaiseShutdown
    BY <1>1, FlagWriters, Zenon DEF Calm
  <2>2. RaiseShutdown => control'.shutdown = 1
    BY <1>2, Zenon DEF RaiseShutdown, ControlType
  <2> QED BY <2>1, <2>2, Zenon DEF Stopped
<1>5. ~ Kill /\ ~ Signal /\ ~ PublishWriteFails
  BY FirstPassSteps, Zenon DEF Calm
<1>6. CASE SpawnPublish
  <2>1. /\ proc' = [proc EXCEPT !["publish"] = "run"]
        /\ PublishTo("loop") /\ UNCHANGED file
    BY <1>6, Zenon DEF SpawnPublish, Calm
  <2>2. proc'["publish"] = "run"
    BY <1>2, <2>1, Zenon
  <2> QED BY <1>3, <2>1, <2>2, Zenon DEF PublishTo, FirstOutput
<1>7. CASE PublishLoop \/ PublishConsume \/ PublishCheck
  <2>1. UNCHANGED <<file, proc>>
    BY <1>7, Zenon DEF PublishLoop, PublishConsume, PublishCheck
  <2>2. have' => control.window_done = 1 /\ last' = Whole
    <3>1. \/ UNCHANGED <<have, last>>
          \/ snapshots.fresh /\ last' = snapshots.last
      BY <1>7, Zenon DEF PublishLoop, PublishConsume, PublishCheck
    <3>2. CASE UNCHANGED <<have, last>>
      BY <3>2, Zenon DEF FirstOutput
    <3>3. CASE snapshots.fresh /\ last' = snapshots.last
      BY <3>3, Zenon DEF FirstSnapshot
    <3> QED BY <3>1, <3>2, <3>3, Zenon
  <2>3. ppc' = "write" => have' \/ Stopped
    BY <1>7 DEF PublishLoop, PublishConsume, PublishCheck, PublishReady
  <2> QED BY <1>3, <1>4, <2>1, <2>2, <2>3, Zenon DEF FirstOutput
<1>8. CASE PublishWrite
  <2>1. ppc = "write" /\ file' = (IF have THEN last ELSE file) /\ PublishTo("off")
    BY <1>8, Zenon DEF PublishWrite
  <2> QED BY <1>3, <1>4, <2>1, Zenon DEF PublishTo, FirstOutput
<1>9. CASE UNCHANGED <<publish, file>> /\ proc'["publish"] = proc["publish"]
  BY <1>3, <1>4, <1>9, ZenonT(30) DEF publish, FirstOutput
<1> QED
  BY <1>1, <1>5, <1>6, <1>7, <1>8, <1>9, PublishWriters, RoleWriters, Zenon DEF PublishStep

\* Nothing is copied at the start.
LEMMA FirstPassInit ==
  ASSUME Init
  PROVE  FirstPass
<1>1. cpc["fast"] = "off" /\ cpc["window"] = "off" /\ cpc["snapshot"] = "off" /\ wrow = EmptyRow
  BY Zenon DEF Init, ComputeInit, AllAt, Threads, Stages
<1>2. control.fast_done = 0 /\ control.window_done = 0 /\ control.snapshot_done = 0
  BY Zenon DEF Init, LayoutInit, FreshControl
<1>3. latest = EmptyRows /\ window = EmptyRows /\ ~ snapshots.fresh
  BY Zenon DEF Init, LayoutInit
<1>4. proc["publish"] = "none" /\ ~ have /\ ppc = "off" /\ file = EmptySnapshot
  BY Zenon DEF Init, LayoutInit, PublishInit, Roles
<1>5. \A id \in Sources : EmptyRows[id] = EmptyRow
  BY Zenon DEF EmptyRows
<1> QED BY <1>1, <1>2, <1>3, <1>4, <1>5 DEF FirstPass, FirstRows, FirstSnapshot, FirstOutput

\* Every step keeps it.
LEMMA FirstPassStep ==
  ASSUME ControlInv, FirstPass, [Next]_vars
  PROVE  FirstPass'
<1> SUFFICES ASSUME Undisturbed'
             PROVE  FirstRows' /\ FirstSnapshot' /\ FirstOutput'
  BY Zenon DEF FirstPass
<1>1. Calm
  BY FirstPassSteps, Zenon
<1>2. FirstRows /\ FirstSnapshot /\ FirstOutput
  BY <1>1, Zenon DEF FirstPass, Calm
<1> QED BY <1>1, <1>2, FirstRowsKept, FirstSnapshotKept, FirstOutputKept, Zenon

\* In a pass without failure or restart each stage hands on all of what the
\* stage before it finished.
THEOREM FirstPassInvariant == SafetySpec => []FirstPass
<1>1. Init => FirstPass
  BY FirstPassInit, Zenon
<1>2. ControlInv /\ FirstPass /\ [Next]_vars => FirstPass'
  BY FirstPassStep, Zenon
<1> QED BY <1>1, <1>2, ControlInvariant, PTL DEF SafetySpec

\* When snapshot_done is seen, the snapshot holds the final row of every source.
THEOREM SnapshotWhole == SafetySpec => []SnapshotComplete
<1>1. FirstPass => SnapshotComplete
  BY ZenonT(30) DEF FirstPass, FirstSnapshot, SnapshotComplete, Whole
<1> QED BY <1>1, FirstPassInvariant, PTL

\* A publish process that ended by itself has written the file, and a written
\* file is the final row of every source.
THEOREM OutputWhole == SafetySpec => []OutputComplete
<1>1. Whole # EmptySnapshot
  BY DEF Whole, EmptySnapshot
<1>2. FirstPass => OutputComplete
  BY <1>1, Zenon DEF FirstPass, FirstOutput, OutputComplete, Whole
<1> QED BY <1>2, FirstPassInvariant, PTL
==============================================================================
