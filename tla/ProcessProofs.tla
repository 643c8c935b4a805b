---------------------------- MODULE ProcessProofs ----------------------------
(* The composed system for every file, every size of the queue and the ring, *)
(* every number of sources, and every number of failures and reruns: what    *)
(* each step writes, the types, and which processes and threads there are.   *)
EXTENDS Pipeline, TLAPS

------------------------------------------------------------------------------
(* The invariant *)

\* The processes have their threads where their code has them, and a thread
\* holds a frame of the file where it uses one.
IngestThreads ==
  /\ Running("ingest") <=> spc # "off"
  /\ spc = "off" <=> fpc = "off"
  /\ spc = "exit" <=> fpc = "exit"
  /\ closed => spc \in {"end", "exit", "off"}
  /\ spc \in {"end", "exit"} => closed
  /\ spc = "push" => next \in Records
  /\ fpc \in {"notify", "push", "full"} => held \in Records

PublishThread == Running("publish") <=> ppc # "off"

ComputeThreads ==
  /\ IF Running("compute") THEN \A t \in Threads : cpc[t] # "off" ELSE cpc = AllAt("off")
  /\ cpc["fast"] \in {"off", "loop", "drain", "publish", "check", "finish", "end", "exit"}
  /\ cpc["window"] \in {"off", "loop", "rows", "last", "end", "exit"}
  /\ cpc["snapshot"] \in {"off", "loop", "rows", "finish", "end", "exit"}
  /\ cpc["watchdog"] \in {"off", "loop", "end", "exit"}
  /\ cpc["fast"] = "publish" => record \in Records
  /\ cpc["window"] = "rows" => wid < kMaxSources
  /\ wrow # EmptyRow => cpc["window"] \in {"rows", "last"} /\ wid < kMaxSources

Threaded == IngestThreads /\ PublishThread /\ ComputeThreads

Stopping == {"wait_ingest", "wait_publish", "install", "hold", "reset", "release",
             "wait_observe", "exit"}

\* Where the supervisor is while a child runs, and while the flag is up.
Supervised ==
  /\ Running("ingest") =>
       supc \in {"publish", "compute", "wait_compute", "shutdown", "wait_ingest"}
  /\ Running("publish") =>
       supc \in {"compute", "wait_compute", "shutdown", "wait_ingest", "wait_publish"}
  /\ Running("compute") => supc = "wait_compute"
  /\ Stopped => supc \in Stopping \cup {"killed"}

ProcessInv == TypeOK /\ Threaded /\ Supervised

------------------------------------------------------------------------------
(* Sequences *)

\* The empty sequence is one of any kind.
LEMMA SeqEmpty ==
  ASSUME NEW S
  PROVE  <<>> \in Seq(S) /\ Len(<<>>) = 0
OBVIOUS

\* An element of a sequence is of its kind.
LEMMA SeqElement ==
  ASSUME NEW S, NEW s \in Seq(S)
  PROVE  Len(s) \in Nat /\ \A i \in 1 .. Len(s) : s[i] \in S
OBVIOUS

\* push keeps the kind and adds one.
LEMMA SeqAppend ==
  ASSUME NEW S, NEW s \in Seq(S), NEW e \in S
  PROVE  Append(s, e) \in Seq(S) /\ Len(Append(s, e)) = Len(s) + 1
OBVIOUS

\* pop keeps the kind and takes one.
LEMMA SeqPop ==
  ASSUME NEW S, NEW s \in Seq(S), s # <<>>
  PROVE  /\ Head(s) \in S
         /\ Tail(s) \in Seq(S) /\ Len(Tail(s)) = Len(s) - 1
<1>1. Len(s) \in Nat /\ Len(s) > 0
  OBVIOUS
<1>2. Head(s) = s[1] /\ Tail(s) \in Seq(S) /\ Len(Tail(s)) = Len(s) - 1
  BY <1>1
<1>3. Head(s) \in S
  BY <1>1, <1>2
<1> QED BY <1>2, <1>3, Zenon

\* Queues of frames in file order.
Increasing(s) == \A i, j \in 1 .. Len(s) : i < j => s[i] < s[j]
Before(S, T) == \A m \in S, n \in T : m < n

\* push: the elements and one more.
LEMMA ElementsPushed ==
  ASSUME NEW s \in Seq(Records), NEW e \in Records
  PROVE  /\ Elements(Append(s, e)) = Elements(s) \cup {e}
         /\ Increasing(s) /\ Before(Elements(s), {e}) => Increasing(Append(s, e))
<1> DEFINE t == Append(s, e)
<1>1. Len(s) \in Nat /\ DOMAIN s = 1 .. Len(s) /\ t \in Seq(Records) /\ Len(t) = Len(s) + 1
      /\ DOMAIN t = 1 .. Len(s) + 1
  OBVIOUS
<1>2. (\A i \in 1 .. Len(s) : t[i] = s[i]) /\ t[Len(s) + 1] = e
  OBVIOUS
<1> HIDE DEF t
<1>3. \A i \in 1 .. Len(s) + 1 : i \in 1 .. Len(s) \/ i = Len(s) + 1
  BY <1>1
<1>4. Elements(t) = Elements(s) \cup {e}
  <2>1. ASSUME NEW i \in DOMAIN t
        PROVE  t[i] \in Elements(s) \cup {e}
    BY <1>1, <1>2, <1>3, Zenon DEF Elements
  <2>2. ASSUME NEW i \in DOMAIN s
        PROVE  s[i] \in Elements(t)
    <3>1. i \in DOMAIN t /\ t[i] = s[i]
      BY <1>1, <1>2
    <3> QED BY <3>1, Zenon DEF Elements
  <2>3. e \in Elements(t)
    <3>1. Len(s) + 1 \in DOMAIN t
      BY <1>1
    <3> QED BY <1>2, <3>1, Zenon DEF Elements
  <2> QED BY <2>1, <2>2, <2>3, Zenon DEF Elements
<1>5. ASSUME Increasing(s), Before(Elements(s), {e})
      PROVE  Increasing(t)
  <2> SUFFICES ASSUME NEW i \in 1 .. Len(t), NEW j \in 1 .. Len(t), i < j
               PROVE  t[i] < t[j]
    BY Zenon DEF Increasing
  <2>1. i \in 1 .. Len(s) /\ t[i] = s[i] /\ s[i] \in Elements(s)
    BY <1>1, <1>2 DEF Elements
  <2>2. CASE j = Len(s) + 1
    BY <1>2, <1>5, <2>1, <2>2, Zenon DEF Before
  <2>3. CASE j \in 1 .. Len(s)
    BY <1>2, <1>5, <2>1, <2>3, Zenon DEF Increasing
  <2> QED BY <1>1, <1>3, <2>2, <2>3, Zenon
<1> QED BY <1>4, <1>5, Zenon DEF t

\* pop: the first element and the others, which come after it.
LEMMA ElementsPopped ==
  ASSUME NEW s \in Seq(Records), s # <<>>, Increasing(s)
  PROVE  /\ Elements(s) = {Head(s)} \cup Elements(Tail(s))
         /\ Increasing(Tail(s)) /\ Before({Head(s)}, Elements(Tail(s)))
<1> DEFINE t == Tail(s)
<1>1. Len(s) \in Nat /\ Len(s) > 0 /\ DOMAIN s = 1 .. Len(s)
  OBVIOUS
<1>2. /\ Head(s) = s[1] /\ Len(t) = Len(s) - 1 /\ DOMAIN t = 1 .. Len(s) - 1
      /\ \A i \in 1 .. Len(s) - 1 : t[i] = s[i + 1]
  BY <1>1
<1> HIDE DEF t
<1>3. \A i \in 1 .. Len(s) - 1 : i + 1 \in 1 .. Len(s)
  BY <1>1
<1>4. \A i \in 1 .. Len(s) : i = 1 \/ (i - 1 \in 1 .. Len(s) - 1 /\ t[i - 1] = s[i])
  <2> SUFFICES ASSUME NEW i \in 1 .. Len(s), i # 1
               PROVE  i - 1 \in 1 .. Len(s) - 1 /\ t[i - 1] = s[i]
    BY Zenon
  <2>1. i - 1 \in 1 .. Len(s) - 1 /\ (i - 1) + 1 = i
    BY <1>1
  <2> QED BY <1>2, <2>1, Zenon
<1>5. Elements(s) = {Head(s)} \cup Elements(t)
  <2>1. ASSUME NEW i \in DOMAIN s
        PROVE  s[i] \in {Head(s)} \cup Elements(t)
    BY <1>1, <1>2, <1>4, Zenon DEF Elements
  <2>2. ASSUME NEW i \in DOMAIN t
        PROVE  t[i] \in Elements(s)
    BY <1>1, <1>2, <1>3, Zenon DEF Elements
  <2>3. Head(s) \in Elements(s)
    BY <1>1, <1>2 DEF Elements
  <2> QED BY <2>1, <2>2, <2>3, Zenon DEF Elements
<1>6. Increasing(t)
  <2> SUFFICES ASSUME NEW i \in 1 .. Len(t), NEW j \in 1 .. Len(t), i < j
               PROVE  t[i] < t[j]
    BY Zenon DEF Increasing
  <2>1. i + 1 \in 1 .. Len(s) /\ j + 1 \in 1 .. Len(s) /\ i + 1 < j + 1
    BY <1>1, <1>2
  <2> QED BY <1>2, <2>1, Zenon DEF Increasing
<1>7. ASSUME NEW i \in DOMAIN t
      PROVE  Head(s) < t[i]
  <2>1. 1 \in 1 .. Len(s) /\ i + 1 \in 1 .. Len(s) /\ 1 < i + 1
    BY <1>1, <1>2
  <2> QED BY <1>2, <2>1, Zenon DEF Increasing
<1>8. Before({Head(s)}, Elements(t))
  BY <1>7, Zenon DEF Before, Elements
<1> QED BY <1>5, <1>6, <1>8, Zenon DEF t

------------------------------------------------------------------------------
(* Who writes what *)

\* The steps of the system by process: a step is one of these, and leaves the
\* variables of the other processes alone.
LEMMA Steps ==
  ASSUME [Next]_vars
  PROVE  \/ SupervisorStep
         \/ SourceStep /\ OfIngest
         \/ FramesStep /\ OfIngest
         \/ IngestMain /\ OfIngest
         \/ SpuriousWake /\ UNCHANGED <<control, ring, proc>> /\ OfIngest
         \/ FastStep /\ OfCompute
         \/ WindowStep /\ OfCompute
         \/ SnapshotStep /\ OfCompute
         \/ WatchdogStep /\ OfCompute
         \/ ComputeMain /\ OfCompute
         \/ PublishStep /\ OfPublish
         \/ RequestRerun \/ ObserverExit \/ ObserverFails
         \/ Kill \/ Signal \/ PublishWriteFails \/ StageStalls
         \/ UNCHANGED vars
BY Zenon DEF Next, IngestStep, Over

\* control is written by the supervisor, by the ends of the processes and by
\* the stages.
LEMMA ControlWriters ==
  ASSUME [Next]_vars
  PROVE  \/ UNCHANGED control
         \/ WaitCompute \/ RaiseShutdown \/ ResetControl
         \/ IngestEnd /\ UNCHANGED ring /\ OfIngest
         \/ (FastLoop \/ FastFinish) /\ OfCompute
         \/ (WindowLoop \/ WindowFinish) /\ OfCompute
         \/ (SnapshotWait \/ SnapshotFinish) /\ OfCompute
         \/ WatchdogCheck /\ OfCompute
         \/ ComputeEnd /\ OfCompute
         \/ StageStalls
<1>1. CASE SupervisorStep
  BY <1>1, Zenon DEF SupervisorStep, SpawnObserve, SpawnIngest, SpawnPublish, SpawnCompute, WaitIngest,
              WaitPublish, InstallHandlers, Hold, Release, WaitObserve, shared
<1>2. CASE SourceStep \/ FramesStep
  BY <1>2, Zenon DEF SourceStep, FramesStep
<1>9. CASE IngestMain /\ OfIngest
  BY <1>9, Zenon DEF IngestMain, IngestExit
<1>10. CASE ComputeMain /\ OfCompute
  BY <1>10, Zenon DEF ComputeMain, ComputeExit
<1>3. CASE FastStep /\ OfCompute
  BY <1>3, Zenon DEF FastStep, FastPop, FastEmpty, FastPublish, FastCheck
<1>4. CASE WindowStep /\ OfCompute
  BY <1>4, Zenon DEF WindowStep, WindowLoad, WindowPublish
<1>5. CASE SnapshotStep /\ OfCompute
  BY <1>5, Zenon DEF SnapshotStep, SnapshotStart, SnapshotRow, SnapshotPublish
<1>6. CASE WatchdogStep /\ OfCompute
  BY <1>6, Zenon DEF WatchdogStep, WatchdogEnd
<1>7. CASE PublishStep
  BY <1>7, SMTT(30) DEF PublishStep, PublishLoop, PublishConsume, PublishCheck, PublishWrite
<1>8. CASE RequestRerun \/ ObserverExit \/ ObserverFails \/ Kill \/ Signal \/ PublishWriteFails
           \/ UNCHANGED vars
  BY <1>8, Zenon DEF RequestRerun, ObserverExit, ObserverFails, Kill, Signal, PublishWriteFails, shared, vars
<1> QED BY <1>1, <1>2, <1>3, <1>4, <1>5, <1>6, <1>7, <1>8, <1>9, <1>10, Steps, ZenonT(30)

\* proc is written where a child is spawned, ends or dies.
LEMMA ProcWriters ==
  ASSUME [Next]_vars
  PROVE  \/ UNCHANGED proc
         \/ SpawnIngest \/ SpawnPublish \/ SpawnCompute
         \/ IngestExit /\ UNCHANGED ring /\ OfIngest
         \/ ComputeExit /\ OfCompute
         \/ PublishWrite /\ UNCHANGED <<ring, latest, window>> /\ OfPublish
         \/ Kill \/ Signal \/ PublishWriteFails
<1>1. CASE SupervisorStep
  BY <1>1, Zenon DEF SupervisorStep, SpawnObserve, WaitCompute, RaiseShutdown, WaitIngest,
              WaitPublish, InstallHandlers, Hold, ResetControl, Release, WaitObserve, shared
<1>2. CASE SourceStep \/ FramesStep
  BY <1>2, SMTT(30) DEF SourceStep, FramesStep
<1>9. CASE IngestMain /\ OfIngest
  BY <1>9, Zenon DEF IngestMain, IngestEnd
<1>10. CASE ComputeMain /\ OfCompute
  BY <1>10, Zenon DEF ComputeMain, ComputeEnd
<1>3. CASE FastStep
  BY <1>3, Zenon DEF FastStep, FastLoop, FastPop, FastEmpty, FastPublish, FastCheck, FastFinish
<1>4. CASE WindowStep
  BY <1>4, Zenon DEF WindowStep, WindowLoop, WindowLoad, WindowPublish, WindowFinish
<1>5. CASE SnapshotStep
  BY <1>5, Zenon DEF SnapshotStep, SnapshotWait, SnapshotStart, SnapshotRow, SnapshotPublish,
              SnapshotFinish
<1>6. CASE WatchdogStep
  BY <1>6, Zenon DEF WatchdogStep, WatchdogCheck, WatchdogEnd
<1>7. CASE PublishStep /\ OfPublish
  BY <1>7, Zenon DEF PublishStep, PublishLoop, PublishConsume, PublishCheck
<1>8. CASE RequestRerun \/ ObserverExit \/ ObserverFails \/ StageStalls \/ UNCHANGED vars
  BY <1>8, Zenon DEF RequestRerun, ObserverExit, ObserverFails, StageStalls, Silence, shared, vars
<1> QED BY <1>1, <1>2, <1>3, <1>4, <1>5, <1>6, <1>7, <1>8, <1>9, <1>10, Steps, ZenonT(30)

\* The threads of ingest move themselves; a spawn or a kill places them anew.
LEMMA IngestWriters ==
  ASSUME [Next]_vars
  PROVE  \/ UNCHANGED ingest
         \/ SpawnIngest
         \/ SourceStep /\ OfIngest
         \/ FramesStep /\ OfIngest
         \/ IngestMain /\ OfIngest
         \/ SpuriousWake /\ UNCHANGED <<control, ring, proc>> /\ OfIngest
         \/ Kill \/ Signal
<1>1. CASE SupervisorStep
  BY <1>1, Zenon DEF SupervisorStep, SpawnObserve, SpawnPublish, SpawnCompute, WaitCompute, RaiseShutdown,
              WaitIngest, WaitPublish, InstallHandlers, Hold, ResetControl, Release, WaitObserve
<1>2. CASE (FastStep \/ WindowStep \/ SnapshotStep \/ WatchdogStep \/ ComputeMain) /\ OfCompute
  BY <1>2, Zenon DEF OfCompute
<1>3. CASE PublishStep /\ OfPublish
  BY <1>3, Zenon DEF OfPublish
<1>4. CASE RequestRerun \/ ObserverExit \/ ObserverFails \/ PublishWriteFails \/ StageStalls
           \/ UNCHANGED vars
  BY <1>4, Zenon DEF RequestRerun, ObserverExit, ObserverFails, PublishWriteFails, StageStalls, vars
<1> QED BY <1>1, <1>2, <1>3, <1>4, Steps, ZenonT(30)

\* So do the threads of compute.
LEMMA ComputeWriters ==
  ASSUME [Next]_vars
  PROVE  \/ UNCHANGED compute
         \/ SpawnCompute
         \/ FastStep /\ OfCompute
         \/ WindowStep /\ OfCompute
         \/ SnapshotStep /\ OfCompute
         \/ WatchdogEnd /\ OfCompute
         \/ ComputeMain /\ OfCompute
         \/ Kill \/ Signal
<1>1. CASE SupervisorStep
  BY <1>1, Zenon DEF SupervisorStep, SpawnObserve, SpawnIngest, SpawnPublish, WaitCompute, RaiseShutdown,
              WaitIngest, WaitPublish, InstallHandlers, Hold, ResetControl, Release, WaitObserve
<1>2. CASE OfIngest \/ OfPublish
  BY <1>2, Zenon DEF OfIngest, OfPublish
<1>3. CASE WatchdogStep /\ OfCompute
  BY <1>3, Zenon DEF WatchdogStep, WatchdogCheck
<1>4. CASE RequestRerun \/ ObserverExit \/ ObserverFails \/ PublishWriteFails \/ StageStalls
           \/ UNCHANGED vars
  BY <1>4, Zenon DEF RequestRerun, ObserverExit, ObserverFails, PublishWriteFails, StageStalls, Silence, vars
<1> QED BY <1>1, <1>2, <1>3, <1>4, Steps, ZenonT(30)

\* And the publish process, which alone writes the file.
LEMMA PublishWriters ==
  ASSUME [Next]_vars
  PROVE  \/ UNCHANGED <<publish, file>>
         \/ SpawnPublish
         \/ PublishStep /\ OfPublish
         \/ Kill \/ Signal \/ PublishWriteFails
<1>1. CASE SupervisorStep
  BY <1>1, Zenon DEF SupervisorStep, SpawnObserve, SpawnIngest, SpawnCompute, WaitCompute, RaiseShutdown,
              WaitIngest, WaitPublish, InstallHandlers, Hold, ResetControl, Release, WaitObserve
<1>2. CASE OfIngest \/ OfCompute
  BY <1>2, Zenon DEF OfIngest, OfCompute
<1>3. CASE RequestRerun \/ ObserverExit \/ ObserverFails \/ StageStalls \/ UNCHANGED vars
  BY <1>3, Zenon DEF RequestRerun, ObserverExit, ObserverFails, StageStalls, vars
<1> QED BY <1>1, <1>2, <1>3, Steps, ZenonT(30)

\* The ring has one writer and one reader.
LEMMA RingWriters ==
  ASSUME [Next]_vars
  PROVE  \/ UNCHANGED ring
         \/ FramesPush /\ UNCHANGED <<control, proc>> /\ OfIngest
         \/ FastPop /\ OfCompute
<1>1. CASE SupervisorStep
  BY <1>1, Zenon DEF SupervisorStep, SpawnObserve, SpawnIngest, SpawnPublish, SpawnCompute, WaitCompute,
              RaiseShutdown, WaitIngest, WaitPublish, InstallHandlers, Hold, ResetControl, Release,
              WaitObserve, shared
<1>2. CASE (SourceStep \/ FramesStep) /\ OfIngest
  BY <1>2, Zenon DEF SourceStep, FramesStep
<1>7. CASE IngestMain
  BY <1>7, Zenon DEF IngestMain
<1>3. CASE FastStep /\ OfCompute
  BY <1>3, SMTT(30) DEF FastStep, FastLoop, FastEmpty, FastPublish, FastCheck, FastFinish
<1>4. CASE WindowStep \/ SnapshotStep \/ WatchdogStep \/ ComputeMain
  BY <1>4, Zenon DEF WindowStep, WindowLoop, WindowLoad, WindowPublish, WindowFinish, SnapshotStep, SnapshotWait,
              SnapshotStart, SnapshotRow, SnapshotPublish, SnapshotFinish, WatchdogStep,
              WatchdogCheck, WatchdogEnd, ComputeMain, ComputeEnd, ComputeExit
<1>5. CASE PublishStep
  BY <1>5, SMTT(30) DEF PublishStep
<1>6. CASE RequestRerun \/ ObserverExit \/ ObserverFails \/ Kill \/ Signal \/ PublishWriteFails
           \/ StageStalls \/ UNCHANGED vars
  BY <1>6, Zenon DEF RequestRerun, ObserverExit, ObserverFails, Kill, Signal, PublishWriteFails,
              StageStalls, Silence, shared, vars
<1> QED BY <1>1, <1>2, <1>3, <1>4, <1>5, <1>6, <1>7, Steps, ZenonT(30)

\* Each array has one writer; the snapshot buffer has one writer and one reader.
LEMMA RowWriters ==
  ASSUME [Next]_vars
  PROVE  /\ latest' # latest => FastPublish /\ OfCompute
         /\ window' # window => WindowPublish /\ OfCompute
         /\ snapshots' # snapshots =>
              \/ SnapshotPublish /\ OfCompute
              \/ PublishConsume /\ UNCHANGED <<ring, latest, window>> /\ OfPublish
<1>1. CASE SupervisorStep
  BY <1>1, Zenon DEF SupervisorStep, SpawnObserve, SpawnIngest, SpawnPublish, SpawnCompute, WaitCompute,
              RaiseShutdown, WaitIngest, WaitPublish, InstallHandlers, Hold, ResetControl, Release,
              WaitObserve, shared
<1>2. CASE OfIngest
  BY <1>2, SMTT(30) DEF OfIngest
<1>3. CASE FastStep /\ OfCompute
  BY <1>3, Zenon DEF FastStep, FastLoop, FastPop, FastEmpty, FastPublish, FastCheck, FastFinish
<1>4. CASE WindowStep /\ OfCompute
  BY <1>4, Zenon DEF WindowStep, WindowLoop, WindowLoad, WindowPublish, WindowFinish
<1>5. CASE SnapshotStep /\ OfCompute
  BY <1>5, Zenon DEF SnapshotStep, SnapshotWait, SnapshotStart, SnapshotRow, SnapshotPublish,
              SnapshotFinish
<1>6. CASE WatchdogStep \/ ComputeMain
  BY <1>6, Zenon DEF WatchdogStep, WatchdogCheck, WatchdogEnd, ComputeMain, ComputeEnd, ComputeExit
<1>7. CASE PublishStep /\ OfPublish
  BY <1>7, SMTT(30) DEF PublishStep, PublishLoop, PublishConsume, PublishCheck, PublishWrite
<1>8. CASE RequestRerun \/ ObserverExit \/ ObserverFails \/ Kill \/ Signal \/ PublishWriteFails
           \/ StageStalls \/ UNCHANGED vars
  BY <1>8, Zenon DEF RequestRerun, ObserverExit, ObserverFails, Kill, Signal, PublishWriteFails,
              StageStalls, Silence, shared, vars
<1> QED BY <1>1, <1>2, <1>3, <1>4, <1>5, <1>6, <1>7, <1>8, Steps, ZenonT(30)

\* The supervisor moves itself; a signal may stop it.
LEMMA SupervisorWriters ==
  ASSUME [Next]_vars
  PROVE  \/ SupervisorStep \/ Signal
         \/ UNCHANGED supervisor
<1>1. CASE OfIngest \/ OfCompute \/ OfPublish
  BY <1>1, Zenon DEF OfIngest, OfCompute, OfPublish, Environment
<1>2. CASE RequestRerun \/ ObserverExit \/ ObserverFails \/ Kill \/ PublishWriteFails
           \/ StageStalls \/ UNCHANGED vars
  BY <1>2, Zenon DEF RequestRerun, ObserverExit, ObserverFails, Kill, PublishWriteFails, StageStalls, vars
<1> QED BY <1>1, <1>2, Steps, ZenonT(30)

------------------------------------------------------------------------------
(* Types *)

ControlType ==
  [shutdown : Flag, generation : Nat, ingest_done : Flag,
   fast_done : Flag, window_done : Flag, snapshot_done : Flag,
   compute_done : Flag, fault : Flag, heartbeat : [Stages -> Beats]]

\* A new control block, and one with a heartbeat stored.
LEMMA ControlValues ==
  /\ FreshControl \in ControlType
  /\ \A c \in ControlType, s \in Stages : Beat(c, s) \in ControlType
<1>1. NoBeats \in [Stages -> Beats]
  BY Zenon DEF NoBeats, Beats
<1>2. FreshControl \in ControlType
  BY <1>1, Zenon DEF FreshControl, ControlType, Flag
<1>3. ASSUME NEW c \in ControlType, NEW s \in Stages
      PROVE  Beat(c, s) \in ControlType
  BY Zenon DEF Beat, ControlType, Beats
<1> QED BY <1>2, <1>3, Zenon

\* control stays a control block.
LEMMA ControlTyped ==
  ASSUME TypeOK, [Next]_vars
  PROVE  control' \in ControlType
<1>1. control \in ControlType
  BY Zenon DEF TypeOK, LayoutTypeOK, ControlType
<1>2. CASE WaitCompute \/ RaiseShutdown
  BY <1>1, <1>2 DEF WaitCompute, RaiseShutdown, NextGeneration, ControlType, Flag
<1>3. CASE ResetControl
  <2>1. control.generation + 1 \in Nat
    BY <1>1 DEF ControlType
  <2>2. [FreshControl EXCEPT !.generation = control.generation + 1] \in ControlType
    BY <2>1, ControlValues, Zenon DEF ControlType
  <2> QED BY <1>3, <2>2, Zenon DEF ResetControl, NextGeneration
<1>4. CASE IngestEnd \/ FastFinish \/ ComputeEnd \/ WatchdogCheck
  BY <1>1, <1>4 DEF IngestEnd, FastFinish, ComputeEnd, WatchdogCheck, ControlType, Flag
<1>5. CASE FastLoop \/ WindowLoop \/ SnapshotWait
  BY <1>1, <1>5, ControlValues, Zenon DEF FastLoop, WindowLoop, SnapshotWait, Stages
<1>6. CASE WindowFinish \/ SnapshotFinish
  <2>1. Beat(control, "window") \in ControlType /\ Beat(control, "snapshot") \in ControlType
    BY <1>1, ControlValues, Zenon DEF Stages
  <2>2. /\ [Beat(control, "window") EXCEPT !.window_done = 1] \in ControlType
        /\ [Beat(control, "snapshot") EXCEPT !.snapshot_done = 1] \in ControlType
    BY <2>1, Zenon DEF ControlType, Flag
  <2> QED BY <1>6, <2>2, Zenon DEF WindowFinish, SnapshotFinish
<1>7. CASE StageStalls
  <2>1. PICK s \in Stages : control' = [control EXCEPT !.heartbeat[s] = "old"]
    BY <1>7, Zenon DEF StageStalls, Silence
  <2> QED BY <1>1, <2>1, Zenon DEF ControlType, Beats
<1>8. CASE UNCHANGED control
  BY <1>1, <1>8, Zenon
<1> QED BY <1>2, <1>3, <1>4, <1>5, <1>6, <1>7, <1>8, ControlWriters, Zenon

\* So does the table of processes.
LEMMA ProcTyped ==
  ASSUME TypeOK, [Next]_vars
  PROVE  proc' \in [Roles -> ProcStates]
<1>1. proc \in [Roles -> ProcStates]
  BY Zenon DEF TypeOK, LayoutTypeOK
<1>2. CASE SpawnIngest \/ SpawnPublish \/ SpawnCompute
  BY <1>1, <1>2, Zenon DEF SpawnIngest, SpawnPublish, SpawnCompute, Stillborn, ProcStates
<1>3. CASE IngestExit \/ ComputeExit \/ PublishWrite \/ PublishWriteFails
  BY <1>1, <1>3, Zenon DEF IngestExit, ComputeExit, PublishWrite, PublishWriteFails, Exit, ProcStates
<1>4. ASSUME NEW S, ChildrenDie(S)
      PROVE  proc' \in [Roles -> ProcStates]
  BY <1>1, <1>4, Zenon DEF ChildrenDie, ProcStates
<1>5. CASE Kill \/ Signal
  BY <1>4, <1>5, Zenon DEF Kill, Signal
<1>6. CASE UNCHANGED proc
  BY <1>1, <1>6, Zenon
<1> QED BY <1>2, <1>3, <1>5, <1>6, ProcWriters, Zenon

\* The ring holds frames of the file, and no more than its slots.
LEMMA RingTyped ==
  ASSUME TypeOK, Threaded, [Next]_vars
  PROVE  ring' \in Seq(Records) /\ Len(ring') <= RingSlots
<1>1. ring \in Seq(Records) /\ Len(ring) <= RingSlots /\ Len(ring) \in Nat /\ RingSlots \in Nat
  BY LayoutAssumption, SeqElement, Zenon DEF TypeOK, LayoutTypeOK
<1>2. CASE FramesPush
  <2>1. held \in Records
    BY <1>2, Zenon DEF FramesPush, Threaded, IngestThreads
  <2>2. Append(ring, held) \in Seq(Records) /\ Len(Append(ring, held)) = Len(ring) + 1
    BY <1>1, <2>1, SeqAppend, Zenon
  <2>3. CASE ring' = ring
    BY <1>1, <2>3, Zenon
  <2>4. CASE Len(ring) < RingSlots /\ ring' = Append(ring, held)
    BY <1>1, <2>2, <2>4
  <2> QED BY <1>2, <2>3, <2>4, Zenon DEF FramesPush, RingHasRoom
<1>3. CASE FastPop
  <2>1. Tail(ring) \in Seq(Records) /\ Len(Tail(ring)) = Len(ring) - 1
    BY <1>1, <1>3, SeqPop, Zenon DEF FastPop
  <2> QED BY <1>1, <1>3, <2>1 DEF FastPop
<1>4. CASE UNCHANGED ring
  BY <1>1, <1>4, Zenon
<1> QED BY <1>2, <1>3, <1>4, RingWriters, Zenon

\* The rows stay rows, and the snapshots snapshots.
LEMMA RowsTyped ==
  ASSUME TypeOK, Threaded, [Next]_vars
  PROVE  /\ latest' \in [Sources -> Row] /\ window' \in [Sources -> Row]
         /\ snapshots' \in [last : Snapshot, fresh : BOOLEAN]
<1>1. /\ latest \in [Sources -> Row] /\ window \in [Sources -> Row]
      /\ snapshots \in [last : Snapshot, fresh : BOOLEAN]
  BY Zenon DEF TypeOK, LayoutTypeOK
<1>2. latest' \in [Sources -> Row]
  <2>1. CASE FastPublish
    <3>1. record \in Records /\ publishes \in [Sources -> Nat] /\ control.generation \in Nat
      BY <2>1, Zenon DEF FastPublish, Threaded, ComputeThreads, TypeOK, ComputeTypeOK, LayoutTypeOK
    <3>2. Replay[record] \in Frames
      BY <3>1, LayoutAssumption, SeqElement, Zenon DEF Records
    <3>3. record \in Nat /\ Replay[record].id \in Sources
      BY <3>1, <3>2 DEF Records, Frames
    <3> DEFINE id == Replay[record].id
    <3>4. publishes'[id] \in Nat
      BY <2>1, <3>1, <3>3 DEF FastPublish, Count
    <3>5. latest' = [latest EXCEPT ![id] = [publishes |-> publishes'[id], sequence |-> record,
                                           by |-> control.generation]]
      BY <2>1, Zenon DEF FastPublish
    <3> QED BY <1>1, <3>1, <3>3, <3>4, <3>5, SMTT(30) DEF Row
  <2> QED BY <1>1, <2>1, RowWriters, Zenon
<1>3. window' \in [Sources -> Row]
  <2>1. CASE WindowPublish
    <3>1. window' = [window EXCEPT ![wid] = wrow] /\ wrow \in Row
      BY <2>1, Zenon DEF WindowPublish, TypeOK, ComputeTypeOK
    <3> QED BY <1>1, <3>1, Zenon
  <2> QED BY <1>1, <2>1, RowWriters, Zenon
<1>4. snapshots' \in [last : Snapshot, fresh : BOOLEAN]
  <2>1. CASE SnapshotPublish
    BY <2>1, Zenon DEF SnapshotPublish, TypeOK, ComputeTypeOK
  <2>2. CASE PublishConsume
    BY <1>1, <2>2, Zenon DEF PublishConsume
  <2> QED BY <1>1, <2>1, <2>2, RowWriters, Zenon
<1> QED BY <1>2, <1>3, <1>4, Zenon

\* The threads of ingest and their queue keep their types.
LEMMA IngestTyped ==
  ASSUME TypeOK, Threaded, [Next]_vars
  PROVE  IngestTypeOK'
<1>1. IngestTypeOK
  BY Zenon DEF TypeOK
<1>2. /\ queue \in Seq(Records) /\ Len(queue) \in Nat /\ Len(queue) <= QueueSlots
      /\ QueueSlots \in Nat /\ Len(Replay) \in Nat
  BY <1>1, IngestAssumption, LayoutAssumption, SeqElement, Zenon DEF IngestTypeOK
<1>3. ASSUME NEW s \in {"off", "read"}, NEW f \in {"off", "pop"}, IngestTo(s, f)
      PROVE  IngestTypeOK'
  <2>1. /\ spc' = s /\ next' = 0 /\ fpc' = f /\ held' = 0 /\ queue' = <<>>
        /\ closed' = FALSE /\ asleep' = {}
    BY <1>3, Zenon DEF IngestTo
  <2>4. readable' \in 0 .. Len(Replay) /\ 0 <= readable'
    BY <1>2, <1>3 DEF IngestTo
  <2>2. queue' \in Seq(Records) /\ Len(queue') = 0
    BY <2>1, SeqEmpty, Zenon
  <2>3. 0 \in 0 .. Len(Replay) /\ 0 <= QueueSlots
    BY <1>2
  <2> QED BY <2>1, <2>2, <2>3, <2>4, Zenon DEF IngestTypeOK
<1>4. CASE SpawnIngest
  <2>1. CASE IngestTo("read", "pop")
    BY <1>3, <2>1, Zenon
  <2>2. CASE UNCHANGED ingest
    BY <1>1, <2>2, Zenon DEF ingest, IngestTypeOK
  <2> QED BY <1>4, <2>1, <2>2, Zenon DEF SpawnIngest
<1>5. CASE Kill \/ Signal
  <2>1. ASSUME NEW S, ChildrenDie(S)
        PROVE  IngestTypeOK'
    <3>1. CASE IngestTo("off", "off")
      BY <1>3, <3>1, Zenon
    <3>2. CASE UNCHANGED ingest
      BY <1>1, <3>2, Zenon DEF ingest, IngestTypeOK
    <3> QED BY <2>1, <3>1, <3>2, Zenon DEF ChildrenDie
  <2> QED BY <1>5, <2>1, Zenon DEF Kill, Signal
<1>6. CASE SourceRead
  BY <1>1, <1>2, <1>6 DEF SourceRead, IngestTypeOK
<1>7. CASE SourcePush
  <2>1. queue' \in Seq(Records) /\ Len(queue') <= QueueSlots
    <3>1. CASE queue' = queue
      BY <1>2, <3>1, Zenon
    <3>2. CASE ~ closed /\ ~ QueueFull /\ queue' = Append(queue, next)
      <4>1. next \in Records
        BY <1>7, Zenon DEF SourcePush, Threaded, IngestThreads
      <4>2. queue' \in Seq(Records) /\ Len(queue') = Len(queue) + 1
        BY <1>2, <3>2, <4>1, SeqAppend, Zenon
      <4> QED BY <1>2, <3>2, <4>2 DEF QueueFull
    <3> QED BY <1>7, <3>1, <3>2, Zenon DEF SourcePush
  <2> QED BY <1>1, <1>7, <2>1, Zenon DEF SourcePush, IngestTypeOK
<1>8. CASE SourceNotify \/ SourceClose \/ FramesNotify \/ FramesFull \/ SpuriousWake
  BY <1>1, <1>8, Zenon
  DEF SourceNotify, SourceClose, FramesNotify, FramesFull, SpuriousWake, IngestTypeOK,
      NotifyOne, PopNotify, CloseNotify, TryAgain
<1>9. CASE FramesPop
  <2>1. CASE queue # <<>> /\ held' = Head(queue) /\ queue' = Tail(queue) /\ fpc' = "notify"
             /\ UNCHANGED asleep
    <3>1. /\ Head(queue) \in Records /\ Tail(queue) \in Seq(Records)
          /\ Len(Tail(queue)) = Len(queue) - 1
      BY <1>2, <2>1, SeqPop, Zenon
    <3>2. held' \in 0 .. Len(Replay) /\ Len(queue') <= QueueSlots
      BY <1>2, <2>1, <3>1 DEF Records
    <3> QED BY <1>1, <1>9, <2>1, <3>1, <3>2, Zenon DEF FramesPop, IngestTypeOK
  <2>2. CASE fpc' \in {fpc, "end"} /\ asleep' \in {asleep, asleep \cup {"frames"}}
             /\ UNCHANGED <<held, queue>>
    BY <1>1, <1>9, <2>2, Zenon DEF FramesPop, IngestTypeOK
  <2> QED BY <1>9, <2>1, <2>2, Zenon DEF FramesPop
<1>10. CASE FramesPush
  BY <1>1, <1>10, Zenon DEF FramesPush, IngestTypeOK
<1>11. CASE IngestMain
  BY <1>1, <1>11, Zenon DEF IngestMain, IngestEnd, IngestExit, IngestTypeOK
<1>12. CASE UNCHANGED ingest
  BY <1>1, <1>12, Zenon DEF ingest, IngestTypeOK
<1> QED
  BY <1>4, <1>5, <1>6, <1>7, <1>8, <1>9, <1>10, <1>11, <1>12, IngestWriters, Zenon
  DEF SourceStep, FramesStep

\* A record names a source.
LEMMA RecordSource == \A n \in Records : Replay[n].id \in Sources
<1>1. \A n \in Records : Replay[n] \in Frames
  BY LayoutAssumption, SeqElement, Zenon DEF Records
<1> QED BY <1>1, Zenon DEF Frames

\* The threads of compute keep theirs.
LEMMA ComputeTyped ==
  ASSUME TypeOK, Threaded, [Next]_vars
  PROVE  ComputeTypeOK'
<1>1. ComputeTypeOK /\ LayoutTypeOK
  BY Zenon DEF TypeOK
<1>2. /\ kMaxSources \in Nat /\ Len(Replay) \in Nat
      /\ EmptyRow \in Row /\ EmptySnapshot \in Snapshot /\ NoPublishes \in [Sources -> Nat]
  BY LayoutAssumption, SeqElement, Zenon
  DEF EmptySnapshot, Snapshot, EmptyRows, EmptyRow, Row, NoPublishes
<1>3. ASSUME NEW pc \in {"off", "loop"}, ComputeTo(pc)
      PROVE  ComputeTypeOK'
  <2>1. 0 \in 0 .. Len(Replay) /\ 0 \in 0 .. kMaxSources
    BY <1>2
  <2>2. cpc' \in [Threads -> {"off", "loop", "drain", "publish", "check", "rows", "last",
                             "finish", "end", "exit"}]
    BY <1>3, Zenon DEF ComputeTo, AllAt
  <2> QED BY <1>2, <1>3, <2>1, <2>2, Zenon DEF ComputeTo, ComputeTypeOK
<1>4. CASE SpawnCompute
  <2>1. CASE ComputeTo("loop")
    BY <1>3, <2>1, Zenon
  <2>2. CASE UNCHANGED compute
    BY <1>1, <2>2, Zenon DEF compute, ComputeTypeOK
  <2> QED BY <1>4, <2>1, <2>2, Zenon DEF SpawnCompute
<1>5. CASE Kill \/ Signal
  <2>1. ASSUME NEW S, ChildrenDie(S)
        PROVE  ComputeTypeOK'
    <3>1. CASE ComputeTo("off")
      BY <1>3, <3>1, Zenon
    <3>2. CASE UNCHANGED compute
      BY <1>1, <3>2, Zenon DEF compute, ComputeTypeOK
    <3> QED BY <2>1, <3>1, <3>2, Zenon DEF ChildrenDie
  <2> QED BY <1>5, <2>1, Zenon DEF Kill, Signal
<1>6. CASE ComputeMain
  <2>1. CASE ComputeEnd
    BY <1>1, <2>1, Zenon DEF ComputeEnd, AllAt, ComputeTypeOK
  <2>2. CASE ComputeExit
    BY <1>3, <2>2, Zenon DEF ComputeExit
  <2> QED BY <1>6, <2>1, <2>2, Zenon DEF ComputeMain
<1>7. CASE FastLoop \/ FastEmpty \/ FastCheck \/ FastFinish
  BY <1>1, <1>7, Zenon DEF FastLoop, FastEmpty, FastCheck, FastFinish, Goto, ComputeTypeOK
<1>8. CASE FastPop
  <2>1. record' \in 0 .. Len(Replay)
    <3>1. Head(ring) \in Records
      BY <1>1, <1>8, SeqPop, Zenon DEF FastPop, LayoutTypeOK
    <3> QED BY <1>2, <1>8, <3>1 DEF FastPop, Records
  <2> QED BY <1>1, <1>8, <2>1, Zenon DEF FastPop, Goto, ComputeTypeOK
<1>9. CASE FastPublish
  <2>1. publishes' \in [Sources -> Nat]
    <3>1. publishes \in [Sources -> Nat] /\ Replay[record].id \in Sources
      BY <1>1, <1>9, RecordSource, Zenon DEF FastPublish, Threaded, ComputeThreads, ComputeTypeOK
    <3>2. publishes' = [publishes EXCEPT ![Replay[record].id] = publishes[Replay[record].id] + 1]
      BY <1>9, Zenon DEF FastPublish, Count
    <3> QED BY <3>1, <3>2
  <2> QED BY <1>1, <1>9, <2>1, Zenon DEF FastPublish, Goto, ComputeTypeOK
<1>10. CASE WindowLoop \/ WindowFinish
  BY <1>1, <1>2, <1>10 DEF WindowLoop, WindowFinish, LastPassFrom, Goto, ComputeTypeOK
<1>11. CASE WindowLoad \/ WindowPublish
  <2>1. wrow' \in Row
    <3>1. CASE wrow' = latest[wid] /\ wid < kMaxSources
      <4>1. wid \in Sources
        BY <1>1, <1>2, <3>1 DEF ComputeTypeOK, Sources
      <4> QED BY <1>1, <3>1, <4>1, Zenon DEF LayoutTypeOK
    <3>2. CASE wrow' \in {wrow, EmptyRow}
      BY <1>1, <1>2, <3>2, Zenon DEF ComputeTypeOK
    <3> QED BY <1>11, <3>1, <3>2, Zenon DEF WindowLoad, WindowPublish
  <2>2. wid < kMaxSources
    BY <1>11, Zenon DEF WindowLoad, WindowPublish, Threaded, ComputeThreads
  <2>3. wid' \in 0 .. kMaxSources
    BY <1>1, <1>2, <1>11, <2>2 DEF WindowLoad, WindowPublish, NextSource, ComputeTypeOK
  <2> QED BY <1>1, <1>11, <2>1, <2>3, Zenon
          DEF WindowLoad, WindowPublish, NextSource, Goto, ComputeTypeOK
<1>12. CASE SnapshotWait \/ SnapshotPublish \/ SnapshotFinish \/ WatchdogEnd
  BY <1>1, <1>12, Zenon
  DEF SnapshotWait, SnapshotPublish, SnapshotFinish, WatchdogEnd, Goto, compute, ComputeTypeOK
<1>13. CASE SnapshotStart
  <2>1. snap' \in Snapshot
    BY <1>1, <1>2, <1>13, Zenon DEF SnapshotStart, Snapshot, LayoutTypeOK
  <2>2. 0 \in 0 .. kMaxSources
    BY <1>2
  <2> QED BY <1>1, <1>13, <2>1, <2>2, Zenon DEF SnapshotStart, Goto, ComputeTypeOK
<1>14. CASE SnapshotRow
  <2>1. snap' \in Snapshot
    <3>1. sid \in Sources
      BY <1>1, <1>2, <1>14 DEF SnapshotRow, ComputeTypeOK, Sources
    <3>2. window[sid] \in Row /\ snap \in Snapshot
      BY <1>1, <3>1, Zenon DEF LayoutTypeOK, ComputeTypeOK
    <3>3. snap' = [snap EXCEPT !.rows[sid] = window[sid]] \/ snap' = snap
      BY <1>14, Zenon DEF SnapshotRow
    <3> QED BY <3>1, <3>2, <3>3 DEF Snapshot
  <2>2. sid' \in 0 .. kMaxSources
    BY <1>1, <1>2, <1>14 DEF SnapshotRow, ComputeTypeOK
  <2> QED BY <1>1, <1>14, <2>1, <2>2, Zenon DEF SnapshotRow, ComputeTypeOK
<1>15. CASE UNCHANGED compute
  BY <1>1, <1>15, Zenon DEF compute, ComputeTypeOK
<1> QED
  BY <1>4, <1>5, <1>6, <1>7, <1>8, <1>9, <1>10, <1>11, <1>12, <1>13, <1>14, <1>15,
     ComputeWriters, Zenon
  DEF FastStep, WindowStep, SnapshotStep

\* The publish process keeps its types, and the file is a snapshot.
LEMMA PublishTyped ==
  ASSUME TypeOK, [Next]_vars
  PROVE  PublishTypeOK'
<1>1. PublishTypeOK /\ snapshots \in [last : Snapshot, fresh : BOOLEAN]
  BY Zenon DEF TypeOK, LayoutTypeOK
<1>2. EmptySnapshot \in Snapshot
  BY Zenon DEF EmptySnapshot, Snapshot, EmptyRows, EmptyRow, Row
<1>3. ASSUME NEW pc \in {"off", "loop"}, PublishTo(pc), file' = file
      PROVE  PublishTypeOK'
  BY <1>1, <1>2, <1>3, Zenon DEF PublishTo, PublishTypeOK
<1>4. CASE UNCHANGED <<publish, file>>
  BY <1>1, <1>4, Zenon DEF publish, PublishTypeOK
<1>5. CASE SpawnPublish
  <2>1. CASE PublishTo("loop")
    BY <1>3, <1>5, <2>1, Zenon DEF SpawnPublish
  <2> QED BY <1>4, <1>5, <2>1, Zenon DEF SpawnPublish
<1>6. CASE Kill \/ Signal
  <2>1. ASSUME NEW S, ChildrenDie(S), file' = file
        PROVE  PublishTypeOK'
    <3>1. CASE PublishTo("off")
      BY <1>3, <2>1, <3>1, Zenon
    <3> QED BY <1>4, <2>1, <3>1, Zenon DEF ChildrenDie
  <2> QED BY <1>6, <2>1, Zenon DEF Kill, Signal
<1>7. CASE PublishWriteFails
  BY <1>3, <1>7, Zenon DEF PublishWriteFails
<1>8. CASE PublishLoop \/ PublishConsume \/ PublishCheck
  BY <1>1, <1>8, Zenon DEF PublishLoop, PublishConsume, PublishCheck, PublishTypeOK
<1>9. CASE PublishWrite
  BY <1>1, <1>2, <1>9, Zenon DEF PublishWrite, PublishTo, PublishTypeOK
<1> QED BY <1>4, <1>5, <1>6, <1>7, <1>8, <1>9, PublishWriters, Zenon DEF PublishStep

SupervisorTypeOK ==
  /\ supc \in {"observe", "ingest", "publish", "compute", "wait_compute", "shutdown",
               "wait_ingest", "wait_publish", "install", "hold", "reset", "release",
               "wait_observe", "exit", "killed"}
  /\ attempt \in 1 .. kMaxComputeAttempts
  /\ exits \in [Roles -> {"exit0", "exit1", "exit2", "exit3"}] /\ status \in Flag
  /\ holdstop \in BOOLEAN /\ handlers \in BOOLEAN

SetupTypeOK ==
  /\ mode \in {"plain", "observe", "hold"} /\ crash \in {"none", "once", "always"}
  /\ limit \in [failures : Nat, reruns : Nat]
  /\ observe \in ProcStates /\ release \in Flag /\ request \in Flag
  /\ failures \in 0 .. limit.failures /\ reruns \in 0 .. limit.reruns

\* The supervisor's variables keep their types: the attempts end at three, and
\* wait_child gives an exit code.
LEMMA SupervisorTyped ==
  ASSUME TypeOK, Supervised, [Next]_vars
  PROVE  SupervisorTypeOK'
<1>1. SupervisorTypeOK /\ proc \in [Roles -> ProcStates]
  BY Zenon DEF TypeOK, SupervisorTypeOK, LayoutTypeOK
<1>2. \A r \in Roles : Reaped(r) => Waited(proc[r]) \in {"exit0", "exit1", "exit2", "exit3"}
  BY <1>1, Zenon DEF Reaped, Running, Waited, ProcStates
<1>3. CASE SpawnObserve \/ SpawnIngest \/ SpawnCompute \/ RaiseShutdown
  BY <1>1, <1>3, Zenon DEF SpawnObserve, SpawnIngest, SpawnCompute, RaiseShutdown, SupervisorTypeOK
<1>4. CASE SpawnPublish
  BY <1>1, <1>4 DEF SpawnPublish, SupervisorTypeOK, kMaxComputeAttempts
<1>5. CASE WaitCompute
  <2>1. exits' \in [Roles -> {"exit0", "exit1", "exit2", "exit3"}]
    BY <1>1, <1>2, <1>5, Zenon DEF WaitCompute, SupervisorTypeOK, Roles
  <2>2. attempt' \in 1 .. kMaxComputeAttempts
    BY <1>1, <1>5 DEF WaitCompute, LastAttempt, SupervisorTypeOK, kMaxComputeAttempts
  <2> QED BY <1>1, <1>5, <2>1, <2>2, Zenon DEF WaitCompute, SupervisorTypeOK
<1>6. CASE WaitIngest \/ WaitPublish
  <2>1. exits' \in [Roles -> {"exit0", "exit1", "exit2", "exit3"}]
    BY <1>1, <1>2, <1>6 DEF WaitIngest, WaitPublish, SupervisorTypeOK, Roles
  <2> QED BY <1>1, <1>6, <2>1, Zenon DEF WaitIngest, WaitPublish, SupervisorTypeOK, Flag
<1>7. CASE InstallHandlers \/ Hold \/ Release \/ WaitObserve \/ ResetControl
  BY <1>1, <1>7, ZenonT(30)
  DEF InstallHandlers, Hold, Release, WaitObserve, ResetControl, NoExits, SupervisorTypeOK, Flag
<1>8. CASE Signal
  BY <1>1, <1>8, Zenon DEF Signal, SupervisorTypeOK
<1>9. CASE UNCHANGED supervisor
  BY <1>1, <1>9, Zenon DEF supervisor, SupervisorTypeOK
<1> QED
  BY <1>3, <1>4, <1>5, <1>6, <1>7, <1>8, <1>9, SupervisorWriters, Zenon DEF SupervisorStep

\* How the run was started, the observer, and how much of the bounds is used.
LEMMA SetupTyped ==
  ASSUME TypeOK, [Next]_vars
  PROVE  SetupTypeOK'
<1>1. SetupTypeOK
  BY Zenon DEF TypeOK, SetupTypeOK
<1>2. Fail => failures' \in 0 .. limit.failures
  BY <1>1 DEF Fail, SetupTypeOK
<1>3. CASE SpawnObserve
  BY <1>1, <1>2, <1>3, SMTT(30) DEF SpawnObserve, Stillborn, SetupTypeOK, setup, ProcStates
<1>4. CASE SpawnIngest \/ SpawnPublish
  BY <1>1, <1>2, <1>4, Zenon DEF SpawnIngest, SpawnPublish, SetupTypeOK, setup, observer
<1>5. CASE SpawnCompute
  BY <1>1, <1>2, <1>5, SMTT(30) DEF SpawnCompute, CrashRequested, SetupTypeOK, observer
<1>6. CASE WaitCompute \/ RaiseShutdown \/ WaitIngest \/ WaitPublish \/ InstallHandlers
           \/ ResetControl \/ WaitObserve
  BY <1>1, <1>6, Zenon DEF WaitCompute, RaiseShutdown, WaitIngest, WaitPublish, InstallHandlers,
                    ResetControl, WaitObserve, SetupTypeOK, setup, observer, used
<1>7. CASE Hold \/ Release
  BY <1>1, <1>7, Zenon DEF Hold, Release, SetupTypeOK, setup, used, Flag
<1>8. CASE OfIngest \/ OfCompute \/ OfPublish
  BY <1>1, <1>8, Zenon DEF OfIngest, OfCompute, OfPublish, Environment, SetupTypeOK, setup, observer, used
<1>9. CASE RequestRerun
  BY <1>1, <1>9 DEF RequestRerun, SetupTypeOK, setup, Flag
<1>10. CASE ObserverExit \/ ObserverFails
  BY <1>1, <1>2, <1>10, SMTT(30) DEF ObserverExit, ObserverFails, SetupTypeOK, setup, used, ProcStates
<1>11. CASE Kill \/ PublishWriteFails \/ StageStalls
  BY <1>1, <1>2, <1>11, SMTT(30) DEF Kill, PublishWriteFails, StageStalls, SetupTypeOK, setup, observer
<1>12. CASE Signal
  BY <1>1, <1>2, <1>12, Zenon DEF Signal, SetupTypeOK, setup, ProcStates
<1>13. CASE UNCHANGED vars
  BY <1>1, <1>13, SMTT(30) DEF vars, SetupTypeOK, setup, observer, used
<1> QED
  BY <1>3, <1>4, <1>5, <1>6, <1>7, <1>8, <1>9, <1>10, <1>11, <1>12, <1>13, Steps, ZenonT(30)
  DEF SupervisorStep

\* Every step keeps the types.
LEMMA TypesKept ==
  ASSUME TypeOK, Threaded, Supervised, [Next]_vars
  PROVE  TypeOK'
<1>1. LayoutTypeOK'
  BY ControlTyped, ProcTyped, RingTyped, RowsTyped, Zenon DEF LayoutTypeOK, ControlType
<1>2. IngestTypeOK' /\ ComputeTypeOK' /\ PublishTypeOK'
  BY IngestTyped, ComputeTyped, PublishTyped, Zenon
<1>3. SupervisorTypeOK' /\ SetupTypeOK'
  BY SupervisorTyped, SetupTyped, SMTT(30)
<1> QED BY <1>1, <1>2, <1>3, Zenon DEF TypeOK, SupervisorTypeOK, SetupTypeOK

------------------------------------------------------------------------------
(* Processes and threads *)

\* Which steps change the state of which child.
LEMMA RoleWriters ==
  ASSUME TypeOK, [Next]_vars
  PROVE  /\ \/ proc'["ingest"] = proc["ingest"]
            \/ SpawnIngest \/ Kill \/ Signal
            \/ IngestExit /\ UNCHANGED ring /\ OfIngest
         /\ \/ proc'["publish"] = proc["publish"]
            \/ SpawnPublish \/ Kill \/ Signal \/ PublishWriteFails
            \/ PublishWrite /\ UNCHANGED <<ring, latest, window>> /\ OfPublish
         /\ \/ proc'["compute"] = proc["compute"]
            \/ SpawnCompute \/ Kill \/ Signal
            \/ ComputeExit /\ OfCompute
<1>1. proc \in [Roles -> ProcStates] /\ "ingest" # "publish" /\ "ingest" # "compute"
      /\ "publish" # "compute" /\ {"ingest", "publish", "compute"} \subseteq Roles
  BY Zenon DEF TypeOK, LayoutTypeOK, Roles
<1>2. SpawnIngest => proc'["publish"] = proc["publish"] /\ proc'["compute"] = proc["compute"]
  BY <1>1, Zenon DEF SpawnIngest
<1>3. SpawnPublish => proc'["ingest"] = proc["ingest"] /\ proc'["compute"] = proc["compute"]
  BY <1>1, Zenon DEF SpawnPublish
<1>4. SpawnCompute => proc'["ingest"] = proc["ingest"] /\ proc'["publish"] = proc["publish"]
  BY <1>1, Zenon DEF SpawnCompute
<1>5. IngestExit => proc'["publish"] = proc["publish"] /\ proc'["compute"] = proc["compute"]
  BY <1>1, Zenon DEF IngestExit, Exit
<1>6. PublishWrite \/ PublishWriteFails =>
        proc'["ingest"] = proc["ingest"] /\ proc'["compute"] = proc["compute"]
  BY <1>1, Zenon DEF PublishWrite, PublishWriteFails, Exit
<1>7. ComputeExit => proc'["ingest"] = proc["ingest"] /\ proc'["publish"] = proc["publish"]
  BY <1>1, Zenon DEF ComputeExit, Exit
<1>8. UNCHANGED proc => \A r \in Roles : proc'[r] = proc[r]
  BY Zenon
<1> QED BY <1>1, <1>2, <1>3, <1>4, <1>5, <1>6, <1>7, <1>8, ProcWriters, SMTT(30)

\* What a kill or a signal leaves of the children: the ones it reaches are dead
\* and have no threads, the others go on.
LEMMA Deaths ==
  ASSUME TypeOK, Kill \/ Signal
  PROVE  /\ \/ proc'["ingest"] = "killed" /\ Running("ingest") /\ IngestTo("off", "off")
            \/ proc'["ingest"] = proc["ingest"] /\ UNCHANGED ingest
         /\ \/ proc'["publish"] = "killed" /\ Running("publish") /\ PublishTo("off")
            \/ proc'["publish"] = proc["publish"] /\ UNCHANGED publish
         /\ \/ proc'["compute"] = "killed" /\ Running("compute") /\ ComputeTo("off")
            \/ proc'["compute"] = proc["compute"] /\ UNCHANGED compute
         /\ Signal => \A r \in Roles : proc'[r] # "run"
         /\ Fail
<1>1. proc \in [Roles -> ProcStates] /\ {"ingest", "publish", "compute"} \subseteq Roles
  BY Zenon DEF TypeOK, LayoutTypeOK, Roles
<1>2. PICK S : S \subseteq {r \in Roles : Running(r)} /\ ChildrenDie(S)
               /\ (Signal => S = {r \in Roles : Running(r)})
  <2>1. CASE Signal
    BY <2>1, Zenon DEF Signal
  <2>2. CASE ~ Signal
    <3>1. PICK r \in Roles : Running(r) /\ ChildrenDie({r})
      BY <2>2, Zenon DEF Kill
    <3> QED BY <2>2, <3>1, Zenon
  <2> QED BY <2>1, <2>2, Zenon
<1>3. \A r \in Roles : proc'[r] = IF r \in S THEN "killed" ELSE proc[r]
  BY <1>2, Zenon DEF ChildrenDie
<1>4. Signal => \A r \in Roles : proc'[r] # "run"
  BY <1>2, <1>3, Zenon DEF Running
<1>5. Fail
  BY Zenon DEF Kill, Signal
<1>6. /\ \/ proc'["ingest"] = "killed" /\ Running("ingest") /\ IngestTo("off", "off")
         \/ proc'["ingest"] = proc["ingest"] /\ UNCHANGED ingest
      /\ \/ proc'["publish"] = "killed" /\ Running("publish") /\ PublishTo("off")
         \/ proc'["publish"] = proc["publish"] /\ UNCHANGED publish
      /\ \/ proc'["compute"] = "killed" /\ Running("compute") /\ ComputeTo("off")
         \/ proc'["compute"] = proc["compute"] /\ UNCHANGED compute
  BY <1>1, <1>2, <1>3, Zenon DEF ChildrenDie
<1> QED BY <1>4, <1>5, <1>6, Zenon

\* The threads of ingest.
LEMMA IngestThreadsKept ==
  ASSUME TypeOK, Threaded, Supervised, [Next]_vars
  PROVE  IngestThreads'
<1>1. IngestThreads /\ IngestTypeOK
  BY Zenon DEF Threaded, TypeOK
<1>2. CASE SpawnIngest
  <2>1. spc = "off" /\ ~ Running("ingest") /\ proc \in [Roles -> ProcStates] /\ "ingest" \in Roles
    BY <1>1, <1>2, Zenon DEF SpawnIngest, Supervised, IngestThreads, TypeOK, LayoutTypeOK, Roles
  <2>2. CASE IngestTo("read", "pop") /\ proc' = [proc EXCEPT !["ingest"] = "run"]
    BY <2>1, <2>2, Zenon DEF IngestTo, IngestThreads, Running
  <2>3. CASE UNCHANGED ingest /\ \E p \in Stillborn : proc' = [proc EXCEPT !["ingest"] = p]
    BY <1>1, <2>1, <2>3, Zenon DEF ingest, IngestThreads, Running, Stillborn
  <2> QED BY <1>2, <2>2, <2>3, SMTT(30) DEF SpawnIngest
<1>3. CASE Kill \/ Signal
  <2>1. \/ proc'["ingest"] = "killed" /\ Running("ingest") /\ IngestTo("off", "off")
        \/ proc'["ingest"] = proc["ingest"] /\ UNCHANGED ingest
    BY <1>3, Deaths, Zenon
  <2> QED BY <1>1, <2>1 DEF IngestTo, ingest, IngestThreads, Running
<1>4. CASE IngestExit
  <2>1. proc'["ingest"] = "exit0"
    BY <1>4, SMTT(30) DEF IngestExit, Exit, TypeOK, LayoutTypeOK, Roles
  <2> QED BY <1>1, <1>4, <2>1, Zenon DEF IngestExit, IngestThreads, Running
<1>9. CASE IngestEnd
  BY <1>1, <1>9, Zenon DEF IngestEnd, IngestThreads, Running
<1>5. CASE SourceStep
  <2>1. next < readable => next + 1 \in Records
    BY <1>1, LayoutAssumption, SeqElement DEF IngestTypeOK, Records
  <2> QED BY <1>1, <1>5, <2>1
          DEF SourceStep, SourceRead, SourcePush, SourceNotify, SourceClose, IngestThreads, Running
<1>6. CASE FramesStep
  <2>1. queue # <<>> => Head(queue) \in Records
    BY <1>1, SeqPop, SMTT(30) DEF IngestTypeOK
  <2>2. UNCHANGED <<proc, spc, next, closed>>
    BY <1>6, SMTT(30) DEF FramesStep, FramesPop, FramesNotify, FramesFull, FramesPush
  <2>3. fpc \notin {"off", "exit"} /\ fpc' \notin {"off", "exit"}
    BY <1>6, SMTT(30) DEF FramesStep, FramesPop, FramesNotify, FramesFull, FramesPush, TryAgain
  <2>4. fpc' \in {"notify", "push", "full"} => held' \in Records
    BY <1>1, <1>6, <2>1, Zenon
    DEF FramesStep, FramesPop, FramesNotify, FramesFull, FramesPush, TryAgain, IngestThreads
  <2> QED BY <1>1, <2>2, <2>3, <2>4, Zenon DEF IngestThreads, Running
<1>7. CASE SpuriousWake /\ UNCHANGED <<control, ring, proc>>
  BY <1>1, <1>7, Zenon DEF SpuriousWake, IngestThreads, Running
<1>8. CASE UNCHANGED ingest /\ proc'["ingest"] = proc["ingest"]
  BY <1>1, <1>8, Zenon DEF ingest, IngestThreads, Running
<1> QED
  BY <1>2, <1>3, <1>4, <1>5, <1>6, <1>7, <1>8, <1>9, IngestWriters, RoleWriters, Zenon
  DEF IngestMain

\* The publish process.
LEMMA PublishThreadKept ==
  ASSUME TypeOK, Threaded, Supervised, [Next]_vars
  PROVE  PublishThread'
<1>1. PublishThread /\ proc \in [Roles -> ProcStates] /\ "publish" \in Roles
  BY Zenon DEF Threaded, TypeOK, LayoutTypeOK, Roles
<1>2. CASE SpawnPublish
  <2>1. ppc = "off"
    BY <1>1, <1>2, Zenon DEF SpawnPublish, Supervised, PublishThread
  <2>2. CASE PublishTo("loop") /\ proc' = [proc EXCEPT !["publish"] = "run"]
    BY <1>1, <2>2, Zenon DEF PublishTo, PublishThread, Running
  <2>3. CASE UNCHANGED publish /\ \E p \in Stillborn : proc' = [proc EXCEPT !["publish"] = p]
    BY <1>1, <2>1, <2>3, Zenon DEF publish, PublishThread, Running, Stillborn
  <2> QED BY <1>2, <2>2, <2>3, Zenon DEF SpawnPublish
<1>3. CASE Kill \/ Signal
  <2>1. \/ proc'["publish"] = "killed" /\ Running("publish") /\ PublishTo("off")
        \/ proc'["publish"] = proc["publish"] /\ UNCHANGED publish
    BY <1>3, Deaths, Zenon
  <2> QED BY <1>1, <2>1, Zenon DEF PublishTo, publish, PublishThread, Running
<1>4. CASE PublishWrite \/ PublishWriteFails
  BY <1>1, <1>4, Zenon DEF PublishWrite, PublishWriteFails, PublishTo, Exit, PublishThread, Running
<1>5. CASE PublishLoop \/ PublishConsume \/ PublishCheck
  BY <1>1, <1>5, Zenon DEF PublishLoop, PublishConsume, PublishCheck, PublishThread, Running
<1>6. CASE UNCHANGED <<publish, file>> /\ proc'["publish"] = proc["publish"]
  BY <1>1, <1>6, Zenon DEF publish, PublishThread, Running
<1> QED
  BY <1>2, <1>3, <1>4, <1>5, <1>6, PublishWriters, RoleWriters, Zenon DEF PublishStep

\* The threads of compute.
LEMMA ComputeThreadsKept ==
  ASSUME TypeOK, Threaded, Supervised, [Next]_vars
  PROVE  ComputeThreads'
<1>1. ComputeThreads /\ proc \in [Roles -> ProcStates] /\ "compute" \in Roles
  BY SMTT(30) DEF Threaded, TypeOK, LayoutTypeOK, Roles
<1>2. /\ cpc \in [Threads -> {"off", "loop", "drain", "publish", "check", "rows", "last",
                             "finish", "end", "exit"}]
      /\ {"fast", "window", "snapshot", "watchdog"} \subseteq Threads
      /\ wid \in 0 .. kMaxSources /\ kMaxSources \in Nat /\ kMaxSources > 0
  BY LayoutAssumption DEF TypeOK, ComputeTypeOK, Threads, Stages
<1>3. ASSUME NEW pc \in {"off", "loop"}, ComputeTo(pc), proc'["compute"] = "run" <=> pc = "loop"
      PROVE  ComputeThreads'
  <2>1. cpc' = AllAt(pc)
    BY <1>3, Zenon DEF ComputeTo
  <2>2. \A t \in Threads : cpc'[t] = pc
    BY <2>1, Zenon DEF AllAt
  <2>3. wrow' = EmptyRow
    BY <1>3, Zenon DEF ComputeTo
  <2> QED BY <1>2, <1>3, <2>1, <2>2, <2>3, Zenon DEF ComputeThreads, Running
<1>4. CASE SpawnCompute
  <2>1. ~ Running("compute")
    BY <1>4, Zenon DEF SpawnCompute, Supervised
  <2>2. CASE ComputeTo("loop") /\ proc' = [proc EXCEPT !["compute"] = "run"]
    BY <1>1, <1>3, <2>2, SMTT(30)
  <2>3. CASE UNCHANGED compute
             /\ \E p \in {"none", "exit1", "exit2"} : proc' = [proc EXCEPT !["compute"] = p]
    BY <1>1, <2>1, <2>3 DEF compute, ComputeThreads, Running
  <2> QED BY <1>4, <2>2, <2>3, SMTT(30) DEF SpawnCompute, Stillborn
<1>5. CASE Kill \/ Signal
  <2>1. \/ proc'["compute"] = "killed" /\ Running("compute") /\ ComputeTo("off")
        \/ proc'["compute"] = proc["compute"] /\ UNCHANGED compute
    BY <1>5, Deaths, Zenon
  <2>2. CASE proc'["compute"] = "killed" /\ ComputeTo("off")
    BY <1>3, <2>2, SMTT(30)
  <2>3. CASE proc'["compute"] = proc["compute"] /\ UNCHANGED compute
    BY <1>1, <2>3 DEF compute, ComputeThreads, Running
  <2> QED BY <2>1, <2>2, <2>3, Zenon
<1>6. CASE ComputeExit
  <2>1. proc'["compute"] \in {"exit0", "exit3"}
    BY <1>1, <1>6, SMTT(30) DEF ComputeExit, Exit
  <2> QED BY <1>3, <1>6, <2>1, Zenon DEF ComputeExit
<1>13. CASE ComputeEnd
  <2>1. \A t \in Threads : cpc[t] = "end" /\ cpc'[t] = "exit"
    BY <1>13, Zenon DEF ComputeEnd, AllAt
  <2>2. UNCHANGED <<proc, record, wid, wrow>> /\ cpc # AllAt("off")
    BY <1>2, <1>13, <2>1, Zenon DEF ComputeEnd, AllAt
  <2> QED BY <1>1, <1>2, <2>1, <2>2, Zenon DEF ComputeThreads, Running
\* A thread that moves stays a thread.
<1>7. ASSUME NEW t \in Threads, NEW pc, pc # "off", cpc[t] # "off", UNCHANGED proc,
             cpc' = [cpc EXCEPT ![t] = pc]
      PROVE  IF Running("compute")' THEN \A u \in Threads : cpc'[u] # "off"
                                    ELSE cpc' = AllAt("off")
  <2>1. Running("compute") /\ Running("compute")'
    BY <1>1, <1>7, SMTT(30) DEF ComputeThreads, AllAt, Running
  <2> QED BY <1>1, <1>2, <1>7, <2>1, Zenon DEF ComputeThreads
<1>8. CASE FastStep
  <2>1. PICK pc \in {"loop", "drain", "publish", "check", "finish", "end"} :
          /\ cpc' = [cpc EXCEPT !["fast"] = pc]
          /\ pc = "publish" => FastPop
    BY <1>8, Zenon
    DEF FastStep, FastLoop, FastPop, FastEmpty, FastPublish, FastCheck, FastFinish, Goto
  <2>2. cpc["fast"] # "off" /\ UNCHANGED <<proc, wid, wrow>>
    BY <1>8, Zenon
    DEF FastStep, FastLoop, FastPop, FastEmpty, FastPublish, FastCheck, FastFinish
  <2>3. FastPop => record' \in Records
    BY SeqPop DEF FastPop, TypeOK, LayoutTypeOK
  <2> QED BY <1>1, <1>2, <1>7, <2>1, <2>2, <2>3, Zenon DEF ComputeThreads
<1>9. CASE WindowStep
  <2>1. UNCHANGED <<proc, record>> /\ cpc["window"] # "off"
    BY <1>9, SMTT(30) DEF WindowStep, WindowLoop, WindowLoad, WindowPublish, WindowFinish
  <2>2. CASE (WindowLoad \/ WindowPublish) /\ UNCHANGED cpc
    <3>1. cpc["window"] = "rows" => wid' < kMaxSources
      BY <1>1, <1>2, <2>2, SMTT(30)
      DEF ComputeThreads, WindowLoad, WindowPublish, NextSource, Goto
    <3>2. wrow' # EmptyRow => cpc["window"] \in {"rows", "last"} /\ wid' < kMaxSources
      BY <2>2, Zenon DEF WindowLoad, WindowPublish
    <3> QED BY <1>1, <2>1, <2>2, <3>1, <3>2, Zenon DEF ComputeThreads, Running
  <2>3. CASE /\ \E pc \in {"loop", "rows", "last", "end"} :
                    cpc' = [cpc EXCEPT !["window"] = pc] /\ (pc = "rows" => wid' = 0)
             /\ wrow' = EmptyRow
    BY <1>1, <1>2, <1>7, <2>1, <2>3, Zenon DEF ComputeThreads
  <2>4. CASE WindowLoop \/ WindowFinish
    <3>1. wrow' = EmptyRow
      BY <1>1, <1>2, <2>4, SMTT(30) DEF WindowLoop, WindowFinish, ComputeThreads
    <3> QED BY <2>3, <2>4, <3>1, Zenon DEF WindowLoop, WindowFinish, Goto
  <2>5. CASE WindowLoad \/ WindowPublish
    BY <2>2, <2>3, <2>5, Zenon DEF WindowLoad, WindowPublish, NextSource, Goto
  <2> QED BY <1>9, <2>4, <2>5, Zenon DEF WindowStep
<1>10. CASE SnapshotStep
  <2>1. UNCHANGED <<proc, record, wid, wrow>> /\ cpc["snapshot"] # "off"
    BY <1>10, Zenon DEF SnapshotStep, SnapshotWait, SnapshotStart, SnapshotRow, SnapshotPublish,
                 SnapshotFinish, compute
  <2>2. CASE UNCHANGED cpc
    BY <1>1, <2>1, <2>2, Zenon DEF ComputeThreads, Running
  <2>3. CASE \E pc \in {"loop", "rows", "finish", "end"} : cpc' = [cpc EXCEPT !["snapshot"] = pc]
    BY <1>1, <1>2, <1>7, <2>1, <2>3, Zenon DEF ComputeThreads
  <2> QED BY <1>10, <2>2, <2>3, Zenon
          DEF SnapshotStep, SnapshotWait, SnapshotStart, SnapshotRow, SnapshotPublish,
              SnapshotFinish, compute, Goto
<1>11. CASE WatchdogEnd
  <2>1. /\ UNCHANGED <<proc, record, wid, wrow>> /\ cpc["watchdog"] # "off"
        /\ cpc' = [cpc EXCEPT !["watchdog"] = "end"]
    BY <1>11, Zenon DEF WatchdogEnd, Goto
  <2> QED BY <1>1, <1>2, <1>7, <2>1, Zenon DEF ComputeThreads
<1>12. CASE UNCHANGED compute /\ proc'["compute"] = proc["compute"]
  BY <1>1, <1>12, Zenon DEF compute, ComputeThreads, Running
<1> QED
  BY <1>4, <1>5, <1>6, <1>8, <1>9, <1>10, <1>11, <1>12, <1>13, ComputeWriters, RoleWriters, Zenon
  DEF ComputeMain

------------------------------------------------------------------------------
(* The supervisor and its children *)

\* Which steps change which field of the control block; all others beat a heart
\* at most.
LEMMA FlagWriters ==
  ASSUME TypeOK, [Next]_vars
  PROVE  \/ ResetControl
         \/ /\ control'.shutdown = control.shutdown \/ RaiseShutdown
            /\ control'.generation = control.generation \/ WaitCompute
            /\ \/ control'.ingest_done = control.ingest_done
               \/ IngestEnd /\ UNCHANGED ring /\ OfIngest
            /\ control'.fast_done = control.fast_done \/ (FastFinish /\ OfCompute)
            /\ control'.window_done = control.window_done \/ (WindowFinish /\ OfCompute)
            /\ control'.snapshot_done = control.snapshot_done \/ (SnapshotFinish /\ OfCompute)
            /\ control'.compute_done = control.compute_done \/ (ComputeEnd /\ OfCompute)
            /\ control'.fault = control.fault \/ (WatchdogCheck /\ OfCompute)
<1>1. control \in ControlType
  BY Zenon DEF TypeOK, LayoutTypeOK, ControlType
<1>2. CASE RaiseShutdown
  BY <1>1, <1>2, Zenon DEF RaiseShutdown, ControlType
<1>3. CASE WaitCompute
  BY <1>1, <1>3, Zenon DEF WaitCompute, ControlType
<1>4. CASE IngestEnd /\ UNCHANGED ring /\ OfIngest
  <2>1. control' = [control EXCEPT !.ingest_done = 1]
    BY <1>4, Zenon DEF IngestEnd
  <2> QED BY <1>1, <1>4, <2>1, Zenon DEF ControlType
<1>5. CASE FastFinish /\ OfCompute
  <2>1. control' = [control EXCEPT !.fast_done = 1]
    BY <1>5, Zenon DEF FastFinish
  <2> QED BY <1>1, <1>5, <2>1, Zenon DEF ControlType
<1>6. CASE WindowFinish /\ OfCompute
  <2>1. control' = [Beat(control, "window") EXCEPT !.window_done = 1]
    BY <1>6, Zenon DEF WindowFinish
  <2> QED BY <1>1, <1>6, <2>1, Zenon DEF ControlType, Beat
<1>7. CASE SnapshotFinish /\ OfCompute
  <2>1. control' = [Beat(control, "snapshot") EXCEPT !.snapshot_done = 1]
    BY <1>7, Zenon DEF SnapshotFinish
  <2> QED BY <1>1, <1>7, <2>1, Zenon DEF ControlType, Beat
<1>8. CASE ComputeEnd /\ OfCompute
  <2>1. control' = [control EXCEPT !.compute_done = 1]
    BY <1>8, Zenon DEF ComputeEnd
  <2> QED BY <1>1, <1>8, <2>1, Zenon DEF ControlType
<1>9. CASE WatchdogCheck /\ OfCompute
  <2>1. control' = [control EXCEPT !.fault = IF Late THEN 1 ELSE @]
    BY <1>9, Zenon DEF WatchdogCheck
  <2> QED BY <1>1, <1>9, <2>1, Zenon DEF ControlType
<1>10. CASE FastLoop \/ WindowLoop \/ SnapshotWait \/ StageStalls
  <2>1. \/ control' = control
        \/ \E s \in Stages : control' = Beat(control, s)
        \/ \E s \in Stages : control' = [control EXCEPT !.heartbeat[s] = "old"]
    BY <1>10, Zenon DEF FastLoop, WindowLoop, SnapshotWait, StageStalls, Silence, Stages
  <2> QED BY <1>1, <2>1 DEF ControlType, Beat
<1>11. CASE UNCHANGED control
  BY <1>11, Zenon
<1> QED
  BY <1>2, <1>3, <1>4, <1>5, <1>6, <1>7, <1>8, <1>9, <1>10, <1>11, ControlWriters, Zenon

\* A done flag that is up stays up until the reset.
LEMMA FlagsRise ==
  ASSUME TypeOK, [Next]_vars, ~ ResetControl
  PROVE  \A f \in {"ingest_done", "fast_done", "window_done", "snapshot_done", "compute_done"} :
           control[f] = 1 => control'[f] = 1
<1>1. control \in ControlType
  BY Zenon DEF TypeOK, LayoutTypeOK, ControlType
<1>2. /\ control'.fast_done = control.fast_done \/ FastFinish
      /\ control'.window_done = control.window_done \/ WindowFinish
      /\ control'.snapshot_done = control.snapshot_done \/ SnapshotFinish
      /\ control'.ingest_done = control.ingest_done \/ IngestEnd
      /\ control'.compute_done = control.compute_done \/ ComputeEnd
  BY FlagWriters, ZenonT(30)
<1>3. FastFinish => control'.fast_done = 1
  BY <1>1, Zenon DEF FastFinish, ControlType
<1>4. WindowFinish => control'.window_done = 1
  BY <1>1, Zenon DEF WindowFinish, Beat, ControlType
<1>5. SnapshotFinish => control'.snapshot_done = 1
  BY <1>1, Zenon DEF SnapshotFinish, Beat, ControlType
<1>6. IngestEnd => control'.ingest_done = 1
  BY <1>1, Zenon DEF IngestEnd, ControlType
<1>7. ComputeEnd => control'.compute_done = 1
  BY <1>1, Zenon DEF ComputeEnd, ControlType
<1> QED BY <1>2, <1>3, <1>4, <1>5, <1>6, <1>7, SMTT(30)

\* The supervisor's steps, as far as supc, the children and the flag go.
LEMMA SupervisedKept ==
  ASSUME TypeOK, Supervised, [Next]_vars
  PROVE  Supervised'
<1>1. proc \in [Roles -> ProcStates] /\ {"ingest", "publish", "compute"} \subseteq Roles
  BY Zenon DEF TypeOK, LayoutTypeOK, Roles
<1>2. control'.shutdown = control.shutdown \/ RaiseShutdown \/ ResetControl
  BY FlagWriters, ZenonT(30)
<1>3. CASE SpawnObserve
  BY <1>3, SMTT(30) DEF SpawnObserve, shared, Supervised, Running, Stopped, Stopping
<1>4. CASE SpawnIngest
  BY <1>1, <1>2, <1>4, SMTT(30) DEF SpawnIngest, Supervised, Running, Stopped, Stillborn, Stopping
<1>5. CASE SpawnPublish
  BY <1>1, <1>2, <1>5, SMTT(30) DEF SpawnPublish, Supervised, Running, Stopped, Stillborn, Stopping
<1>6. CASE SpawnCompute
  BY <1>1, <1>2, <1>6, Zenon DEF SpawnCompute, Supervised, Running, Stopped, Stillborn, Stopping
<1>7. CASE WaitCompute
  <2>1. control'.shutdown = control.shutdown
    BY <1>2, <1>7, Zenon DEF WaitCompute, RaiseShutdown, ResetControl
  <2> QED BY <1>7, <2>1, Zenon DEF WaitCompute, Reaped, Supervised, Running, Stopped, Stopping
<1>8. CASE RaiseShutdown
  BY <1>8, SMTT(30) DEF RaiseShutdown, Supervised, Running, Stopping
<1>9. CASE WaitIngest \/ WaitPublish
  BY <1>9, SMTT(30) DEF WaitIngest, WaitPublish, Reaped, shared, Supervised, Running, Stopped, Stopping
<1>10. CASE InstallHandlers \/ Hold \/ Release \/ WaitObserve
  BY <1>10, Zenon
  DEF InstallHandlers, Hold, Release, WaitObserve, shared, Supervised, Running, Stopped, Stopping
<1>11. CASE ResetControl
  <2>1. control'.shutdown = 0
    BY <1>11, Zenon DEF ResetControl, FreshControl
  <2> QED BY <1>11, <2>1 DEF ResetControl, Supervised, Running, Stopped
<1>12. CASE Signal
  <2>1. \A r \in Roles : proc'[r] # "run"
    BY <1>12, Deaths, Zenon
  <2>2. control' = control /\ supc' \in {supc, "killed"}
    BY <1>12, Zenon DEF Signal
  <2> QED BY <1>1, <2>1, <2>2, Zenon DEF Supervised, Running, Stopped
<1>13. CASE UNCHANGED supervisor /\ ~ Signal
  <2>1. supc' = supc /\ ~ SpawnIngest /\ ~ SpawnPublish /\ ~ SpawnCompute
        /\ ~ RaiseShutdown /\ ~ ResetControl
    BY <1>13, Zenon
    DEF supervisor, SpawnIngest, SpawnPublish, SpawnCompute, RaiseShutdown, ResetControl
  <2>2. proc'["ingest"] = "run" => proc["ingest"] = "run"
    <3>1. CASE Kill
      BY <1>1, <3>1, Deaths, Zenon
    <3>2. CASE IngestExit
      BY <1>1, <3>2, Zenon DEF IngestExit, Exit
    <3> QED BY <1>13, <2>1, <3>1, <3>2, RoleWriters, Zenon
  <2>3. proc'["publish"] = "run" => proc["publish"] = "run"
    <3>1. CASE Kill
      BY <1>1, <3>1, Deaths, Zenon
    <3>2. CASE PublishWrite \/ PublishWriteFails
      BY <1>1, <3>2, Zenon DEF PublishWrite, PublishWriteFails, Exit
    <3> QED BY <1>13, <2>1, <3>1, <3>2, RoleWriters, Zenon
  <2>4. proc'["compute"] = "run" => proc["compute"] = "run"
    <3>1. CASE Kill
      BY <1>1, <3>1, Deaths, Zenon
    <3>2. CASE ComputeExit
      BY <1>1, <3>2, Zenon DEF ComputeExit, Exit
    <3> QED BY <1>13, <2>1, <3>1, <3>2, RoleWriters, Zenon
  <2> QED BY <1>2, <2>1, <2>2, <2>3, <2>4, Zenon DEF Supervised, Running, Stopped
<1> QED
  BY <1>3, <1>4, <1>5, <1>6, <1>7, <1>8, <1>9, <1>10, <1>11, <1>12, <1>13,
     SupervisorWriters, ZenonT(30)
  DEF SupervisorStep

------------------------------------------------------------------------------
(* The invariant holds *)

\* The new mapping and the processes before their start have their types.
LEMMA InitTypeOK ==
  ASSUME Init
  PROVE  TypeOK
<1>1. /\ 0 \in 0 .. Len(Replay) /\ 0 \in 0 .. kMaxSources /\ RingSlots \in Nat /\ QueueSlots \in Nat
  BY LayoutAssumption, IngestAssumption, SeqElement
<1>2. EmptyRow \in Row
  BY Zenon DEF EmptyRow, Row
<1>3. EmptyRows \in [Sources -> Row] /\ NoPublishes \in [Sources -> Nat]
  BY <1>2, Zenon DEF EmptyRows, NoPublishes
<1>4. EmptySnapshot \in Snapshot
  BY <1>3, SMTT(30) DEF EmptySnapshot, Snapshot
<1>5. LayoutTypeOK
  <2>1. control \in ControlType
    BY ControlValues, SMTT(30) DEF Init, LayoutInit
  <2>2. ring \in Seq(Records) /\ Len(ring) <= RingSlots
    BY <1>1, SeqEmpty, SMTT(30) DEF Init, LayoutInit
  <2>3. proc \in [Roles -> ProcStates]
    BY SMTT(30) DEF Init, LayoutInit, ProcStates
  <2>4. snapshots \in [last : Snapshot, fresh : BOOLEAN]
    BY <1>4, SMTT(30) DEF Init, LayoutInit
  <2> QED BY <1>3, <2>1, <2>2, <2>3, <2>4, ZenonT(30) DEF LayoutTypeOK, ControlType, Init, LayoutInit
<1>6. IngestTypeOK
  <2>1. queue \in Seq(Records) /\ Len(queue) <= QueueSlots
    BY <1>1, SeqEmpty DEF Init, IngestInit
  <2>2. readable = 0 /\ next = 0 /\ 0 <= 0
    BY DEF Init, IngestInit
  <2> QED BY <1>1, <2>1, <2>2, Zenon DEF Init, IngestInit, IngestTypeOK
<1>7. ComputeTypeOK
  BY <1>1, <1>2, <1>3, <1>4, Zenon DEF Init, ComputeInit, ComputeTypeOK, AllAt
<1>8. PublishTypeOK
  BY <1>4, Zenon DEF Init, PublishInit, PublishTypeOK
<1>9. /\ mode \in {"plain", "observe", "hold"} /\ crash \in {"none", "once", "always"}
      /\ limit \in [failures : Nat, reruns : Nat]
      /\ failures \in 0 .. limit.failures /\ reruns \in 0 .. limit.reruns
  BY SupervisorAssumption DEF Init
<1>10. exits \in [Roles -> {"exit0", "exit1", "exit2", "exit3"}] /\ attempt \in 1 .. kMaxComputeAttempts
  BY SMTT(30) DEF Init, NoExits, kMaxComputeAttempts
<1>11. /\ supc = "observe" /\ status \in Flag /\ observe \in ProcStates /\ release \in Flag
       /\ request \in Flag /\ holdstop \in BOOLEAN /\ handlers \in BOOLEAN
  BY ZenonT(30) DEF Init, Flag, ProcStates
<1> QED BY <1>5, <1>6, <1>7, <1>8, <1>9, <1>10, <1>11, SMTT(30) DEF TypeOK

\* Nothing runs at the start.
LEMMA InitProcess ==
  ASSUME Init
  PROVE  ProcessInv
<1>1. /\ \A r \in Roles : proc[r] = "none"
      /\ \A t \in Threads : cpc[t] = "off"
      /\ cpc = AllAt("off")
      /\ {"ingest", "publish", "compute"} \subseteq Roles
      /\ {"fast", "window", "snapshot", "watchdog"} \subseteq Threads
  BY Zenon DEF Init, LayoutInit, ComputeInit, AllAt, Roles, Threads, Stages
<1>2. control.shutdown = 0
  BY Zenon DEF Init, LayoutInit, FreshControl
<1>3. Threaded
  BY <1>1, SMTT(30) DEF Init, IngestInit, PublishInit, ComputeInit, Threaded, IngestThreads,
              PublishThread, ComputeThreads, Running
<1>4. Supervised
  BY <1>1, <1>2, SMTT(30) DEF Supervised, Running, Stopped
<1> QED BY <1>3, <1>4, InitTypeOK, Zenon DEF ProcessInv

\* Every step keeps it.
LEMMA ProcessStep ==
  ASSUME ProcessInv, [Next]_vars
  PROVE  ProcessInv'
<1>1. TypeOK /\ Threaded /\ Supervised
  BY Zenon DEF ProcessInv
<1>2. TypeOK'
  BY <1>1, TypesKept, Zenon
<1>3. IngestThreads' /\ PublishThread' /\ ComputeThreads'
  BY <1>1, IngestThreadsKept, PublishThreadKept, ComputeThreadsKept, Zenon
<1>4. Supervised'
  BY <1>1, SupervisedKept, Zenon
<1> QED BY <1>2, <1>3, <1>4, Zenon DEF ProcessInv, Threaded

\* A process has its threads exactly while it runs, the supervisor is where it
\* can have such a child, and the flag is up only behind RaiseShutdown.
THEOREM ProcessInvariant == SafetySpec => []ProcessInv
<1>1. Init => ProcessInv
  BY InitProcess, Zenon
<1>2. ProcessInv /\ [Next]_vars => ProcessInv'
  BY ProcessStep, Zenon
<1> QED BY <1>1, <1>2, PTL DEF SafetySpec

\* Every variable of the system keeps its type.
THEOREM PipelineTypes == SafetySpec => []TypeOK
<1>1. ProcessInv => TypeOK
  BY Zenon DEF ProcessInv
<1> QED BY <1>1, ProcessInvariant, PTL

------------------------------------------------------------------------------
(* The restart limit *)

\* Without a rerun the loop starts from generation 1; the supervisor leaves it
\* for the flag with a success or with the last attempt.
RestartInv ==
  /\ request = 1 \/ supc = "reset" => reruns # 0
  /\ reruns = 0 => /\ control.generation = attempt
                   /\ supc \in {"observe", "ingest", "publish"} => attempt = 1
  /\ Stopped \/ supc = "shutdown" =>
       exits["compute"] = "exit0" \/ attempt = kMaxComputeAttempts

\* Every step keeps it.
LEMMA RestartStep ==
  ASSUME ProcessInv, RestartInv, [Next]_vars
  PROVE  RestartInv'
<1>1. /\ control \in ControlType /\ exits \in [Roles -> {"exit0", "exit1", "exit2", "exit3"}]
      /\ "compute" \in Roles /\ attempt \in Nat
  BY SMTT(30) DEF ProcessInv, TypeOK, LayoutTypeOK, ControlType, Roles, kMaxComputeAttempts
<1>2. Stopped => supc \in Stopping \cup {"killed"}
  BY Zenon DEF ProcessInv, Supervised
<1>3. CASE SpawnPublish
  <2>1. ~ Stopped /\ supc = "publish" /\ supc' = "compute" /\ attempt' = 1
        /\ UNCHANGED <<control, exits, request, reruns>>
    BY <1>2, <1>3, Zenon DEF SpawnPublish, Stopping, observer
  <2> QED BY <2>1, SMTT(30) DEF RestartInv, Stopped
<1>4. CASE WaitCompute
  <2>1. ~ Stopped /\ supc = "wait_compute" /\ UNCHANGED <<request, reruns>>
    BY <1>2, <1>4, Zenon DEF WaitCompute, Stopping, observer, used
  <2>2. CASE exits'["compute"] = "exit0" \/ LastAttempt
    BY <1>4, <2>1, <2>2, SMTT(30) DEF WaitCompute, LastAttempt, RestartInv, Stopped
  <2>3. CASE /\ supc' = "compute" /\ attempt' = attempt + 1
             /\ control' = [control EXCEPT !.generation = NextGeneration]
    <3>1. control'.generation = control.generation + 1 /\ control'.shutdown = control.shutdown
      BY <1>1, <2>3 DEF ControlType, NextGeneration
    <3> QED BY <2>1, <2>3, <3>1, SMTT(30) DEF RestartInv, Stopped
  <2> QED BY <1>4, <2>2, <2>3, Zenon DEF WaitCompute
<1>5. CASE ResetControl
  <2>1. reruns # 0 /\ UNCHANGED <<request, reruns>>
    BY <1>5, Zenon DEF ResetControl, RestartInv, observer, used
  <2>2. control'.shutdown = 0 /\ supc' = "ingest"
    BY <1>5, Zenon DEF ResetControl, FreshControl
  <2> QED BY <2>1, <2>2, SMTT(30) DEF RestartInv, Stopped
<1>6. CASE RequestRerun
  <2>1. reruns' # 0 /\ UNCHANGED <<control, supc, attempt, exits>>
    BY <1>6 DEF RequestRerun, shared, supervisor, ProcessInv, TypeOK
  <2> QED BY <2>1, Zenon DEF RestartInv, Stopped
<1>7. CASE \/ SpawnObserve \/ SpawnIngest \/ SpawnCompute \/ RaiseShutdown \/ WaitIngest
           \/ WaitPublish \/ InstallHandlers \/ Hold \/ Release \/ WaitObserve
  <2>1. UNCHANGED <<attempt, reruns>> /\ exits'["compute"] = exits["compute"]
        /\ control'.generation = control.generation
    BY <1>1, <1>7, Zenon
    DEF SpawnObserve, SpawnIngest, SpawnCompute, RaiseShutdown, WaitIngest, WaitPublish,
        InstallHandlers, Hold, Release, WaitObserve, shared, used, ControlType
  <2>2. /\ supc' \in {"observe", "ingest", "publish"} => supc \in {"observe", "ingest", "publish"}
        /\ supc' # "shutdown"
        /\ supc' = "reset" => request = 1
    BY <1>7, Zenon
    DEF SpawnObserve, SpawnIngest, SpawnCompute, RaiseShutdown, WaitIngest, WaitPublish,
        InstallHandlers, Hold, Release, WaitObserve
  <2>3. request' = 1 => request = 1
    BY <1>7, SMTT(30)
    DEF SpawnObserve, SpawnIngest, SpawnCompute, RaiseShutdown, WaitIngest, WaitPublish,
        InstallHandlers, Hold, Release, WaitObserve, observer
  <2>4. Stopped' => Stopped \/ supc = "shutdown"
    BY <1>7, Zenon
    DEF SpawnObserve, SpawnIngest, SpawnCompute, RaiseShutdown, WaitIngest, WaitPublish,
        InstallHandlers, Hold, Release, WaitObserve, shared, Stopped
  <2> QED BY <2>1, <2>2, <2>3, <2>4, Zenon DEF RestartInv
<1>8. CASE Signal
  <2>1. supc' \in {supc, "killed"} /\ UNCHANGED <<control, attempt, exits, request, reruns>>
    BY <1>8, Zenon DEF Signal
  <2> QED BY <2>1, SMTT(30) DEF RestartInv, Stopped
<1>9. CASE \/ OfIngest \/ OfCompute \/ OfPublish
           \/ ObserverExit \/ ObserverFails \/ Kill \/ PublishWriteFails \/ StageStalls
           \/ UNCHANGED vars
  <2>1. UNCHANGED <<supc, attempt, exits, request, reruns>>
    BY <1>9, Zenon
    DEF OfIngest, OfCompute, OfPublish, Environment, ObserverExit, ObserverFails, Kill,
        PublishWriteFails, StageStalls, vars, supervisor, observer, used
  <2>2. control'.generation = control.generation /\ control'.shutdown = control.shutdown
    BY <2>1, FlagWriters, Zenon DEF ResetControl, RaiseShutdown, WaitCompute, ProcessInv
  <2> QED BY <2>1, <2>2, Zenon DEF RestartInv, Stopped
<1> QED
  BY <1>3, <1>4, <1>5, <1>6, <1>7, <1>8, <1>9, Steps, ZenonT(30) DEF SupervisorStep

\* The generation counts the compute processes, there are never more than
\* three in a pipeline, and the flag is up only over a success or a third
\* failure.
THEOREM RestartLimit == SafetySpec => []RestartsCounted
<1>1. Init => RestartInv
  BY SMTT(30) DEF Init, LayoutInit, FreshControl, RestartInv, Stopped
<1>2. ProcessInv /\ RestartInv /\ [Next]_vars => RestartInv'
  BY RestartStep, Zenon
<1>3. ProcessInv /\ RestartInv => RestartsCounted
  BY DEF ProcessInv, TypeOK, RestartInv, RestartsCounted, kMaxComputeAttempts
<1> QED BY <1>1, <1>2, <1>3, ProcessInvariant, PTL DEF SafetySpec
==============================================================================
