------------------------------- MODULE Compute -------------------------------
(* The compute process (compute.cpp): the fast, window and snapshot stages   *)
(* and the watchdog, one step per access to the shared mapping.              *)
EXTENDS Layout

VARIABLES cpc,             \* where each thread is
          drained, record, \* locals of the fast thread
          publishes,       \* the fast thread's counters
          wid, wrow,       \* the window thread's loop, and the row it loaded
          sid, snap        \* the snapshot thread's loop, and the snapshot it builds

compute == <<cpc, drained, record, publishes, wid, wrow, sid, snap>>

Threads == Stages \cup {"watchdog"}
AllAt(pc) == [t \in Threads |-> pc]

NoPublishes == [id \in Sources |-> 0]

ComputeInit ==
  /\ cpc = AllAt("off") /\ drained = FALSE /\ record = 0 /\ publishes = NoPublishes
  /\ wid = 0 /\ wrow = EmptyRow /\ sid = 0 /\ snap = EmptySnapshot

\* The process starts with its threads at "loop", or is gone ("off").
ComputeTo(pc) ==
  /\ cpc' = AllAt(pc) /\ drained' = FALSE /\ record' = 0 /\ publishes' = NoPublishes
  /\ wid' = 0 /\ wrow' = EmptyRow /\ sid' = 0 /\ snap' = EmptySnapshot

Goto(t, pc) == cpc' = [cpc EXCEPT ![t] = pc]

------------------------------------------------------------------------------
(* fast *)

FastLoop ==
  /\ cpc["fast"] = "loop"
  /\ IF Stopped
     THEN Goto("fast", "finish") /\ UNCHANGED <<control, drained>>
     ELSE Goto("fast", "drain") /\ control' = Beat(control, "fast") /\ drained' = FALSE
  /\ UNCHANGED <<ring, latest, window, snapshots, proc, record, publishes, wid, wrow, sid, snap>>

\* try_pop, and integrate, which may refuse the record
FastPop ==
  /\ cpc["fast"] = "drain" /\ ring # <<>>
  /\ record' = Head(ring) /\ ring' = Tail(ring) /\ drained' = TRUE
  /\ Goto("fast", IF Replay[record'].fits THEN "publish" ELSE "drain")
  /\ UNCHANGED <<control, latest, window, snapshots, proc, publishes, wid, wrow, sid, snap>>

FastEmpty ==
  /\ cpc["fast"] = "drain" /\ ring = <<>>
  /\ Goto("fast", "check")
  /\ UNCHANGED <<control, ring, latest, window, snapshots, proc, drained, record,
                 publishes, wid, wrow, sid, snap>>

\* Mutant: the row counts the records of all sources.
CountAll(id) == publishes[0] + publishes[kMaxSources - 1] + 1

Count(id) == publishes[id] + 1

\* latest[id].publish(state)
FastPublish ==
  /\ cpc["fast"] = "publish"
  /\ LET id == Replay[record].id IN
     /\ publishes' = [publishes EXCEPT ![id] = Count(id)]
     /\ latest' = [latest EXCEPT ![id] = [publishes |-> publishes'[id],
                                          sequence |-> record,
                                          by |-> control.generation]]
  /\ Goto("fast", "drain")
  /\ UNCHANGED <<control, ring, window, snapshots, proc, drained, record, wid, wrow, sid, snap>>

\* An empty pass after ingest_done ends the stage; otherwise finish_cycle
FastCheck ==
  /\ cpc["fast"] = "check"
  /\ Goto("fast", IF ~ drained /\ control.ingest_done = 1 THEN "finish" ELSE "loop")
  /\ UNCHANGED <<control, ring, latest, window, snapshots, proc, drained, record,
                 publishes, wid, wrow, sid, snap>>

FastFinish ==
  /\ cpc["fast"] = "finish"
  /\ control' = [control EXCEPT !.fast_done = 1]
  /\ Goto("fast", "end")
  /\ UNCHANGED <<ring, latest, window, snapshots, proc, drained, record, publishes,
                 wid, wrow, sid, snap>>

------------------------------------------------------------------------------
(* window *)

\* Mutant: fast_done ends the stage without a last pass over the rows.
LastPassSkipped == kMaxSources

\* The last publish_windows starts over from the first source.
LastPassFrom == 0

WindowLoop ==
  /\ cpc["window"] = "loop"
  /\ IF control.fast_done = 0 /\ ~ Stopped
     THEN Goto("window", "rows") /\ control' = Beat(control, "window") /\ wid' = 0
     ELSE Goto("window", "last") /\ wid' = LastPassFrom /\ UNCHANGED control
  /\ UNCHANGED <<ring, latest, window, snapshots, proc, drained, record, publishes,
                 wrow, sid, snap>>

\* The fast thread is inside latest[id].publish: every try of load() may fail.
FastWriting(id) == cpc["fast"] = "publish" /\ Replay[record].id = id

\* After the last source a cycle ends (finish_cycle); the final pass goes on to
\* WindowFinish.
NextSource ==
  IF cpc["window"] = "rows" /\ wid + 1 = kMaxSources
  THEN Goto("window", "loop") /\ wid' = 0
  ELSE wid' = wid + 1 /\ UNCHANGED cpc

\* One source of publish_windows is loaded, or skipped when load() fails or
\* nothing is valid ...
WindowLoad ==
  /\ cpc["window"] \in {"rows", "last"} /\ wid < kMaxSources /\ wrow = EmptyRow
  /\ \/ latest[wid].publishes > 0 /\ wrow' = latest[wid] /\ UNCHANGED <<wid, cpc>>
     \/ (latest[wid].publishes = 0 \/ FastWriting(wid)) /\ NextSource /\ UNCHANGED wrow
  /\ UNCHANGED <<control, ring, latest, window, snapshots, proc, drained, record,
                 publishes, sid, snap>>

\* ... and published.
WindowPublish ==
  /\ cpc["window"] \in {"rows", "last"} /\ wrow # EmptyRow
  /\ window' = [window EXCEPT ![wid] = wrow]
  /\ wrow' = EmptyRow /\ NextSource
  /\ UNCHANGED <<control, ring, latest, snapshots, proc, drained, record, publishes,
                 sid, snap>>

WindowFinish ==
  /\ cpc["window"] = "last" /\ wid = kMaxSources
  /\ control' = [Beat(control, "window") EXCEPT !.window_done = 1]
  /\ Goto("window", "end")
  /\ UNCHANGED <<ring, latest, window, snapshots, proc, drained, record, publishes,
                 wid, wrow, sid, snap>>

------------------------------------------------------------------------------
(* snapshot *)

SnapshotWait ==
  /\ cpc["snapshot"] = "loop" /\ control.window_done = 0 /\ ~ Stopped
  /\ control' = Beat(control, "snapshot")
  /\ UNCHANGED <<ring, latest, window, snapshots, proc, compute>>

SnapshotStart ==
  /\ cpc["snapshot"] = "loop" /\ (control.window_done = 1 \/ Stopped)
  /\ snap' = [EmptySnapshot EXCEPT !.generation = control.generation]
  /\ sid' = 0
  /\ Goto("snapshot", "rows")
  /\ UNCHANGED <<control, ring, latest, window, snapshots, proc, drained, record,
                 publishes, wid, wrow>>

\* The window thread is inside window[id].publish: every try may fail.
WindowWriting(id) == wrow # EmptyRow /\ wid = id

\* window[id].load
SnapshotRow ==
  /\ cpc["snapshot"] = "rows" /\ sid < kMaxSources
  /\ \/ snap' = [snap EXCEPT !.rows[sid] = window[sid]]
     \/ WindowWriting(sid) /\ UNCHANGED snap
  /\ sid' = sid + 1
  /\ UNCHANGED <<control, ring, latest, window, snapshots, proc, cpc, drained, record,
                 publishes, wid, wrow>>

\* write_slot() = snap; snapshots.publish()
SnapshotPublish ==
  /\ cpc["snapshot"] = "rows" /\ sid = kMaxSources
  /\ snapshots' = [last |-> snap, fresh |-> TRUE]
  /\ Goto("snapshot", "finish")
  /\ UNCHANGED <<control, ring, latest, window, proc, drained, record, publishes,
                 wid, wrow, sid, snap>>

SnapshotFinish ==
  /\ cpc["snapshot"] = "finish"
  /\ control' = [Beat(control, "snapshot") EXCEPT !.snapshot_done = 1]
  /\ Goto("snapshot", "end")
  /\ UNCHANGED <<ring, latest, window, snapshots, proc, drained, record, publishes,
                 wid, wrow, sid, snap>>

------------------------------------------------------------------------------
(* watchdog and main *)

Old(stage) == control.heartbeat[stage] = "old"

\* heartbeat_stalled of the three stages: a beat of zero is startup, a stage
\* that is done cannot stall
Late ==
  \/ Old("fast") /\ control.fast_done = 0
  \/ Old("window") /\ control.window_done = 0
  \/ Old("snapshot")

WatchdogCheck ==
  /\ cpc["watchdog"] = "loop" /\ control.snapshot_done = 0 /\ ~ Stopped
  /\ control' = [control EXCEPT !.fault = IF Late THEN 1 ELSE @]
  /\ UNCHANGED <<ring, latest, window, snapshots, proc, compute>>

WatchdogEnd ==
  /\ cpc["watchdog"] = "loop" /\ (control.snapshot_done = 1 \/ Stopped)
  /\ Goto("watchdog", "end")
  /\ UNCHANGED <<control, ring, latest, window, snapshots, proc, drained, record,
                 publishes, wid, wrow, sid, snap>>

\* The joins, compute_done
ComputeEnd ==
  /\ cpc = AllAt("end") /\ cpc' = AllAt("exit")
  /\ control' = [control EXCEPT !.compute_done = 1]
  /\ UNCHANGED <<ring, latest, window, snapshots, proc, drained, record, publishes,
                 wid, wrow, sid, snap>>

\* The fault flag and the exit code
ComputeExit ==
  /\ cpc = AllAt("exit")
  /\ Exit("compute", IF control.fault = 1 THEN "exit3" ELSE "exit0")
  /\ ComputeTo("off")
  /\ UNCHANGED <<control, ring, latest, window, snapshots>>

FastStep == FastLoop \/ FastPop \/ FastEmpty \/ FastPublish \/ FastCheck \/ FastFinish
WindowStep == WindowLoop \/ WindowLoad \/ WindowPublish \/ WindowFinish
SnapshotStep == SnapshotWait \/ SnapshotStart \/ SnapshotRow \/ SnapshotPublish
                \/ SnapshotFinish
WatchdogStep == WatchdogCheck \/ WatchdogEnd
ComputeMain == ComputeEnd \/ ComputeExit

\* Time passes: a heartbeat of the running process gets older than its limit.
Silence ==
  /\ Running("compute")
  /\ \E s \in Stages : /\ control.heartbeat[s] = "recent"
                       /\ control' = [control EXCEPT !.heartbeat[s] = "old"]
  /\ UNCHANGED <<ring, latest, window, snapshots, proc, compute>>

ComputeTypeOK ==
  /\ cpc \in [Threads -> {"off", "loop", "drain", "publish", "check", "rows", "last",
                          "finish", "end", "exit"}]
  /\ drained \in BOOLEAN /\ record \in 0 .. Len(Replay)
  /\ publishes \in [Sources -> Nat]
  /\ wid \in 0 .. kMaxSources /\ wrow \in Row /\ sid \in 0 .. kMaxSources
  /\ snap \in Snapshot
==============================================================================
