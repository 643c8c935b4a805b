------------------------------ MODULE Pipeline -------------------------------
(* What the system of Supervisor promises: that the output is what the       *)
(* replay file says, that a restart shows, and what exit 0 means.            *)
EXTENDS Supervisor, FiniteSets

TypeOK ==
  /\ LayoutTypeOK /\ IngestTypeOK /\ ComputeTypeOK /\ PublishTypeOK
  /\ supc \in {"observe", "ingest", "publish", "compute", "wait_compute", "shutdown",
               "wait_ingest", "wait_publish", "install", "hold", "reset", "release",
               "wait_observe", "exit", "killed"}
  /\ attempt \in 1 .. kMaxComputeAttempts
  /\ exits \in [Roles -> {"exit0", "exit1", "exit2", "exit3"}] /\ status \in Flag
  /\ mode \in {"plain", "observe", "hold"} /\ crash \in {"none", "once", "always"}
  /\ limit \in [failures : Nat, reruns : Nat]
  /\ observe \in ProcStates /\ release \in Flag /\ request \in Flag
  /\ holdstop \in BOOLEAN /\ handlers \in BOOLEAN
  /\ failures \in 0 .. limit.failures /\ reruns \in 0 .. limit.reruns

\* The first pipeline on a new mapping, and nothing has failed so far.
Undisturbed == failures = 0 /\ control.generation = 1

------------------------------------------------------------------------------
(* The records *)

\* Frames on their way: in the queue, in the frames thread, in the ring, or
\* popped and not yet published.
Elements(s) == {s[i] : i \in DOMAIN s}
InFlight ==
  Elements(queue) \cup Elements(ring)
    \cup (IF fpc \in {"notify", "push", "full"} THEN {held} ELSE {})
    \cup (IF cpc["fast"] = "publish" THEN {record} ELSE {})
    \cup (IF spc = "push" THEN {next} ELSE {})

\* The good frames of a source that have left the pipe.
Arrived(id) ==
  {n \in 1 .. next : Replay[n].id = id /\ Replay[n].decodes /\ Replay[n].fits} \ InFlight

\* Every good record of a source is integrated and published exactly once and
\* in file order, whatever the interleaving of the two ingest threads, the ring
\* and the fast stage: the row counts the records that have left the pipe and
\* shows the last of them.
ExactlyOnce ==
  Undisturbed =>
    \A id \in Sources :
      /\ latest[id].publishes = Cardinality(Arrived(id))
      /\ \A n \in Arrived(id) : n <= latest[id].sequence
      /\ latest[id].publishes > 0 => latest[id].sequence \in Arrived(id)

\* The done flags are raised in an order that makes the one snapshot of a run
\* complete: when snapshot_done is seen, the snapshot holds the final row of
\* every source, although each stage copied them while the one before it was
\* still writing.
SnapshotComplete ==
  Undisturbed /\ control.snapshot_done = 1 =>
    snapshots.last = [generation |-> 1, rows |-> latest]

\* A publish process that ends by itself, before the shutdown flag, has written
\* the file, and a written file is the complete snapshot.
OutputComplete ==
  Undisturbed =>
    /\ proc["publish"] = "exit0" /\ ~ Stopped => file # EmptySnapshot
    /\ file # EmptySnapshot => file = [generation |-> 1, rows |-> latest]

\* A run in which nothing fails, and nobody holds the mapping, ends.
Terminates == <>(supc = "exit")

------------------------------------------------------------------------------
(* Restarts, reruns and exit codes *)

\* "so a new process is not read as a continuation of the old ring"
\* (docs/DESIGN.md): a row either continues its count within a generation or
\* moves to a higher generation, across kills, restarts and reruns.
GenerationMarksRestart ==
  [][\A id \in Sources :
       latest'[id] # latest[id] =>
         IF latest'[id].by = latest[id].by
         THEN latest'[id].publishes = latest[id].publishes + 1
         ELSE latest'[id].by > latest[id].by /\ latest'[id].publishes = 1]_vars

\* The restart limit ("A third crash exits non-zero", docs/DESIGN.md): until a
\* rerun is asked for, the generation says how many compute processes there
\* have been, so the last failure, which starts none, does not bump it; there
\* are never more than three in a pipeline; and the shutdown flag is up, after
\* reruns too, only over a compute that succeeded or that has failed three
\* times, whichever way the processes failed.
RestartsCounted ==
  /\ reruns = 0 => control.generation = attempt
  /\ attempt <= kMaxComputeAttempts
  /\ Stopped => exits["compute"] = "exit0" \/ attempt = kMaxComputeAttempts

\* Exit 0 means that every frame the stream delivered was handed to the ring,
\* that every stage of the last compute process finished, that the fault flag
\* is down, and that every child of the last pipeline exited 0.  It does not
\* mean that the file was read: one that cannot be opened, and a read that
\* fails, end the source thread like the end of file (ingest.cpp:43-54).
ExitZeroMeansFinished ==
  supc = "exit" /\ status = 0 =>
    /\ next = readable /\ queue = <<>>
    /\ \A f \in {"ingest_done", "fast_done", "window_done", "snapshot_done", "compute_done"} :
         control[f] = 1
    /\ control.fault = 0
    /\ \A r \in Roles : proc[r] = "exit0"

------------------------------------------------------------------------------
(* What the documents say and the code does not do *)

\* "Records are not dropped under pressure.  Loss is visible only when the
\* supervisor restarts a process" and "Publish copies that snapshot out"
\* (docs/DESIGN.md): a run without failure and without restart that exits 0 has
\* taken every record from the ring and written its file, or at the very least
\* one of the two.
ExitZeroDelivers ==
  Undisturbed /\ supc = "exit" /\ status = 0 => ring = <<>> \/ file # EmptySnapshot

\* "A silent thread sets a fault flag.  The supervisor restarts that process"
\* (docs/DESIGN.md): the fault flag leads to the end of the compute process.
FaultEndsCompute == control.fault = 1 ~> ~ Running("compute")

\* The supervisor's role is to "translate a signal into a cooperative shutdown
\* flag" (docs/DESIGN.md): a signal its handler has caught raises the flag.
SignalRaisesFlag == holdstop ~> Stopped
==============================================================================
