------------------------------ MODULE Supervisor -----------------------------
(* The supervisor (supervisor.cpp) and the whole system: it spawns ingest,   *)
(* publish and up to three compute processes on one mapping, raises the      *)
(* shutdown flag, collects the exit codes, and in a paced run with an        *)
(* observer holds the mapping and starts over on request.                    *)
EXTENDS Ingest, Compute, Publish

\* How a run is started, and its bounds:
\*   mode      "plain", with an observer unpaced ("observe") or paced ("hold")
\*   crash     RATEHUB_CRASH: "none", "once" or "always"
\*   failures  bound on failures, kills, signals and silences
\*   reruns    bound on POST /reset
CONSTANT Scenarios

kMaxComputeAttempts == 3

ASSUME SupervisorAssumption ==
  \A s \in Scenarios :
    s \in [mode : {"plain", "observe", "hold"}, crash : {"none", "once", "always"},
          failures : Nat, reruns : Nat]

VARIABLES supc, attempt,    \* the supervisor and its loop over compute
          exits, status,    \* *_exit of SupervisorState; last_status
          mode, crash,      \* how the run was started
          limit,            \* the bounds of its scenario
          observe,          \* the observer process
          release, request, \* observe_release, rerun_request
          holdstop,         \* g_hold_stop
          handlers,         \* hold_signal is installed
          failures, reruns  \* how much of the bounds is used

shared == <<control, ring, latest, window, snapshots, proc>>
observer == <<observe, release, request>>
setup == <<mode, crash, limit>>
supervisor == <<supc, attempt, exits, status, holdstop, handlers>>
used == <<failures, reruns>>
vars == <<shared, ingest, compute, publish, file, observer, setup, supervisor, used>>

NoExits == [r \in Roles |-> "exit0"]

Init ==
  /\ LayoutInit /\ IngestInit /\ ComputeInit /\ PublishInit
  /\ file = EmptySnapshot
  /\ \E s \in Scenarios :
       /\ mode = s.mode /\ crash = s.crash
       /\ limit = [failures |-> s.failures, reruns |-> s.reruns]
  /\ supc = "observe" /\ attempt = 1 /\ exits = NoExits /\ status = 1
  /\ observe = "none" /\ release = 0 /\ request = 0
  /\ holdstop = FALSE /\ handlers = FALSE
  /\ failures = 0 /\ reruns = 0

Fail == failures < limit.failures /\ failures' = failures + 1

------------------------------------------------------------------------------
(* run_supervisor before the loop, run_once_pipeline *)

\* A child that could not be spawned, or that could not attach the mapping.
Stillborn == {"none", "exit1"}

SpawnObserve ==
  /\ supc = "observe" /\ supc' = "ingest"
  /\ \/ mode = "plain" /\ UNCHANGED <<observe, failures>>
     \/ mode # "plain" /\ observe' = "run" /\ UNCHANGED failures
     \/ mode # "plain" /\ observe' \in Stillborn /\ Fail
  /\ UNCHANGED <<shared, ingest, compute, publish, file, setup, release, request,
                 attempt, exits, status, holdstop, handlers, reruns>>

SpawnIngest ==
  /\ supc = "ingest" /\ supc' = "publish"
  /\ \/ /\ proc' = [proc EXCEPT !["ingest"] = "run"]
        /\ IngestTo("read", "pop")
        /\ IF readable' = Len(Replay) THEN UNCHANGED failures ELSE Fail
     \/ /\ \E p \in Stillborn : proc' = [proc EXCEPT !["ingest"] = p]
        /\ Fail /\ UNCHANGED ingest
  /\ UNCHANGED <<control, ring, latest, window, snapshots, compute, publish, file,
                 observer, setup, attempt, exits, status, holdstop, handlers, reruns>>

SpawnPublish ==
  /\ supc = "publish" /\ supc' = "compute" /\ attempt' = 1
  /\ \/ /\ proc' = [proc EXCEPT !["publish"] = "run"]
        /\ PublishTo("loop") /\ UNCHANGED failures
     \/ /\ \E p \in Stillborn : proc' = [proc EXCEPT !["publish"] = p]
        /\ Fail /\ UNCHANGED publish
  /\ UNCHANGED <<control, ring, latest, window, snapshots, ingest, compute, file,
                 observer, setup, exits, status, holdstop, handlers, reruns>>

\* crash_requested: "once" leaves a marker, which makes it "none" from then on
CrashRequested == crash # "none" /\ crash' = IF crash = "once" THEN "none" ELSE crash

SpawnCompute ==
  /\ supc = "compute" /\ supc' = "wait_compute"
  /\ \/ /\ crash = "none" /\ proc' = [proc EXCEPT !["compute"] = "run"]
        /\ ComputeTo("loop") /\ UNCHANGED <<crash, failures>>
     \/ /\ CrashRequested /\ proc' = [proc EXCEPT !["compute"] = "exit2"]
        /\ UNCHANGED <<compute, failures>>
     \/ /\ \E p \in Stillborn : proc' = [proc EXCEPT !["compute"] = p]
        /\ Fail /\ UNCHANGED <<compute, crash>>
  /\ UNCHANGED <<control, ring, latest, window, snapshots, ingest, publish, file,
                 observer, mode, limit, attempt, exits, status, holdstop, handlers, reruns>>

\* Mutant: a killed child counts as exit 0.
WaitedKilled(p) == IF p \in {"none", "killed"} THEN "exit0" ELSE p

\* wait_child: a child that was never spawned or was killed counts as exit 1
Waited(p) == IF p \in {"none", "killed"} THEN "exit1" ELSE p

\* Mutant: a restart keeps the generation.
GenerationKept == control.generation

NextGeneration == control.generation + 1

\* Mutant: a fourth process is tried.
LastAttemptLate == attempt > kMaxComputeAttempts

LastAttempt == attempt = kMaxComputeAttempts

\* waitpid returns
Reaped(r) == ~ Running(r)

WaitCompute ==
  /\ supc = "wait_compute" /\ Reaped("compute")
  /\ exits' = [exits EXCEPT !["compute"] = Waited(proc["compute"])]
  /\ IF exits'["compute"] = "exit0" \/ LastAttempt
     THEN supc' = "shutdown" /\ UNCHANGED <<control, attempt>>
     ELSE /\ supc' = "compute" /\ attempt' = attempt + 1
          /\ control' = [control EXCEPT !.generation = NextGeneration]
  /\ UNCHANGED <<ring, latest, window, snapshots, proc, ingest, compute, publish, file,
                 observer, setup, status, holdstop, handlers, used>>

RaiseShutdown ==
  /\ supc = "shutdown" /\ supc' = "wait_ingest"
  /\ control' = [control EXCEPT !.shutdown = 1]
  /\ UNCHANGED <<ring, latest, window, snapshots, proc, ingest, compute, publish, file,
                 observer, setup, attempt, exits, status, holdstop, handlers, used>>

WaitIngest ==
  /\ supc = "wait_ingest" /\ Reaped("ingest") /\ supc' = "wait_publish"
  /\ exits' = [exits EXCEPT !["ingest"] = Waited(proc["ingest"])]
  /\ UNCHANGED <<shared, ingest, compute, publish, file, observer, setup, attempt,
                 status, holdstop, handlers, used>>

WaitPublish ==
  /\ supc = "wait_publish" /\ Reaped("publish")
  /\ exits' = [exits EXCEPT !["publish"] = Waited(proc["publish"])]
  /\ status' = IF \A r \in Roles : exits'[r] = "exit0" THEN 0 ELSE 1
  /\ supc' = IF observe # "none" /\ mode = "hold" THEN "install" ELSE "release"
  /\ UNCHANGED <<shared, ingest, compute, publish, file, observer, setup, attempt,
                 holdstop, handlers, used>>

------------------------------------------------------------------------------
(* run_supervisor after a pipeline *)

\* g_hold_stop = 0, then the handlers
InstallHandlers ==
  /\ supc = "install" /\ supc' = "hold"
  /\ holdstop' = FALSE /\ handlers' = TRUE
  /\ UNCHANGED <<shared, ingest, compute, publish, file, observer, setup, attempt,
                 exits, status, used>>

\* while (g_hold_stop == 0): take_rerun
Hold ==
  /\ supc = "hold"
  /\ \/ holdstop /\ supc' = "release" /\ UNCHANGED request
     \/ ~ holdstop /\ request = 1 /\ request' = 0 /\ supc' = "reset"
     \/ ~ holdstop /\ request = 0 /\ UNCHANGED <<supc, request>>
  /\ UNCHANGED <<shared, ingest, compute, publish, file, observe, release, setup,
                 attempt, exits, status, holdstop, handlers, used>>

\* reset_control
ResetControl ==
  /\ supc = "reset" /\ supc' = "ingest"
  /\ control' = [FreshControl EXCEPT !.generation = NextGeneration]
  /\ exits' = NoExits
  /\ UNCHANGED <<ring, latest, window, snapshots, proc, ingest, compute, publish, file,
                 observer, setup, attempt, status, holdstop, handlers, used>>

Release ==
  /\ supc = "release"
  /\ IF observe = "none" THEN supc' = "exit" /\ UNCHANGED release
                         ELSE supc' = "wait_observe" /\ release' = 1
  /\ UNCHANGED <<shared, ingest, compute, publish, file, observe, request, setup,
                 attempt, exits, status, holdstop, handlers, used>>

WaitObserve ==
  /\ supc = "wait_observe" /\ observe # "run" /\ supc' = "exit"
  /\ status' = IF observe = "exit0" THEN status ELSE 1
  /\ UNCHANGED <<shared, ingest, compute, publish, file, observer, setup, attempt,
                 exits, holdstop, handlers, used>>

SupervisorStep ==
  \/ SpawnObserve \/ SpawnIngest \/ SpawnPublish \/ SpawnCompute \/ WaitCompute
  \/ RaiseShutdown \/ WaitIngest \/ WaitPublish \/ InstallHandlers \/ Hold
  \/ ResetControl \/ Release \/ WaitObserve

------------------------------------------------------------------------------
(* The observer, signals and failures *)

\* POST /reset: request_rerun
RequestRerun ==
  /\ observe = "run" /\ reruns < limit.reruns
  /\ request' = 1 /\ reruns' = reruns + 1
  /\ UNCHANGED <<shared, ingest, compute, publish, file, observe, release, setup,
                 supervisor, failures>>

\* run_observe leaves its loop on observe_release.
ObserverExit ==
  /\ observe = "run" /\ release = 1 /\ observe' = "exit0"
  /\ UNCHANGED <<shared, ingest, compute, publish, file, release, request, setup,
                 supervisor, used>>

\* run_observe leaves its loop on a failed poll, or is killed.
ObserverFails ==
  /\ Fail /\ observe = "run" /\ observe' \in {"exit0", "killed"}
  /\ UNCHANGED <<shared, ingest, compute, publish, file, release, request, setup,
                 supervisor, reruns>>

\* A signal, or a kill, ends a child where it stands.
ChildrenDie(S) ==
  /\ proc' = [r \in Roles |-> IF r \in S THEN "killed" ELSE proc[r]]
  /\ IF "ingest" \in S THEN IngestTo("off", "off") ELSE UNCHANGED ingest
  /\ IF "compute" \in S THEN ComputeTo("off") ELSE UNCHANGED compute
  /\ IF "publish" \in S THEN PublishTo("off") ELSE UNCHANGED publish

Kill ==
  /\ Fail /\ \E r \in Roles : Running(r) /\ ChildrenDie({r})
  /\ UNCHANGED <<control, ring, latest, window, snapshots, file, observer, setup,
                 supervisor, reruns>>

\* Ctrl+C reaches the whole process group: the children die of it, the
\* observer leaves its loop (or dies, before its handlers are installed), and
\* the supervisor dies too until it has handlers.
Signal ==
  /\ Fail /\ supc \notin {"exit", "killed"}
  /\ ChildrenDie({r \in Roles : Running(r)})
  /\ IF observe = "run" THEN observe' \in {"exit0", "killed"} ELSE UNCHANGED observe
  /\ IF handlers THEN holdstop' = TRUE /\ UNCHANGED supc
                 ELSE supc' = "killed" /\ UNCHANGED holdstop
  /\ UNCHANGED <<control, ring, latest, window, snapshots, file, release, request, setup,
                 attempt, exits, status, handlers, reruns>>

\* The output file cannot be opened.
PublishWriteFails ==
  /\ Fail /\ ppc = "write" /\ have
  /\ Exit("publish", "exit1") /\ PublishTo("off")
  /\ UNCHANGED <<control, ring, latest, window, snapshots, ingest, compute, file,
                 observer, setup, supervisor, reruns>>

Environment == UNCHANGED <<observer, setup, supervisor, used>>
OfIngest == UNCHANGED <<latest, window, snapshots, compute, publish, file>> /\ Environment
OfCompute == UNCHANGED <<ingest, publish, file>> /\ Environment
OfPublish == UNCHANGED <<ingest, compute>> /\ Environment

StageStalls ==
  /\ Fail /\ Silence
  /\ UNCHANGED <<ingest, publish, file, observer, setup, supervisor, reruns>>

Over == supc \in {"exit", "killed"} /\ UNCHANGED vars

Next ==
  \/ SupervisorStep
  \/ IngestStep /\ OfIngest
  \/ (FastStep \/ WindowStep \/ SnapshotStep \/ WatchdogStep \/ ComputeMain) /\ OfCompute
  \/ PublishStep /\ OfPublish
  \/ RequestRerun \/ ObserverExit \/ ObserverFails
  \/ Kill \/ Signal \/ PublishWriteFails \/ StageStalls
  \/ Over

\* The operating system runs every thread of every process, the window thread
\* excepted; no failure, signal or request has to happen.
FairnessButWindow ==
  /\ WF_vars(SupervisorStep)
  /\ WF_vars(SourceStep /\ OfIngest)
  /\ WF_vars(FramesStep /\ OfIngest)
  /\ WF_vars(IngestMain /\ OfIngest)
  /\ WF_vars(FastStep /\ OfCompute)
  /\ WF_vars(SnapshotStep /\ OfCompute)
  /\ WF_vars(WatchdogStep /\ OfCompute)
  /\ WF_vars(ComputeMain /\ OfCompute)
  /\ WF_vars(PublishStep /\ OfPublish)
  /\ WF_vars(ObserverExit)

Fairness == FairnessButWindow /\ WF_vars(WindowStep /\ OfCompute)

SafetySpec == Init /\ [][Next]_vars
Spec == SafetySpec /\ Fairness
WindowStuckSpec == SafetySpec /\ FairnessButWindow
==============================================================================
