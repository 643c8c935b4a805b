------------------------------ MODULE Dashboard ------------------------------
(* The observer process (observe.cpp) between its HTTP clients and the       *)
(* supervisor of a paced run (supervisor.cpp), which holds the mapping after *)
(* a pipeline, starts over on request and stops on a signal.  The pipeline   *)
(* itself is seen from its control block only; Pipeline has the rest of it.  *)
EXTENDS HttpSse, Telemetry

\* The bounds of a run: the clients that come, the number of failed calls,
\* crashes and kills, and the number of signals.
CONSTANT Scenarios

ASSUME DashboardAssumption ==
  Scenarios \subseteq [clients : SUBSET Clients, faults : Nat, signals : Nat]

VARIABLES opc,          \* the observer
          stop,         \* its g_observe_stop
          attached,     \* it has the mapping
          supc,         \* the supervisor
          release,      \* observe_release
          request,      \* rerun_request
          holdstop,     \* g_hold_stop
          handlers,     \* hold_signal is installed
          linked,       \* the name of the mapping exists
          ingest,       \* ingest runs, sleeps in push() for ever, or is gone
          stuck,        \* compute has a stage that makes no progress
          faults, signals   \* how much of the bounds is left

observerVars == <<opc, stop, attached, sample>>
supervisorVars == <<supc, release, request, holdstop, handlers, linked, board, ingest,
                    stuck>>
budgets == <<faults, signals>>
vars == <<httpVars, observerVars, supervisorVars, budgets>>

Init ==
  /\ \E s \in Scenarios : HttpInit(s.clients) /\ faults = s.faults /\ signals = s.signals
  /\ board = FreshBoard /\ sample = NoSample
  /\ opc = "off" /\ stop = FALSE /\ attached = FALSE
  /\ supc = "create" /\ release = 0 /\ request = 0 /\ holdstop = FALSE
  /\ handlers = FALSE /\ linked = FALSE /\ ingest = "gone" /\ stuck = FALSE

Fault == faults > 0 /\ faults' = faults - 1 /\ UNCHANGED signals
NoFault == UNCHANGED budgets

Serving == opc \notin {"off", "ended", "failed", "killed"}
-------------------------------------------------------------------------------
(* run_observe *)

\* shm_open_existing and http_sse_listen, each of which can fail; a failure to
\* listen closes the mapping again.
Attach ==
  /\ opc = "attach"
  /\ \/ linked /\ opc' = "listen" /\ attached' = TRUE /\ NoFault
     \/ opc' = "failed" /\ UNCHANGED attached /\ Fault
  /\ UNCHANGED <<httpVars, stop, sample, supervisorVars>>

Listen ==
  /\ opc = "listen"
  /\ \/ opc' = "loop" /\ listening' = TRUE /\ UNCHANGED attached /\ NoFault
     \/ opc' = "failed" /\ attached' = FALSE /\ UNCHANGED listening /\ Fault
  /\ UNCHANGED <<conn, client_fd, incoming, hot, reset_out, owed, stop, sample,
                 supervisorVars>>

\* Mutant: the loop ends on a signal only.
LeavesOnSignal == stop

\* The condition of the loop.
Leaves == stop \/ release = 1

Loop ==
  /\ opc = "loop"
  /\ opc' = IF Leaves THEN "close" ELSE FirstLoad
  /\ sample' = NoSample
  /\ UNCHANGED <<httpVars, stop, attached, supervisorVars, budgets>>

Load ==
  /\ opc \in Loads
  /\ sample' = [sample EXCEPT ![opc] = board[opc]]
  /\ opc' = NextLoad[opc]
  /\ UNCHANGED <<httpVars, stop, attached, supervisorVars, budgets>>

\* The rest of collect_telemetry, and format_telemetry_json: with no text
\* there is no pump in this iteration.
Format ==
  /\ opc = "rows"
  /\ sample' = Collected
  /\ opc' = IF EventLength = 0 THEN "loop" ELSE "poll"
  /\ UNCHANGED <<httpVars, stop, attached, supervisorVars, budgets>>

\* poll answers, is interrupted by a signal (the pump ends), or fails (so does
\* the loop).
ObservePoll ==
  /\ opc = "poll"
  /\ \/ Poll /\ opc' = "drop" /\ NoFault
     \/ stop /\ opc' = "rerun" /\ UNCHANGED httpVars /\ NoFault
     \/ opc' = "close" /\ UNCHANGED httpVars /\ Fault
  /\ UNCHANGED <<stop, attached, sample, supervisorVars>>

ObserveDrop ==
  /\ opc = "drop" /\ opc' = "accept" /\ Drop
  /\ UNCHANGED <<stop, attached, sample, supervisorVars, budgets>>

ObserveAccept ==
  /\ opc = "accept"
  /\ \/ \E c \in Clients : Accept(c) /\ opc' = "read" /\ NoFault
     \/ ~hot.listen /\ opc' = "event" /\ UNCHANGED httpVars /\ NoFault
     \/ hot.listen /\ opc' = "event" /\ UNCHANGED httpVars /\ Fault
  /\ UNCHANGED <<stop, attached, sample, supervisorVars>>

\* read_request and the answer to what it read.
ObserveRespond ==
  /\ opc = "read" /\ opc' = "event"
  /\ Unread \/ Answer \/ Stream \/ Reset
  /\ UNCHANGED <<stop, attached, sample, supervisorVars, budgets>>

ObserveEvent ==
  /\ opc = "event" /\ opc' = "rerun" /\ SendEvent(EventLength)
  /\ UNCHANGED <<stop, attached, sample, supervisorVars, budgets>>

\* request_rerun, if the pump saw a reset; then the sleep.
ObserveRerun ==
  /\ opc = "rerun" /\ opc' = "loop"
  /\ request' = IF reset_out THEN 1 ELSE request
  /\ reset_out' = FALSE
  /\ UNCHANGED <<conn, listening, client_fd, incoming, hot, owed, stop, attached,
                 sample, supc, release, holdstop, handlers, linked, board, ingest, stuck,
                 budgets>>

ObserveClose ==
  /\ opc = "close" /\ opc' = "ended"
  /\ CloseServer /\ attached' = FALSE
  /\ UNCHANGED <<stop, sample, supervisorVars, budgets>>

ObserverStep ==
  \/ Attach \/ Listen \/ Loop \/ Load \/ Format \/ ObservePoll \/ ObserveDrop
  \/ ObserveAccept \/ ObserveRespond \/ ObserveEvent \/ ObserveRerun
  \/ ObserveClose
-------------------------------------------------------------------------------
(* run_supervisor and the pipeline's stores to the control block *)

OfSupervisor == UNCHANGED <<httpVars, observerVars>>
SamePipeline == UNCHANGED <<ingest, stuck>>

\* shm_create; nothing is left of a creation that fails.
Create ==
  /\ supc = "create"
  /\ \/ supc' = "spawn" /\ linked' = TRUE /\ NoFault
     \/ supc' = "exit" /\ UNCHANGED linked /\ Fault
  /\ UNCHANGED <<release, request, holdstop, handlers, board>> /\ OfSupervisor /\ SamePipeline

SpawnObserve ==
  /\ supc = "spawn" /\ supc' = "start"
  /\ \/ opc' = "attach" /\ NoFault
     \/ UNCHANGED opc /\ Fault
  /\ UNCHANGED <<httpVars, stop, attached, sample, release, request, holdstop,
                 handlers, linked, board, ingest, stuck>>

\* The children are spawned; the supervisor goes on without an ingest that
\* cannot be.  From here on every reset answered so far has its pipeline.
StartPipeline ==
  /\ supc \in {"start", "again"} /\ supc' = "pipeline" /\ owed' = FALSE
  /\ (ingest' = "runs" /\ NoFault) \/ (ingest' = "gone" /\ Fault)
  /\ UNCHANGED <<conn, listening, client_fd, incoming, hot, reset_out, observerVars, release,
                 request, holdstop, handlers, linked, board, stuck>>

\* What a child does to the pipeline and the control block.
OfChildren == UNCHANGED <<release, request, holdstop, handlers, linked>> /\ OfSupervisor

\* ingest has handed over its last record, or has seen the flag: it stores
\* ingest_done and exits.
IngestDone ==
  /\ supc \in {"pipeline", "wait"} /\ ingest = "runs" /\ ingest' = "gone"
  /\ board' = [board EXCEPT !.ingest_done = 1]
  /\ UNCHANGED <<supc, stuck>> /\ OfChildren /\ NoFault

\* Every stage of compute waits for ingest_done.
ComputeDone ==
  /\ supc = "pipeline" /\ ~stuck /\ board.ingest_done = 1 /\ board.compute_done = 0
  /\ board' = [board EXCEPT !.compute_done = 1]
  /\ UNCHANGED supc /\ SamePipeline /\ OfChildren /\ NoFault

\* compute has exited 0.
RaiseShutdown ==
  /\ supc = "pipeline" /\ ~stuck /\ board.compute_done = 1
  /\ supc' = "wait" /\ board' = [board EXCEPT !.shutdown = 1]
  /\ SamePipeline /\ OfChildren /\ NoFault

\* compute ended badly: it is started again under the next generation, or the
\* flag is raised after the last attempt, which may leave ingest asleep on its
\* full queue.
ComputeFails ==
  /\ supc = "pipeline" /\ Fault /\ stuck' = FALSE
  /\ \/ board' = [board EXCEPT !.generation = @ + 1] /\ UNCHANGED <<supc, ingest>>
     \/ /\ supc' = "wait" /\ board' = [board EXCEPT !.shutdown = 1]
        /\ UNCHANGED ingest \/ (ingest = "runs" /\ ingest' = "hung")
  /\ OfChildren

\* A stage of compute stops: the joins wait for it.
StageHangs ==
  /\ supc = "pipeline" /\ ~stuck /\ stuck' = TRUE /\ Fault
  /\ UNCHANGED <<supc, ingest, board>> /\ OfChildren

\* ingest cannot attach, or is killed, before it stores ingest_done.
IngestDies ==
  /\ supc \in {"pipeline", "wait"} /\ ingest # "gone" /\ ingest' = "gone" /\ Fault
  /\ UNCHANGED <<supc, stuck, board>> /\ OfChildren

\* ingest and publish have ended; without an observer there is nothing to hold
\* the mapping for.
PipelineEnd ==
  /\ supc = "wait" /\ ingest = "gone"
  /\ supc' = IF opc = "off" THEN "release" ELSE "install"
  /\ UNCHANGED board /\ SamePipeline /\ OfChildren /\ NoFault

\* A signal has killed compute in its last attempt, or after its end.
CutShort ==
  /\ supc = "cut" /\ supc' = "wait"
  /\ board' = [board EXCEPT !.shutdown = 1]
  /\ SamePipeline /\ OfChildren /\ NoFault

\* Mutant: a request made while the pipeline ran is dropped.
RequestDropped == 0

\* A request made while the pipeline ran is still there when it ends.
RequestKept == request

\* g_hold_stop = 0, then the handlers.
InstallHandlers ==
  /\ supc = "install" /\ supc' = "hold"
  /\ holdstop' = FALSE /\ handlers' = TRUE /\ request' = RequestKept
  /\ UNCHANGED <<release, linked, board>> /\ SamePipeline /\ OfSupervisor /\ NoFault

\* Mutant: the generation is bumped before the flags are cleared.
BumpFirst == [taken |-> "generation", generation |-> "shutdown", shutdown |-> "ingest_done",
              ingest_done |-> "compute_done", compute_done |-> "again"]

\* reset_control: the flags are cleared in this order, the generation last.
\* Then the next pipeline starts.
ResetOrder == [taken |-> "shutdown", shutdown |-> "ingest_done", ingest_done |-> "compute_done",
               compute_done |-> "generation", generation |-> "again"]

\* while (g_hold_stop == 0): take_rerun.
Hold ==
  /\ supc = "hold"
  /\ \/ holdstop /\ supc' = "release" /\ UNCHANGED request
     \/ ~holdstop /\ request = 1 /\ request' = 0 /\ supc' = ResetOrder.taken
  /\ UNCHANGED <<release, holdstop, handlers, linked, board>> /\ SamePipeline /\ OfSupervisor
  /\ NoFault

\* Mutant: every field is counted up.
CountedUp(field, old) == old + 1

ResetValue(field, old) == IF field = "generation" THEN old + 1 ELSE 0

ResetControl ==
  /\ supc \in DOMAIN ResetOrder
  /\ board' = [board EXCEPT ![supc] = ResetValue(supc, @)]
  /\ supc' = ResetOrder[supc]
  /\ SamePipeline /\ OfChildren /\ NoFault

Release ==
  /\ supc = "release" /\ supc' = "wait_observe"
  /\ release' = IF opc = "off" THEN release ELSE 1
  /\ UNCHANGED <<request, holdstop, handlers, linked, board>> /\ SamePipeline /\ OfSupervisor
  /\ NoFault

\* wait_child, then shm_close, which unlinks the name.
WaitObserve ==
  /\ supc = "wait_observe" /\ ~Serving
  /\ supc' = "exit" /\ linked' = FALSE
  /\ UNCHANGED <<release, request, holdstop, handlers, board>> /\ SamePipeline /\ OfSupervisor
  /\ NoFault

SupervisorStep ==
  \/ Create \/ SpawnObserve \/ StartPipeline \/ IngestDone \/ ComputeDone \/ RaiseShutdown
  \/ PipelineEnd \/ CutShort \/ InstallHandlers \/ Hold \/ ResetControl \/ Release
  \/ WaitObserve

ChildFails == ComputeFails \/ StageHangs \/ IngestDies
-------------------------------------------------------------------------------
(* Signals and kills *)

\* A signal that the supervisor survives and the children of a rerun do not.
\* compute, not spawned yet or started again, does without ingest; or it had
\* ended, or this was its last attempt.
ChildrenDie ==
  IF supc \in {"pipeline", "wait", "cut"}
  THEN /\ ingest' = "gone" /\ stuck' = FALSE
       /\ \/ UNCHANGED <<supc, board>>
          \/ supc = "pipeline" /\ board' = [board EXCEPT !.generation = @ + 1] /\ UNCHANGED supc
          \/ supc = "pipeline" /\ supc' = "cut" /\ UNCHANGED board
  ELSE UNCHANGED <<supc, board, ingest, stuck>>

\* A signal for the supervisor alone or for the whole group.  The supervisor
\* dies of it while it has no handlers; the observer installs its own first
\* thing in run_observe.
Signal ==
  /\ signals > 0 /\ signals' = signals - 1
  /\ supc \notin {"create", "exit", "killed"}
  /\ \E group \in BOOLEAN :
       /\ IF handlers
          THEN holdstop' = TRUE /\ IF group THEN ChildrenDie
                                  ELSE UNCHANGED <<supc, board, ingest, stuck>>
          ELSE supc' = "killed" /\ UNCHANGED <<holdstop, board, ingest, stuck>>
       /\ \/ UNCHANGED opc /\ stop' = (stop \/ (group /\ Serving))
          \/ group /\ opc = "attach" /\ opc' = "killed" /\ UNCHANGED stop
  /\ UNCHANGED <<httpVars, attached, sample, release, request, handlers, linked, faults>>

\* The kernel closes what a killed observer had open.
KillObserver ==
  /\ Serving /\ Fault
  /\ opc' = "killed" /\ attached' = FALSE /\ listening' = FALSE
  /\ client_fd' = None /\ incoming' = None
  /\ conn' = [c \in Clients |-> IF c \in Queued \cup Open
                                THEN Closed("nothing") ELSE conn[c]]
  /\ UNCHANGED <<hot, reset_out, owed, stop, sample, supervisorVars>>

ClientStep ==
  /\ \E c \in Clients : Connect(c) \/ HangUp(c)
  /\ UNCHANGED <<observerVars, supervisorVars, budgets>>

Next == ObserverStep \/ SupervisorStep \/ ChildFails \/ Signal \/ KillObserver \/ ClientStep

\* Both processes are scheduled, and so are the children, unless compute is
\* stuck: then ingest may wait for room in the ring for ever.  No client, signal
\* or failure has to come.
Spec ==
  /\ Init /\ [][Next]_vars
  /\ WF_vars(ObserverStep)
  /\ WF_vars(~stuck /\ SupervisorStep)
-------------------------------------------------------------------------------
TypeOK ==
  /\ conn \in [Clients -> Connections]
  /\ client_fd \in Clients \cup {None} /\ incoming \in Clients \cup {None}
  /\ board \in [generation : Nat, shutdown : 0 .. 1, ingest_done : 0 .. 1, compute_done : 0 .. 1]

\* No socket is leaked or closed twice: between pumps the only open connection
\* is the event stream, whichever clients came, replaced each other, stalled or
\* left; and every way out of run_observe and of run_supervisor leaves no
\* socket, no mapping and no name behind.
NothingLeaks ==
  /\ opc \in {"loop", "poll"} \cup Loads => Open = {client_fd} \ {None}
  /\ opc \in {"ended", "failed"} => Open = {} /\ Queued = {} /\ ~listening /\ ~attached
  /\ supc = "exit" => ~linked /\ ~Serving

\* An event stream consists of a header and whole events: after a send that
\* went out in part nothing more is sent on that connection.
StreamWhole ==
  \A c \in Clients :
    /\ conn[c].got = "torn" => conn[c].st = "closed"
    /\ client_fd = c => conn[c].st = "open" /\ conn[c].got = "stream"

Finished == board.shutdown = 1 /\ board.ingest_done = 1 /\ board.compute_done = 1

\* A dashboard that shows idle tells the truth about the generation it shows,
\* although the flags are loaded one by one while a rerun clears them one by
\* one: as long as that generation lasts, its pipeline is over.
IdleHonest ==
  sample.idle = 1 /\ sample.generation = board.generation /\ supc \notin DOMAIN ResetOrder
    => Finished

\* A "Run again" that the page was told is accepted is not forgotten on its way:
\* the pump still has to pass it on, the request stands, or the supervisor has
\* taken it and is about to start the pipeline; whatever pipeline, restart or
\* signal comes in between, and unless the observer is killed with it in hand.
RerunKept ==
  owed => \/ reset_out /\ opc \in {"event", "rerun"}
          \/ request = 1
          \/ supc \in DOMAIN ResetOrder \cup {"again"}
          \/ opc = "killed"

Stopping == supc \in {"release", "wait_observe", "exit", "killed"}

\* The supervisor is in waitpid for a child that does not exit by itself: a
\* compute with a stuck stage (compute.cpp:189), a compute that waits for the
\* ingest_done of an ingest that is gone, or an ingest that sleeps in push()
\* after the flag (ingest.cpp:67).
Blocked ==
  \/ supc = "pipeline" /\ (stuck \/ (ingest = "gone" /\ board.ingest_done = 0))
  \/ supc = "wait" /\ ingest = "hung"

\* A "Run again" that the page was told is accepted is carried out: a pipeline
\* starts afterwards, whenever in the life of the supervisor the request comes
\* and however the pipeline that runs then ends, unless the supervisor is
\* stopped or blocked for ever, or the observer is killed first.
AcknowledgedRerun == owed ~> (~owed \/ Stopping \/ opc = "killed" \/ []Blocked)

\* A signal that the hold loop sees ends the supervisor: the observer is
\* released, also when the signal did not reach it, and collected.
StopEnds == (supc = "hold" /\ holdstop) ~> supc = "exit"

\* Every client that connects is taken up: no other client, slow, silent or
\* streaming, and no number of sources to report, keeps the pump from it.
EveryClientServed ==
  \A c \in Clients : conn[c].st = "queued" ~> conn[c].st # "queued"
==============================================================================
