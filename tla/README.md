# Verification of ratehub

TLA+ models of ratehub, a telemetry concentrator of five processes on one
shared-memory mapping, with TLC runs on small instances and TLAPS proofs.
`PROJECT.json` maps every definition to its source lines and lists runs,
mutants, findings, hazards and theorems.

## The system

| Part | Source | State | Operations | Module |
|---|---|---|---|---|
| Record ring | `spsc_ring.hpp` | slots, two indexes | try_push, try_pop, occupied | `SpscRing` |
| Seqlock | `seqlock.hpp` | counter, payload words | publish, load | `Seqlock` |
| Triple buffer | `triple_buffer.hpp` | three slots, indexes, middle | publish, consume | `TripleBuffer` |
| Bounded queue | `bounded_queue.hpp` | queue, closed, sleepers | push, pop, close | `Ingest` |
| Mapping | `layout.hpp`, `shm_control.hpp`, `supervisor_state.hpp` | flags, generation, heartbeats, rows | - | `Layout` |
| Ingest | `ingest.cpp` | two threads | read and queue; pop, decode and push | `Ingest`, `IngestAlone` |
| Compute | `compute.cpp` | four threads | fast, window, snapshot, watchdog | `Compute` |
| Publish | `publish.cpp` | one loop | consume, write the file | `Publish` |
| Supervisor | `supervisor.cpp` | attempts, exits, hold loop | spawn, wait, restart, rerun, release | `Supervisor`, `Pipeline` |
| Observer | `observe.cpp`, `shm_region.cpp` | loop, mapping, stop flag | attach, listen, sample, pump, request a rerun | `Dashboard` |
| Telemetry | `telemetry.cpp` | one sample | collect, format | `Telemetry` |
| HTTP and SSE server | `http_sse.cpp` | listening socket, event stream | listen, pump, close | `HttpSse` |
| Frame codec | `frame.cpp`, `types.hpp` | the caller's record | encode, decode, CRC | `Frame`, `Types` |
| Integrator | `fleet.cpp` | one row per source | integrate | `Fleet` |
| Pacing | `pace.hpp`, loops of `compute.cpp` | heartbeat, overruns, fault | beat, finish_cycle, watchdog | `Pace` |

A replay file flows from the source thread through the queue, the frames
thread and the ring to the fast stage; from there by seqlocks to the window
stage and to the snapshot stage; by the triple buffer to the publish process,
which writes the file. Done flags in the control block pass the end of the
stream along the same way. The supervisor starts ingest and publish, then
compute up to three times, raises the shutdown flag when compute is over, and
collects the exit codes. With an observer and pacing it then holds the mapping
and may start the pipeline again.

What makes this hard: unordered memory between processes; a process that dies
inside an operation on the mapping and is replaced; flags and data in separate
words; one condition variable for both sides of the queue; a control block
that a restart resets only in part. The hazards are listed line by line in
`PROJECT.json`.

## Modules

`SpscRing`, `Seqlock` and `TripleBuffer` take one step per access to shared
memory. Stale loads are explicit: a load returns any store not older than what
its thread is known to have seen, and release stores and fences carry such
knowledge. `BoundedFifo` and `LatestValue` are the abstract specifications of
the first and the last; both name the value the writer offers, so that the
refinements also say *which* value comes out. `Layout` and the modules above it use the three
structures as what those modules establish: a FIFO, registers, a register with
a fresh mark. Consequently a death *inside* a seqlock publish or a triple-buffer
swap is modelled in those modules and not in the composed system.

`Ingest`, `Compute` and `Publish` have one action per step between two accesses
to shared state, named after thread and step (`FastPop`, `WindowLoad`,
`WindowPublish`, `SnapshotPublish`). A loop over the sources takes its steps
source by source. The end of ingest and of compute is two steps, the store of
the done flag and the exit, since a death between them leaves a flag without an
exit code. `readable` is how much of the file an ingest process can read: one
that cannot be opened and a read that fails end the source thread like the end
of the file, and the code does not tell them apart. `Supervisor` composes them with the supervisor, the observer's effects, signals and failures:
a child that cannot be spawned or attached, a killed child, Ctrl+C to the
process group, a stage that falls silent, a replay that cannot be read to its
end, an output file that cannot be opened.
`IngestAlone` closes ingest with a draining consumer. `Pipeline` states the
properties; `MC*` modules and configurations are the instances. Operators
under a comment "Mutant" are deliberate mistakes that no specification uses.

`Dashboard` composes `HttpSse` and `Telemetry` with the supervisor as the
observer meets it: the control block that the pipeline fills, `reset_control`
store by store, the hold loop, the release, and the life of the mapping. Each
load of a sample, each phase of a pump and each store of a reset is a step.
Clients connect with any request, fall silent, leave, or replace the stream; a
send goes out whole, in part or not at all. System calls fail, the observer is
killed, and a signal reaches the supervisor alone or the whole group. One that
reaches the group during a rerun kills the pipeline's processes but not the
supervisor. Of the pipeline `Dashboard` keeps the flags, whether ingest runs,
sleeps in push() for ever (`hung`) or is gone, and whether compute has a stage
that makes no progress (`stuck`). In three cases the supervisor is in waitpid
for a child that does not exit by itself, which `Blocked` names: a stuck stage,
whose thread compute joins; a compute that waits for the `ingest_done` of an
ingest that is gone; and an ingest that hangs after the flag.

`Frame`, `Fleet`, `Pace` and `TripleBuffer` stand alone; `Kernels` puts them
side by side, one per behaviour, for one run. `Frame` computes real bytes and the real CRC. `Fleet` has the
integer widths and the length of a second as constants and records every
64-bit value a step computes, as well as the exact path of each source, in
history variables. `Pace` has one stage and the watchdog, each read of its
loop condition, the clock, the flag and the heartbeat a step, and time passing
in between. The stage is one whose done flag heartbeat_stalled is given
(`flagged`), or the snapshot thread, for which it is given none.

Abstractions: in `Dashboard`, of the control block only the generation and the
flags that make up idle; of the JSON text its greatest length, counted from the
format strings; page and 404 are one kind of answer; pacing is on, as the hold
loop requires, and an observer was asked for. A request that is read by halves
is one that is not read. In the pipeline modules a record is the number of its frame; whether it decodes and
whether integrate accepts it are fields of the frame, although integrate also
depends on the row before it; a heartbeat is never stored, recent or old;
overrun counters (`Pace` has them), pids and the three progress heartbeats are
left out, as only the dashboard reads them; sleeping and yielding are left out, as any thread may
pause anywhere.

## Runs

| Run | Shows | Bounds |
|---|---|---|
| `ring` | race freedom, exact occupancy, FIFO | 4 slots, 5 pushes of 2 values: full, empty and a lap |
| `seqlock` | no torn copy, final load succeeds, load returns | 2 words, 2 attempts, 3 publishes, counter modulo 4 so that it wraps |
| `ingest` | nothing lost, no lost wake-up, end | 6 frames (one bad), queue of 2, ring of 1: both fill and empty |
| `pipeline` | every record once, complete snapshot and file, end | 4 frames of 2 sources (one refused, one row counts to two), ring and queue of 1 |
| `restarts` | the restart limit, what exit 0 means, generations | 2 frames, the scenarios `Disturbed` of `MCPipeline` |
| `kernels` | only whole frames, no overflow, rows follow the path, cycles paced, faults justified, silence noticed; slot ownership, whole copies, latest value | 2 records at the ends of their fields, 414 damages; 4-bit positions, 8-bit products, steps around every limit; period 1, clock to 7, past the stall limit of 4; 2 parts, 4 publishes, 2 deaths |
| `dashboard` | no leaks, whole events, honest idle, acknowledged reruns are kept and, unless the supervisor is blocked, happen, stops end, clients are served | 2 clients with any request and 1 failure or 1 signal; 1 client with 1 failure and 2 signals |

`pipeline` and `restarts` use the smallest ring and queue, which block most often. A
scenario is a way to start a run with its bounds. `Disturbed` has one failure
of any kind in runs that exit by themselves (plain, after a crash at start,
and with an observer) and in a held run; and one rerun after a clean, a
restarted and a failed pipeline. A child killed in the middle of a run that is
then rerun is not among them: it is too large to finish in a few minutes.
`Terminates` is checked on clean runs. With `RATEHUB_CRASH=always` it would
hold only for files that fit into ring and queue, since beyond that ingest
hangs as in `ingest_stop`.

In `kernels` the damages are every single bit, neighbouring bytes and bytes two
apart: bursts that a CRC-16 must detect, and a distance of 17 bits, which is
beyond what the proofs cover and which this polynomial detects too. The
scaled widths keep the relation the code relies on, an int64 of at least twice
an int32's range. Two clients suffice for `dashboard` since a pump holds at most
an old stream and one new connection; two resets give three pipelines.

Some properties name what the code does not promise.

- `AcknowledgedRerun`: a request is not carried out by a supervisor that is
  stopping or is `Blocked` for ever. A blocked pipeline may go on after all when
  signals kill its compute until the attempts are used up, so the exception is
  being blocked from some time on.
- `StopEnds` begins in the hold loop: a signal during a rerun's pipeline is
  cleared before the loop looks at it. `pipeline_signal` is about that signal.
- `ExitZeroMeansFinished` speaks of what the stream delivered, the stages and
  the exit codes, and not of the file: exit 0 can follow an unreadable replay.
- `FaultJustified` excepts a snapshot thread that ends between the watchdog's
  look at its loop condition and its look at the heartbeat. Its silence is then
  the end of its work, and the fault flag makes a finished compute exit 3.

Five further runs show that the code does not do what its documents say. Each
must end in a violation:

- `seqlock_death`: after a writer died between its odd and even store, a load
  mixes two publishes.
- `ingest_stop`: a shutdown with ring and queue full leaves the source thread
  asleep in push().
- `pipeline_output`: an undisturbed run exits 0 with its last record still in
  the ring and without an output file. The two have separate causes (the look at
  ingest_done after the failed pop; publish's loop condition); the property asks
  for only one of the two promises, so the trace breaks both.
- `pipeline_stuck`: a stage that hangs is flagged but never restarted.
- `pipeline_signal`: a signal caught during a rerun does not become the shutdown
  flag. Ingest dies of it, compute waits for its `ingest_done`, the supervisor
  for compute, and nothing reads `g_hold_stop` meanwhile.

Fairness is weak fairness per thread: the operating system schedules every
runnable thread, and every loop polls. Spurious wake-ups, failures, signals and
requests are never assumed. `pipeline_stuck` drops fairness of the window
thread only, which is what a stuck stage is. `dashboard` assumes that the
observer keeps taking steps, as every call in its loop has a timeout, and the
supervisor too while no stage of compute is stuck: a pipeline without failure
ends (`Terminates`), and one that waits for a dead or hung ingest has no step to
take. `kernels` assumes that time passes
and that the watchdog runs; the stage it watches may stop anywhere. Deadlock is
checked except in these two, whose processes end.

## Proofs

Eight modules. `ComputeProofs` is about what the compute process is built from,
the triple buffer, the integrator and the pacing; `IngestProofs` about the
ingest process and the ring it fills.

For the ring `IngestProofs` proves, for every capacity of at least two and every number of
pushes, types, race freedom, exact occupancy and refinement of `BoundedFifo`.
The invariant adds to the types what each side knows: the producer is never a
lap ahead of the pops it has *seen*, the consumer has seen every push it pops,
and every store of the write index carries a sight of the read index less than
a lap old. Without the seen counts the properties are not inductive, since the
tests are made on stale values.

For the triple buffer `ComputeProofs` proves, for every snapshot size and any number of publishes
and deaths, types, slot ownership, whole copies and refinement of
`LatestValue`. The invariant adds what each slot holds: the writer's filled
prefix, a published snapshot in the reader's slot and in a fresh spare, and the
copied prefix. All three properties are stated until a process dies between an
exchange and the assignment after it; there the code forgets a slot.
`KernelsBuffer` says the same of `Kernels`, which the run checks.

`SeqlockProofs` proves, for every number of payload words, tries and publishes
and every even width of the counter, types, that `load()` returns words of one
publish and that the load after the done flag succeeds with the last one. The
invariant says where every store stands while no writer has died: publish p
stores `seq_` at places 2p and 2p + 1 of its order and every word at place
p + 1. A reader that began at an even value began at some 2p + 1 and has learned
words of publish p at least; a word of a later publish q raises what its fence
learns of `seq_` to 2q, so the second load meets a later store than the first,
and equal values are then a whole turn of the counter apart. Deaths and full
turns are excluded in the statements: the code accepts the turn in its comment,
and the `seqlock_death` run shows what a death does.

For the integrator `ComputeProofs` proves, for every pair of integer widths with an int64 of at least
twice the int32 range, every second of at least two units, every set of samples
and steps and any number of them, that the integrator computes nothing outside
int64_t and that every row stays near its exact path. The invariant adds that
rows are in int32_t, without which the sum after a legal product could overflow,
and that a row without samples is empty. The argument for the product is that
`dt <= INT64_MAX / mag` gives `mag * dt <= INT64_MAX`, which is symmetric, so
that the one asymmetric value INT64_MIN is never needed; for the path, that a
truncating division errs by less than one unit toward zero, so the error grows
by less than `Second` per sample. The real widths satisfy the assumptions.

For `Pace` it proves that every fault is justified and that cycles keep their
period, for every period, silence floor and length of a run. The first needs
what the watchdog holds between its reads: the clock it read is not ahead of
the clock, `done` was read before the heartbeat, and an unsigned difference
beyond the limit is a real age only if the beat is not newer than the reading.
Where no `done` is read, a stage that has ended is the exception.
The second needs when the stage's work began and when it may wake.

The rest of `IngestProofs` is about the ingest process with a draining consumer, for every
file and every size of queue and ring. Types, no lost wake-up, and no frame
lost, repeated or reordered until the flag is raised. The wake-up property is
inductive once it is known that `closed` is set only by the thread that pushed
last and that a sleeper's state is the one it waits in. For the frames the
invariant says that the queue holds exactly the last numbers handed over, that
the frame in hand is the one before them, and that what has gone through is
increasing, decodes, and is complete up to that frame; the order of the whole
pipe follows from the parts.

`FrameProofs` is about the codec, for every record whose fields fit their types.
`RoundTrip`: `decode_frame` accepts what `encode_frame` writes and gives the
record back. `BurstDistance`: two frames with a right checksum that differ only
within 16 consecutive bits are equal, wherever these fall and whether or not
they reach into the checksum. `WholeFramesOnly` and `KernelsFrames` conclude that
`OnlyWholeFrames` holds, in `Frame` alone and with the other kernels, if every
damage is such a burst; `KernelsTypes` has no such condition.

- The step of the CRC register is one to one: the polynomial 0x1021 is odd and a
  shift brings in a zero, so the lowest bit of the result tells which branch was
  taken, and the branch gives the register back. Two registers that differ
  before equal bytes therefore differ after them, at any distance.
- Across a burst the argument goes back from where the registers of the two
  frames meet again. The low bits after a byte tell the top bits of its last
  shifts and the low bits before it, so the registers agree low down after the
  first byte of the burst. Its shifts then took the same branches in both, and
  the difference that byte made only moved up, out of the register.
- The round trip needs that division and remainder by 256 take a number apart
  and put it together, also a negative one, and that the checksum of 36 bytes
  does not depend on what follows them.
- The checksum is a recursive function. Its induction over the bytes is made by
  hand, from the least element of a set of counterexamples, since the library's
  induction theorems cannot be instantiated here.
- The invariants are `WireInv` (types; an undamaged wire is what was encoded)
  and `WholeInv` (a damaged frame is short or has a wrong checksum; a decode succeeds
  exactly on undamaged frames; the caller's record is the last one accepted).

`DashboardProofs` proves, for every set of clients and any number of failures and
signals, types, `NothingLeaks`, `StreamWhole`, `IdleHonest` and `RerunKept`.
`DashboardInv` adds to them: that the open connections are exactly the ones in the
observer's two variables, so that closing those closes all; where the supervisor
is while the observer is off and while its handlers stand; and that a flag found
up in a sample is still up as long as the generation in the sample is the
current one and no reset has begun. `IdleHonest` needs the last point for
each flag on its own, as idle is computed only after the third load. It holds
because the sample takes the generation first and `reset_control` bumps it last.

`ProcessProofs`, `PipelineProofs` and `RecordsProofs` are about the composed
system, for every file, every size of queue and ring, every number of sources,
any scenario and any number of failures and reruns. They start from lemmas that
say which steps write which variable, so that a step is looked at only where it
can disturb something.

- `ProcessProofs`: `ProcessInv` is types, which threads a process has (all of
  them exactly while it runs, each holding a frame of the file where it uses
  one) and where the supervisor is while a child runs or the flag is up. Types
  follow. None of the three is inductive alone: the
  types need that a thread in `publish` has a record, and a spawn keeps the
  threads only because the supervisor cannot spawn a child that still runs.
  `RestartInv` adds that the generation counts the attempts until a rerun is
  asked for, and that compute has succeeded or used up its attempts once the
  supervisor is at the flag; `RestartsCounted` follows.
- `PipelineProofs`: `ControlInv` adds the order of the done flags, what the
  supervisor has collected, and the counts of each generation.
  `ExitZeroMeansFinished` follows because compute exits 0 only with all its
  flags up and the fault flag down, `fast_done` stands only over `ingest_done`,
  and that flag over a stream handed over to its end, provided the shutdown flag
  did not cut ingest short; the supervisor raises that flag only after compute,
  which saw `ingest_done`, has ended.
  `GenerationMarksRestart` follows because a compute process counts from zero
  and its generation is above that of every row it finds.
- `PipelineProofs` also has the first pass, without failure or restart:
  `FirstPass` says that the rows no longer change once `fast_done` is up, that
  the window stage in its last pass has copied the rows below its index, that
  the same holds of the snapshot stage and the windows, and that publish holds
  or has written the one snapshot. `SnapshotComplete` and `OutputComplete`
  follow. Each stage's last pass starts after it saw the flag before it, which
  is what makes its copies final.
- `RecordsProofs`: `RecordsInv` says that the frames in flight are in file
  order from the fast stage back to the source thread, all behind what the rows
  show; that only decoded records are in the ring and only accepted ones are
  published; and that each row counts the good frames that have left. A step
  moves one frame by one place or none (`FrameMoves`), and only `FastPublish`
  makes one arrive (`OneArrives`), which by the order is the next of its source.
  `ExactlyOnce` follows. It also needs that without a failure there is one
  ingest and one compute process, and that the flag never meets a running
  ingest, as a frames thread that sees it drops its frame.

Assumptions are the named ASSUMEs of the modules: sizes of at
least one, a file that is a sequence of frames, records that fit the types of
their fields, a model value None that is no client, and for `Pace` a clock bound
of at least one.

Only model-checked: all liveness properties, which are outside the prover's
reach (`LoadReturns`, `IngestFinishes`, `Terminates`, `SilenceNoticed`,
`AcknowledgedRerun`, `StopEnds`, `EveryClientServed`), and damages wider than a
burst of 16 bits. Every invariant and refinement of a passing run has a theorem.

## Not modelled

- `bench.cpp`, `tools/make_replay.cpp`, the dashboard page and the command line
  have no protocol state.
- `http_sse_serve_once` is called by a test only. Parsing of the request line,
  the text of the responses and of the JSON are formatting.
- `map_fd`'s checks of magic and schema: all processes run one binary.
- An unpaced supervisor with an observer, which releases it at once, is in
  `Supervisor` and not in `Dashboard`.
- Heartbeats of a dead compute process that its successor's watchdog reads
  before the first beat: `Pace` has one process.

## Plan

1. `Pace` across a restart, with the heartbeats the dead process left.
2. A death inside a seqlock publish in the composed system.
