-------------------------------- MODULE Pace ---------------------------------
(* Pacing and the silence check: pace.hpp, and the loops of compute.cpp that *)
(* use it, in one compute process.  One stage beats, works and sleeps out    *)
(* its period while the watchdog reads its loop condition, the clock, the    *)
(* stage's done flag and its heartbeat, each in a step of its own.  Time     *)
(* passes between any two steps.                                             *)
EXTENDS Integers

CONSTANTS Period,     \* the stage's period
          FloorNs,    \* kFloorNs, the least silence that is a stall
          Wrap,       \* 2^64: now - beat is unsigned
          MaxClock    \* bound: the clock stops here

ASSUME PaceAssumption ==
  /\ Period \in Nat \ {0} /\ FloorNs \in Nat /\ MaxClock \in Nat \ {0} /\ Wrap \in Nat
  /\ MaxClock < Wrap

VARIABLES clock,      \* the monotonic clock
          beat,       \* the heartbeat slot
          done,       \* the stage's done flag
          overruns,   \* its overrun counter
          over,       \* snapshot_done or the shutdown flag: the watchdog may leave
          fault,
          pacing,     \* pacing_enabled(): the environment of the process
          flagged,    \* heartbeat_stalled is given the done flag: not for the snapshot
          stage,      \* the stage thread: pc, mark read by beat(), cycle start, wake time
          watch,      \* the watchdog: pc, now, the done flag it goes by
          late,       \* the stage has been silent beyond the limit while not done
          cycle       \* the previous cycle: its start, and whether it overran

paceVars == <<clock, beat, done, over, overruns, fault, pacing, flagged, stage, watch, late,
              cycle>>

stall_limit_ns == IF 4 * Period > FloorNs THEN 4 * Period ELSE FloorNs

\* Mutant: the time spent is slept, not the time left.
SpentBudget(work, period) ==
  IF work > period THEN [overrun |-> TRUE, sleep_ns |-> 0]
  ELSE [overrun |-> FALSE, sleep_ns |-> work]

budget(work, period) ==
  LET spent == IF work < 0 THEN 0 ELSE work
  IN  IF period <= 0 \/ spent > period
      THEN [overrun |-> TRUE, sleep_ns |-> 0]
      ELSE [overrun |-> FALSE, sleep_ns |-> period - spent]

\* Mutant: the clock read before the beat is taken to be later.
WrappingStalled(now, at, silence, stage_done) ==
  ~stage_done /\ at # 0 /\ (now - at) % Wrap > silence

heartbeat_stalled(now, at, silence, stage_done) ==
  ~stage_done /\ at # 0 /\ ~(now < at) /\ (now - at) % Wrap > silence
-------------------------------------------------------------------------------
PaceInit ==
  /\ clock = 1
  /\ beat = 0 /\ done = 0 /\ over = 0 /\ overruns = 0 /\ fault = 0
  /\ pacing \in BOOLEAN /\ flagged \in BOOLEAN
  /\ stage = [pc |-> "read", mark |-> 0, started |-> 0, wake |-> 0]
  /\ watch = [pc |-> "loop", now |-> 0, done |-> 0]
  /\ late = FALSE
  /\ cycle = [start |-> 0, overrun |-> FALSE]

Silent(at, slot, ended) == ended = 0 /\ slot # 0 /\ at - slot > stall_limit_ns

Tick ==
  /\ clock < MaxClock
  /\ clock' = clock + 1
  /\ late' = (late \/ Silent(clock', beat, done))
  /\ UNCHANGED <<beat, done, over, overruns, fault, pacing, flagged, stage, watch, cycle>>

\* beat(): the clock is read, and stored a step later.
ReadBeat ==
  /\ stage.pc = "read"
  /\ stage' = [stage EXCEPT !.pc = "store", !.mark = clock]
  /\ UNCHANGED <<clock, beat, done, over, overruns, fault, pacing, flagged, watch, late, cycle>>

StoreBeat ==
  /\ stage.pc = "store"
  /\ beat' = stage.mark
  /\ stage' = [stage EXCEPT !.pc = "start"]
  /\ late' = (late \/ Silent(clock, beat', done))
  /\ UNCHANGED <<clock, done, over, overruns, fault, pacing, flagged, watch, cycle>>

StartWork ==
  /\ stage.pc = "start"
  /\ stage' = [stage EXCEPT !.pc = "work", !.started = clock]
  /\ UNCHANGED <<clock, beat, done, over, overruns, fault, pacing, flagged, watch, late, cycle>>

\* finish_cycle: an overrun is counted and not slept on.
FinishCycle ==
  LET spent == budget(clock - stage.started, Period)
  IN  /\ stage.pc = "work"
      /\ overruns' = IF spent.overrun THEN overruns + 1 ELSE overruns
      /\ IF pacing /\ spent.sleep_ns > 0
         THEN stage' = [stage EXCEPT !.pc = "sleep", !.wake = clock + spent.sleep_ns]
         ELSE stage' = [stage EXCEPT !.pc = "read", !.wake = clock]
      /\ cycle' = [start |-> stage.started, overrun |-> spent.overrun]
      /\ UNCHANGED <<clock, beat, done, over, fault, pacing, flagged, watch, late>>

Wake ==
  /\ stage.pc = "sleep" /\ clock >= stage.wake
  /\ stage' = [stage EXCEPT !.pc = "read"]
  /\ UNCHANGED <<clock, beat, done, over, overruns, fault, pacing, flagged, watch, late, cycle>>

\* The stage's input has ended, or it is told to stop: it leaves its loop and
\* says so.  What the snapshot thread stores ends the watchdog as well.
StageDone ==
  /\ stage.pc \in {"read", "work"}
  /\ done' = 1
  /\ over' = IF flagged THEN over ELSE 1
  /\ stage' = [stage EXCEPT !.pc = "ended"]
  /\ UNCHANGED <<clock, beat, overruns, fault, pacing, flagged, watch, late, cycle>>

\* The other stages end too: the last of them stores snapshot_done.
PipelineOver ==
  /\ done = 1 /\ over = 0 /\ over' = 1
  /\ UNCHANGED <<clock, beat, done, overruns, fault, pacing, flagged, stage, watch, late, cycle>>

\* The watchdog's iteration, in its order of reads.
WatchLoop ==
  /\ watch.pc = "loop"
  /\ watch' = [watch EXCEPT !.pc = IF over = 1 THEN "left" ELSE "now"]
  /\ UNCHANGED <<clock, beat, done, over, overruns, fault, pacing, flagged, stage, late, cycle>>

WatchNow ==
  /\ watch.pc = "now"
  /\ watch' = [watch EXCEPT !.pc = "done", !.now = clock]
  /\ UNCHANGED <<clock, beat, done, over, overruns, fault, pacing, flagged, stage, late, cycle>>

WatchDone ==
  /\ watch.pc = "done"
  /\ watch' = [watch EXCEPT !.pc = "beat", !.done = IF flagged THEN done ELSE 0]
  /\ UNCHANGED <<clock, beat, done, over, overruns, fault, pacing, flagged, stage, late, cycle>>

\* Mutant: the clock is read once, before the loop.
WatchBeatOnce ==
  /\ watch.pc = "beat"
  /\ fault' = IF heartbeat_stalled(watch.now, beat, stall_limit_ns, watch.done = 1)
              THEN 1 ELSE fault
  /\ watch' = [watch EXCEPT !.pc = "done"]
  /\ UNCHANGED <<clock, beat, done, over, overruns, pacing, flagged, stage, late, cycle>>

WatchBeat ==
  /\ watch.pc = "beat"
  /\ fault' = IF heartbeat_stalled(watch.now, beat, stall_limit_ns, watch.done = 1)
              THEN 1 ELSE fault
  /\ watch' = [pc |-> "loop", now |-> 0, done |-> 0]
  /\ UNCHANGED <<clock, beat, done, over, overruns, pacing, flagged, stage, late, cycle>>

Watchdog == WatchLoop \/ WatchNow \/ WatchDone \/ WatchBeat

PaceNext ==
  \/ Tick \/ Watchdog
  \/ ReadBeat \/ StoreBeat \/ StartWork \/ FinishCycle \/ Wake \/ StageDone \/ PipelineOver

PaceSpec == PaceInit /\ [][PaceNext]_paceVars /\ WF_paceVars(Tick) /\ WF_paceVars(Watchdog)
-------------------------------------------------------------------------------
\* The watchdog raises fault only over a stage that really was silent beyond
\* the limit while it was still responsible for beating.  The clock is read
\* first and the heartbeat last, so a beat newer than the clock reading, a
\* stage that finishes meanwhile and a preempted watchdog are not stalls.  The
\* snapshot thread alone may be accused after it has ended: its flag is read at
\* the head of the loop only, before the clock.
FaultJustified == fault = 1 => late \/ (~flagged /\ done = 1)

\* Cycles start at least one period apart when the process is paced, except
\* after a cycle that overran, which is counted: an overrun is never made
\* longer by a sleep and a cycle in time never starts the next one early.
CyclesPaced ==
  stage.pc = "work" /\ cycle.start # 0 /\ pacing
    => cycle.overrun \/ stage.started - cycle.start >= Period

\* A stage that stays silent beyond the limit is noticed: the fault is raised
\* unless the stage beats again or ends.
SilenceNoticed ==
  (clock = MaxClock /\ Silent(clock, beat, done))
    ~> (fault = 1 \/ ~Silent(clock, beat, done))
==============================================================================
