------------------------------- MODULE Layout --------------------------------
(* The shared mapping (layout.hpp, shm_control.hpp, supervisor_state.hpp)    *)
(* that the processes of one pipeline attach to, and what the operating      *)
(* system knows of those processes.                                          *)
(*                                                                           *)
(* The lock-free structures appear here as what they are shown to implement: *)
(* the ring as a bounded FIFO (SpscRing), latest[] and window[] as registers *)
(* (Seqlock), the snapshot buffer as a register with a fresh mark            *)
(* (TripleBuffer).                                                           *)
EXTENDS Integers, Sequences

CONSTANTS kMaxSources,  \* ids are 0 .. kMaxSources - 1
          Replay,       \* the replay file: a sequence of Frames
          RingSlots     \* records the ring holds: kRingCapacity - 1

Sources == 0 .. kMaxSources - 1

\* A frame of the file: the source it names, whether decode_frame accepts it,
\* and whether integrate accepts the record.  A record is its frame's number.
Frames == [id : Sources, decodes : BOOLEAN, fits : BOOLEAN]
Records == 1 .. Len(Replay)

ASSUME LayoutAssumption ==
  /\ kMaxSources \in Nat \ {0}
  /\ Replay \in Seq(Frames)
  /\ RingSlots \in Nat \ {0}

Roles == {"ingest", "compute", "publish"}
Stages == {"fast", "window", "snapshot"}

VARIABLES control,     \* ShmControl
          ring,        \* records pushed and not yet popped
          latest,      \* latest[id]: SourceState
          window,      \* window[id]: WindowState
          snapshots,   \* the snapshot buffer: last one published, and fresh
          proc         \* each child: not spawned, running, killed, or its exit code

\* A row of latest or window: how many records of its source the fast stage
\* has published, the last of them, and (for the properties only) the
\* generation that published it.  Positions are left to Fleet.
Row == [publishes : Nat, sequence : Nat, by : Nat]
EmptyRow == [publishes |-> 0, sequence |-> 0, by |-> 0]
EmptyRows == [id \in Sources |-> EmptyRow]
Snapshot == [generation : Nat, rows : [Sources -> Row]]
EmptySnapshot == [generation |-> 0, rows |-> EmptyRows]

\* A heartbeat as the watchdog sees it: never stored, recent, or older than
\* the stall limit.
Beats == {"zero", "recent", "old"}
NoBeats == [s \in Stages |-> "zero"]

\* The control block of a new mapping (shm_create constructs the Layout).
FreshControl ==
  [shutdown |-> 0, generation |-> 1, ingest_done |-> 0, fast_done |-> 0,
   window_done |-> 0, snapshot_done |-> 0, compute_done |-> 0, fault |-> 0,
   heartbeat |-> NoBeats]

LayoutInit ==
  /\ control = FreshControl
  /\ ring = <<>>
  /\ latest = EmptyRows
  /\ window = EmptyRows
  /\ snapshots = [last |-> EmptySnapshot, fresh |-> FALSE]
  /\ proc = [r \in Roles |-> "none"]

Stopped == control.shutdown = 1

\* heartbeat_<stage>.store(now)
Beat(c, stage) == [c EXCEPT !.heartbeat[stage] = "recent"]

ProcStates == {"none", "run", "killed", "exit0", "exit1", "exit2", "exit3"}
Running(r) == proc[r] = "run"
Exit(r, code) == proc' = [proc EXCEPT ![r] = code]

Flag == {0, 1}

LayoutTypeOK ==
  /\ control \in [shutdown : Flag, generation : Nat, ingest_done : Flag,
                  fast_done : Flag, window_done : Flag, snapshot_done : Flag,
                  compute_done : Flag, fault : Flag, heartbeat : [Stages -> Beats]]
  /\ ring \in Seq(Records) /\ Len(ring) <= RingSlots
  /\ latest \in [Sources -> Row]
  /\ window \in [Sources -> Row]
  /\ snapshots \in [last : Snapshot, fresh : BOOLEAN]
  /\ proc \in [Roles -> ProcStates]
==============================================================================
