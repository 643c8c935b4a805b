-------------------------------- MODULE Fleet --------------------------------
(* The position integrator of fleet.cpp.  The integer widths and the         *)
(* nanoseconds of a second are constants: TLC runs scaled-down ones, the     *)
(* theorems of ComputeProofs cover the real ones.                            *)
EXTENDS Types

CONSTANTS INT32_MAX, INT64_MAX,
          Second,      \* 1000000000
          Samples,     \* the records offered to integrate
          Steps,       \* the dt_ns it is called with
          MaxSteps     \* bound: accepted samples of one source

INT32_MIN == -INT32_MAX - 1
INT64_MIN == -INT64_MAX - 1
Int32 == INT32_MIN .. INT32_MAX
Int64 == INT64_MIN .. INT64_MAX

\* The wide type holds twice the range of a position.
ASSUME FleetAssumption ==
  /\ INT32_MAX \in Nat /\ INT64_MAX \in Nat /\ Second \in Nat \ {0, 1}
  /\ 2 * (INT32_MAX + 1) <= INT64_MAX /\ MaxSteps \in Nat
  /\ Samples \subseteq {r \in Record : /\ r.pos_x \in Int32 /\ r.pos_y \in Int32
                                       /\ r.vel_x \in Int32 /\ r.vel_y \in Int32}
  /\ Steps \subseteq Int64

VARIABLES fleet,     \* FleetSoA: one row per source
          result,    \* the last integrate's status
          wide,      \* every int64 value it computed
          path       \* per source: where integration began, the exact travel
                     \* since in mm * Second, and the steps taken

fleetVars == <<fleet, result, wide, path>>

Ids == 0 .. kMaxSources - 1
EmptyFleetRow == [valid |-> FALSE, pos_x |-> 0, pos_y |-> 0, vel_x |-> 0, vel_y |-> 0,
                  sequence |-> 0, time_ns |-> 0]
NoPath == [from_x |-> 0, from_y |-> 0, x |-> 0, y |-> 0, steps |-> 0]
-------------------------------------------------------------------------------
\* Integer division of C++: toward zero.
Truncated(a, b) == IF a >= 0 THEN a \div b ELSE -((-a) \div b)

Mag(vel) == IF vel > 0 THEN vel ELSE -vel

\* Mutant: the limit is compared with the wrong strictness.
LaxTooFar(vel, dt) == vel # 0 /\ dt > INT64_MAX \div Mag(vel) + 1

\* The product is refused before it is computed.
TooFar(vel, dt) == vel # 0 /\ dt > INT64_MAX \div Mag(vel)

StepTo(pos, vel, dt) == pos + Truncated(vel * dt, Second)

\* Mutant: only the upper limit of the position is checked.
HalfStep(pos, vel, dt) == ~TooFar(vel, dt) /\ StepTo(pos, vel, dt) <= INT32_MAX

\* What step() returns, and the int64 values it computes on the way.
step(pos, vel, dt) == ~TooFar(vel, dt) /\ StepTo(pos, vel, dt) \in Int32

StepWide(pos, vel, dt) ==
  {Mag(vel)} \cup (IF TooFar(vel, dt) THEN {}
                   ELSE {vel * dt, Truncated(vel * dt, Second), StepTo(pos, vel, dt)})
-------------------------------------------------------------------------------
FleetInit ==
  /\ fleet = [id \in Ids |-> EmptyFleetRow]
  /\ result = "Ok"
  /\ wide = {}
  /\ path = [id \in Ids |-> NoPath]

\* The two early returns.
Refuse(sample, dt) ==
  /\ sample.source_id >= kMaxSources \/ dt < 0
  /\ result' = IF sample.source_id >= kMaxSources THEN "BadSource" ELSE "BadDt"
  /\ wide' = {}
  /\ UNCHANGED <<fleet, path>>

\* Mutant: every sample restarts from the position it reports.
ReportedBase(id, held, offered) == offered

Base(id, held, offered) == IF fleet[id].valid THEN held ELSE offered

\* Both axes are stepped before either is stored.
Move(sample, dt) ==
  LET id == sample.source_id
      base_x == Base(id, fleet[id].pos_x, sample.pos_x)
      base_y == Base(id, fleet[id].pos_y, sample.pos_y)
      fits == step(base_x, sample.vel_x, dt) /\ step(base_y, sample.vel_y, dt)
  IN  /\ id < kMaxSources /\ dt >= 0 /\ path[id].steps < MaxSteps
      /\ wide' = StepWide(base_x, sample.vel_x, dt)
                   \cup (IF step(base_x, sample.vel_x, dt)
                         THEN StepWide(base_y, sample.vel_y, dt) ELSE {})
      /\ result' = IF fits THEN "Ok" ELSE "OutOfRange"
      /\ fleet' = IF fits
                  THEN [fleet EXCEPT ![id] =
                          [valid |-> TRUE,
                           pos_x |-> StepTo(base_x, sample.vel_x, dt),
                           pos_y |-> StepTo(base_y, sample.vel_y, dt),
                           vel_x |-> sample.vel_x, vel_y |-> sample.vel_y,
                           sequence |-> sample.sequence, time_ns |-> sample.time_ns]]
                  ELSE fleet
      /\ path' = IF fits
                 THEN [path EXCEPT ![id] =
                         [from_x |-> IF @.steps = 0 THEN sample.pos_x ELSE @.from_x,
                          from_y |-> IF @.steps = 0 THEN sample.pos_y ELSE @.from_y,
                          x |-> @.x + sample.vel_x * dt, y |-> @.y + sample.vel_y * dt,
                          steps |-> @.steps + 1]]
                 ELSE path

FleetNext == \E sample \in Samples, dt \in Steps : Refuse(sample, dt) \/ Move(sample, dt)

FleetSpec == FleetInit /\ [][FleetNext]_fleetVars
-------------------------------------------------------------------------------
FleetTypeOK ==
  /\ result \in IntegrateStatus
  /\ \A id \in Ids : fleet[id].pos_x \in Int32 /\ fleet[id].pos_y \in Int32

\* integrate never computes a value outside int64_t, whatever position, speed
\* and step it is given: the guard on INT64_MAX / mag refuses the product
\* before it can overflow.
NoOverflow == wide \subseteq Int64

Near(pos, from, exact, steps) ==
  LET error == exact - Second * (pos - from)
  IN  error < Second * steps /\ -error < Second * steps

\* A row is where its first accepted sample put it plus the exact travel of
\* every accepted sample, less than a millimetre per sample off (each divide
\* truncates): no sample is counted twice or on one axis only, a refused one
\* leaves no trace, and later samples do not reset the position.
PositionIsPath ==
  \A id \in Ids :
    IF fleet[id].valid
    THEN /\ Near(fleet[id].pos_x, path[id].from_x, path[id].x, path[id].steps)
         /\ Near(fleet[id].pos_y, path[id].from_y, path[id].y, path[id].steps)
    ELSE fleet[id] = EmptyFleetRow /\ path[id].steps = 0
==============================================================================
