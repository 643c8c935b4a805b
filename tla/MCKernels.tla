------------------------------ MODULE MCKernels ------------------------------
(* Frame: records at both ends of their fields, and every damage of one bit  *)
(* or of two neighbouring bytes' masks.  Fleet: 4-bit positions and 8-bit    *)
(* products, so that every limit is crossed.  Pace: a period of one tick and *)
(* a clock that runs past the stall limit.  Triple buffer: two parts, four   *)
(* publishes, two deaths.                                                    *)
EXTENDS Kernels, TLC

Rec(id, seq, t, x, y, vx, vy) ==
  [source_id |-> id, sequence |-> seq, time_ns |-> t,
   pos_x |-> x, pos_y |-> y, vel_x |-> vx, vel_y |-> vy]

MCSenders ==
  {Rec(0, 65536, 2147483647, 255, -256, 65535, -65537),
   Rec(1, 2147483647, -1, -2147483647 - 1, 2147483647, -1, 256)}

Bits == {1, 2, 4, 8, 16, 32, 64, 128}
MCDamages ==
  {n :> b : n \in 1 .. 38, b \in Bits}
    \cup {(n :> m[1]) @@ ((n + 1) :> m[2]) : n \in 1 .. 37, m \in {<<1, 128>>, <<255, 255>>}}
    \cup {(n :> 1) @@ ((n + 2) :> 1) : n \in 1 .. 36}

MCSamples ==
  {Rec(0, 1, 1, 0, 0, 1, -8), Rec(0, 1, 1, 7, -8, 3, -3), Rec(0, 1, 1, 7, -8, 7, -8),
   Rec(1, 2, 2, 5, -5, -1, 2), Rec(2, 3, 3, 0, 0, 0, 0)}
MCSteps == {-1, 0, 5, 15, 16, 18, 19, 127}
==============================================================================
