-------------------------------- MODULE Types --------------------------------
(* The record, its bounds and the result codes of types.hpp.                 *)
EXTENDS Integers

CONSTANT kMaxSources   \* ids are 0 .. kMaxSources - 1

ASSUME TypesAssumption == kMaxSources \in Nat \ {0}

kSchemaVersion == 3
kFrameMagic == 41308   \* 0xA15C
kFrameBytes == 38

Record == [source_id : Nat, sequence : Nat, time_ns : Int,
           pos_x : Int, pos_y : Int, vel_x : Int, vel_y : Int]

ParseStatus == {"Ok", "Truncated", "BadMagic", "BadVersion", "BadSource", "BadChecksum"}
IntegrateStatus == {"Ok", "BadSource", "BadDt", "OutOfRange"}
==============================================================================
