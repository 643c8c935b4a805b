------------------------------- MODULE Kernels -------------------------------
(* The kernels that stand alone, side by side: a behaviour exercises one of  *)
(* them.  They share no state, so nothing is gained by interleaving them.    *)
EXTENDS Frame, Fleet, Pace, TripleBuffer

VARIABLE kernel   \* the one this behaviour exercises

kernelVars == <<kernel, frameVars, fleetVars, paceVars, vars>>

KernelsInit ==
  /\ kernel \in {"frame", "fleet", "pace", "buffer"}
  /\ FrameInit /\ FleetInit /\ PaceInit /\ Init
  /\ kernel # "pace" => pacing /\ flagged   \* of no account to the others

OnlyPace == kernel = "pace" /\ UNCHANGED <<kernel, frameVars, fleetVars, vars>>

KernelsNext ==
  \/ kernel = "frame" /\ FrameNext /\ UNCHANGED <<kernel, fleetVars, paceVars, vars>>
  \/ kernel = "fleet" /\ FleetNext /\ UNCHANGED <<kernel, frameVars, paceVars, vars>>
  \/ PaceNext /\ OnlyPace
  \/ kernel = "buffer" /\ Next /\ UNCHANGED <<kernel, frameVars, fleetVars, paceVars>>

KernelsSpec ==
  /\ KernelsInit /\ [][KernelsNext]_kernelVars
  /\ WF_kernelVars(Tick /\ OnlyPace)
  /\ WF_kernelVars(Watchdog /\ OnlyPace)

KernelsTypeOK == FrameTypeOK /\ FleetTypeOK
==============================================================================
