------------------------------- MODULE MCEcu -------------------------------
(***************************************************************************)
(* The ECU with a car at rest and at full throttle, the lever between two   *)
(* positions.  The heartbeat task shares no variable with the others, and  *)
(* the info task only the mutex: once the tasks run, a behaviour follows    *)
(* the messages, or lever, pedals and bus faults, or the info task on a     *)
(* car that does not change, which spares their product.                   *)
(***************************************************************************)
EXTENDS Ecu

VARIABLE scene

McInputs == {[gear |-> 40, throttle |-> 0, brake |-> 1023],
             [gear |-> 0, throttle |-> 1023, brake |-> 456]}

McVars == <<ecuVars, scene>>
Moving == scene = "drive" /\ UNCHANGED scene
Driving == scene \in {"drive", "watch"} /\ UNCHANGED scene
Talking == scene = "talk" /\ UNCHANGED scene
Watching == scene = "watch" /\ UNCHANGED scene

McInit == EcuInit /\ scene \in {"drive", "talk", "watch"}

McNext ==
    \/ (Main \/ vApplicationIPNetworkEventHook) /\ UNCHANGED scene
    \/ Moving /\ Environment
    \/ Driving /\ (Shifter \/ Sensor)
    \/ Watching /\ Info
    \/ Talking /\ (Peer \/ CanRx)

McSpec ==
    /\ McInit /\ [][McNext]_McVars
    /\ WF_McVars(Main /\ UNCHANGED scene)
    /\ WF_McVars(Driving /\ Shifter) /\ SF_McVars(Driving /\ ReadGearNow)
    /\ WF_McVars(Driving /\ Sensor) /\ SF_McVars(Driving /\ SensorReceives)
    /\ WF_McVars(Watching /\ Info) /\ WF_McVars(Talking /\ CanRx)
=============================================================================
