---------------------------- MODULE MCDashboard ----------------------------
(***************************************************************************)
(* The two sketches of the dashboard.  They share nothing but the          *)
(* simulator, so a behaviour follows one of them: the cluster, or the      *)
(* needle without "x" commands, or the needle with one "x" and fewer       *)
(* speeds, which spares the products.                                      *)
(***************************************************************************)
EXTENDS InstrumentCluster, Speedometer

VARIABLE scene

McHeads == {[speed |-> 40, fuel |-> 20], [speed |-> -1, fuel |-> 100]}
McTails == {[gear |-> 10, lamps |-> {"abs"}, headlights |-> 2, signals |-> {"left"},
             brake |-> TRUE],
            [gear |-> 255, lamps |-> {}, headlights |-> 1, signals |-> {"right"},
             brake |-> FALSE]}
McStrayHead == [speed |-> 2000, fuel |-> -1]
McStrayTail == [gear |-> 77, lamps |-> {"esc"}, headlights |-> 7, signals |-> {},
                brake |-> FALSE]

McVars == <<clusterVars, speedVars, scene>>
FewSpeeds == {0, 120}

Cluster(A) == A /\ scene = "cluster" /\ UNCHANGED <<speedVars, scene>>
Needle(A) == A /\ scene \in {"lines", "zeroed"} /\ UNCHANGED <<clusterVars, scene>>
Sends(ls) == \E l \in ls : Receive(l)
Commanded ==
    \/ scene = "lines" /\ (Sends(Lines \ {X}) \/ \E v \in Speeds : HoldSpeed(v))
    \/ scene = "zeroed" /\ (Sends(FewSpeeds \union {R, X}) \/ \E v \in FewSpeeds : HoldSpeed(v))

McInit == ClusterInit /\ SpeedometerInit /\ scene \in {"cluster", "lines", "zeroed"}
McNext ==
    \/ Cluster(MainLoop) \/ Cluster(blink_signal) \/ Cluster(Simulator) \/ Cluster(Tick)
    \/ Needle(HandleLine) \/ Needle(MotorStops) \/ Needle(LeftButton) \/ Needle(Commanded)

McSpec ==
    /\ McInit /\ [][McNext]_McVars
    /\ WF_McVars(Cluster(MainLoop)) /\ WF_McVars(Cluster(blink_signal)) /\ WF_McVars(Cluster(Tick))
    /\ WF_McVars(Needle(HandleLine \/ MotorStops))
    /\ WF_McVars(Needle(steady # {} /\ ~turning /\ Sends(steady)))
=============================================================================
