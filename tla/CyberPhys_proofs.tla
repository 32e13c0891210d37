-------------------------- MODULE CyberPhys_proofs --------------------------
(***************************************************************************)
(* The cyberPhys session and the update server that runs on its target,    *)
(* proved in two parts.                                                    *)
(*                                                                         *)
(* CyberPhysMain: the end of a session, for every number of targets and of *)
(* restarts: no put finds its queue full, and when startCyberPhys returns  *)
(* nobody else runs.                                                       *)
(*                                                                         *)
(* UpdateServer: the connections of the update server and the update it    *)
(* builds up, for every number of clients and of places, and any requests and*)
(* signals.                                                                *)
(***************************************************************************)
EXTENDS CyberPhysMain, UpdateServer, SequenceTheorems, FiniteSetTheorems, WellFoundedInduction,
        TLAPS

(* The session                                                             *)

(* How far main is with ending the others.                                 *)
Took      == main \in {"endHeartbeat", "endShell", "join", "endComponents", "returned"}
Told      == main \in {"endShell", "join", "endComponents", "returned"}
ToldShell == main \in {"join", "endComponents", "returned"}

One(b) == IF b THEN 1 ELSE 0

(* Who has been started, and that main's loops stay in the list.           *)
Early == {"construct", "threads", "raised"}
Begun ==
    /\ heartbeat = "none" <=> main \in Early
    /\ interact = "none" <=> main \in Early \cup {"start", "ready", "shell"}
    /\ endInteract = "none" <=> interact = "none"
    /\ main \notin Early => next \in Component

(* Every item of a queue is that of somebody who has put it, less those    *)
(* that were taken: one from the heartbeat, one from the shell, of which   *)
(* main takes one; one for the heartbeat; one from main and one from the   *)
(* shell, of which endInteract takes one.                                  *)
PutsCounted ==
    /\ heartbeatQueue = One(Told)
    /\ cyberPhysQueue + One(Took) = One(heartbeat = "done") + One(interact = "done")
    /\ Len(interactorQueue) + One(endInteract = "done")
          = One(ToldShell) + One(interact \in {"join", "report", "done"})

(* The heartbeat ends only when told, so the item that main waits for is   *)
(* the shell's, whose helpers are over by then.                            *)
ShellFirst ==
    /\ heartbeat \in {"report", "done"} => Told
    /\ interact \in {"cmdloop", "raised"} => sender = "running"
    /\ interact \in {"put", "join", "report", "done"} => sender = "ended"
    /\ interact \in {"report", "done"} => endInteract = "done"
    /\ Took => interact = "done"

(* The components are joined one after the other.                          *)
InTurn ==
    /\ main \in {"endComponents", "returned"} => heartbeat = "done"
    /\ main = "endComponents" =>
          \A c \in Target : next = 0 \/ c < next => component[c] = "ended"
    /\ main = "returned" => \A c \in Component : component[c] = "ended"

SessionInductive == SessionTypeOK /\ Begun /\ PutsCounted /\ ShellFirst /\ InTurn

(* The capacities of the queues leave room for what PutsCounted counts.        *)
LEMMA Sizes ==
    /\ NTargets \in Nat /\ NTargets >= 1
    /\ Target = 1 .. NTargets /\ Component = 0 .. NTargets
    /\ \A c : c \in Component <=> c = 0 \/ c \in Target
    /\ CyberPhysQueueMax \in Nat /\ CyberPhysQueueMax >= 2
    /\ HeartbeatQueueMax = 1 /\ InteractorQueueMax = 2
  BY NTargetsAssumption DEF Target, Component, CyberPhysQueueMax, HeartbeatQueueMax, InteractorQueueMax

(* The list of the components goes on within itself.                       *)
LEMMA FollowingIn ==
    ASSUME NEW c \in Component
    PROVE  Following(c) \in Component
  BY Sizes DEF Following

(* Nobody runs and every queue is empty.                                   *)
LEMMA InitKeeps == SessionInit => SessionInductive
  <1> SUFFICES ASSUME SessionInit PROVE SessionInductive
    OBVIOUS
  <1> USE DEF SessionInit
  <1>1. SessionTypeOK
    <2>1. /\ component \in [Component -> {"none"}] /\ stopEvt \in [Component -> BOOLEAN]
          /\ received \in [Component -> Seq(Component)] /\ interactorQueue \in Seq({"main", "interact"})
          /\ Len(interactorQueue) = 0
      OBVIOUS
    <2>2. 0 \in 0 .. MaxCmds /\ 1 \in 0 .. NTargets + 1 /\ 0 \in 0 .. CyberPhysQueueMax
          /\ 0 \in 0 .. HeartbeatQueueMax /\ 0 <= InteractorQueueMax
      BY Sizes, MaxCmdsAssumption
    <2>3. component \in [Component -> {"none", "constructed", "started", "running",
                                       "handling", "leaving", "ended"}]
      OBVIOUS
    <2> QED BY <2>1, <2>2, <2>3 DEF SessionTypeOK
  <1>2. Begun
    BY DEF Begun, Early
  <1>3. PutsCounted
    BY DEF PutsCounted, One, Told, Took, ToldShell
  <1>4. ShellFirst
    BY DEF ShellFirst, Took
  <1>5. InTurn
    BY DEF InTurn
  <1> QED BY <1>1, <1>2, <1>3, <1>4, <1>5 DEF SessionInductive

-----------------------------------------------------------------------------
(* The main thread.                                                        *)
LEMMA ConstructWatchdogKeeps ==
    ASSUME SessionInductive, ConstructWatchdog
    PROVE  SessionInductive'
  <1> USE DEF ConstructWatchdog, SessionInductive
  <1>1. SessionTypeOK'
    <2>1. CASE portBound
      BY <2>1, Sizes DEF SessionTypeOK, queues, shell
    <2>2. CASE ~ portBound
      <3>1. portBound' \in BOOLEAN
        BY <2>2, Zenon
      <3>2. /\ main' \in {"threads", "construct"} /\ next' \in 0 .. NTargets + 1
            /\ component' = [component EXCEPT ![next] = "constructed"]
            /\ UNCHANGED <<heartbeat, interact, endInteract, sender, stopEvt, received, cyberPhysQueue,
                           heartbeatQueue, interactorQueue, cmds, exited>>
        BY <2>2, Sizes DEF queues, shell
      <3>3. component' \in [Component -> {"none", "constructed", "started", "running",
                                          "handling", "leaving", "ended"}]
        BY <3>2, Sizes DEF SessionTypeOK
      <3> QED BY <3>1, <3>2, <3>3 DEF SessionTypeOK
    <2> QED BY <2>1, <2>2
  <1>2. Begun'
    BY Sizes DEF Begun, Early, SessionTypeOK, queues, shell
  <1>3. PutsCounted'
    BY Sizes DEF PutsCounted, One, Told, Took, ToldShell, SessionTypeOK, Begun, ShellFirst, queues, shell
  <1>4. ShellFirst'
    BY Sizes DEF ShellFirst, Took, Told, PutsCounted, One, SessionTypeOK, Begun, queues, shell
  <1>5. InTurn'
    BY Sizes DEF InTurn, SessionTypeOK, Begun, ShellFirst, queues, shell
  <1> QED BY <1>1, <1>2, <1>3, <1>4, <1>5

LEMMA StartThreadsKeeps ==
    ASSUME SessionInductive, StartThreads
    PROVE  SessionInductive'
  <1> USE DEF StartThreads, SessionInductive
  <1>1. SessionTypeOK'
    BY Sizes DEF SessionTypeOK, queues, shell
  <1>2. Begun'
    BY Sizes DEF Begun, Early, SessionTypeOK, queues, shell
  <1>3. PutsCounted'
    BY Sizes DEF PutsCounted, One, Told, Took, ToldShell, SessionTypeOK, Begun, ShellFirst, queues, shell
  <1>4. ShellFirst'
    BY Sizes DEF ShellFirst, Took, Told, PutsCounted, One, SessionTypeOK, Begun, queues, shell
  <1>5. InTurn'
    BY Sizes DEF InTurn, SessionTypeOK, Begun, ShellFirst, queues, shell
  <1> QED BY <1>1, <1>2, <1>3, <1>4, <1>5

LEMMA StartComponentKeeps ==
    ASSUME SessionInductive, StartComponent
    PROVE  SessionInductive'
  <1> USE DEF StartComponent, SessionInductive
  <1>1. SessionTypeOK'
    <2>1. component' \in [Component -> {"none", "constructed", "started", "running",
                                        "handling", "leaving", "ended"}]
      BY DEF SessionTypeOK
    <2>2. UNCHANGED <<next, heartbeat, interact, endInteract, sender, stopEvt, received, portBound,
                      cyberPhysQueue, heartbeatQueue, interactorQueue, cmds, exited>>
      BY DEF queues, shell
    <2> QED BY <2>1, <2>2 DEF SessionTypeOK
  <1>2. Begun'
    BY Sizes DEF Begun, Early, SessionTypeOK, queues, shell
  <1>3. PutsCounted'
    BY Sizes DEF PutsCounted, One, Told, Took, ToldShell, SessionTypeOK, Begun, ShellFirst, queues, shell
  <1>4. ShellFirst'
    BY Sizes DEF ShellFirst, Took, Told, PutsCounted, One, SessionTypeOK, Begun, queues, shell
  <1>5. InTurn'
    BY Sizes DEF InTurn, SessionTypeOK, Begun, ShellFirst, queues, shell
  <1> QED BY <1>1, <1>2, <1>3, <1>4, <1>5

LEMMA AwaitReadyKeeps ==
    ASSUME SessionInductive, AwaitReady
    PROVE  SessionInductive'
  <1> USE DEF AwaitReady, SessionInductive
  <1>1. SessionTypeOK'
    <2>1. next \in Component /\ next' \in Component
      BY FollowingIn DEF Begun, Early
    <2>2. next' \in 0 .. NTargets + 1
      BY <2>1, Sizes
    <2> QED BY <2>2 DEF SessionTypeOK, queues, comps, shell
  <1>2. Begun'
    BY Sizes DEF Begun, Early, SessionTypeOK, queues, comps, shell, Following
  <1>3. PutsCounted'
    BY Sizes DEF PutsCounted, One, Told, Took, ToldShell, SessionTypeOK, Begun, ShellFirst, queues, comps, shell
  <1>4. ShellFirst'
    BY Sizes DEF ShellFirst, Took, Told, PutsCounted, One, SessionTypeOK, Begun, queues, comps, shell
  <1>5. InTurn'
    BY Sizes DEF InTurn, SessionTypeOK, Begun, ShellFirst, queues, comps, shell, Following
  <1> QED BY <1>1, <1>2, <1>3, <1>4, <1>5

LEMMA StartShellKeeps ==
    ASSUME SessionInductive, StartShell
    PROVE  SessionInductive'
  <1> USE DEF StartShell, SessionInductive
  <1>1. SessionTypeOK'
    BY Sizes DEF SessionTypeOK, queues, comps, shell
  <1>2. Begun'
    BY Sizes DEF Begun, Early, SessionTypeOK, queues, comps, shell
  <1>3. PutsCounted'
    BY Sizes DEF PutsCounted, One, Told, Took, ToldShell, SessionTypeOK, Begun, ShellFirst, queues, comps, shell
  <1>4. ShellFirst'
    BY Sizes DEF ShellFirst, Took, Told, PutsCounted, One, SessionTypeOK, Begun, queues, comps, shell
  <1>5. InTurn'
    BY Sizes DEF InTurn, SessionTypeOK, Begun, ShellFirst, queues, comps, shell
  <1> QED BY <1>1, <1>2, <1>3, <1>4, <1>5

LEMMA AwaitEndKeeps ==
    ASSUME SessionInductive, AwaitEnd
    PROVE  SessionInductive'
  <1> USE DEF AwaitEnd, SessionInductive
  <1>1. SessionTypeOK'
    BY Sizes DEF SessionTypeOK, comps, shell
  <1>2. Begun'
    BY Sizes DEF Begun, Early, SessionTypeOK, comps, shell
  <1>3. PutsCounted'
    BY Sizes DEF PutsCounted, One, Told, Took, ToldShell, SessionTypeOK, Begun, ShellFirst, comps, shell
  <1>4. ShellFirst'
    BY Sizes DEF ShellFirst, Took, Told, PutsCounted, One, SessionTypeOK, Begun, comps, shell
  <1>5. InTurn'
    BY Sizes DEF InTurn, SessionTypeOK, Begun, ShellFirst, comps, shell
  <1> QED BY <1>1, <1>2, <1>3, <1>4, <1>5

LEMMA EndHeartbeatKeeps ==
    ASSUME SessionInductive, EndHeartbeat
    PROVE  SessionInductive'
  <1> USE DEF EndHeartbeat, SessionInductive
  <1>1. SessionTypeOK'
    BY Sizes DEF SessionTypeOK, comps, shell
  <1>2. Begun'
    BY Sizes DEF Begun, Early, SessionTypeOK, comps, shell
  <1>3. PutsCounted'
    BY Sizes DEF PutsCounted, One, Told, Took, ToldShell, SessionTypeOK, Begun, ShellFirst, comps, shell
  <1>4. ShellFirst'
    BY Sizes DEF ShellFirst, Took, Told, PutsCounted, One, SessionTypeOK, Begun, comps, shell
  <1>5. InTurn'
    BY Sizes DEF InTurn, SessionTypeOK, Begun, ShellFirst, comps, shell
  <1> QED BY <1>1, <1>2, <1>3, <1>4, <1>5

LEMMA EndShellKeeps ==
    ASSUME SessionInductive, EndShell
    PROVE  SessionInductive'
  <1> USE DEF EndShell, SessionInductive
  <1>1. SessionTypeOK'
    BY Sizes DEF SessionTypeOK, comps, shell
  <1>2. Begun'
    BY Sizes DEF Begun, Early, SessionTypeOK, comps, shell
  <1>3. PutsCounted'
    BY Sizes DEF PutsCounted, One, Told, Took, ToldShell, SessionTypeOK, Begun, ShellFirst, comps, shell
  <1>4. ShellFirst'
    BY Sizes DEF ShellFirst, Took, Told, PutsCounted, One, SessionTypeOK, Begun, comps, shell
  <1>5. InTurn'
    BY Sizes DEF InTurn, SessionTypeOK, Begun, ShellFirst, comps, shell
  <1> QED BY <1>1, <1>2, <1>3, <1>4, <1>5

LEMMA JoinThreadsKeeps ==
    ASSUME SessionInductive, JoinThreads
    PROVE  SessionInductive'
  <1> USE DEF JoinThreads, SessionInductive
  <1>1. SessionTypeOK'
    BY Sizes DEF SessionTypeOK, queues, comps, shell
  <1>2. Begun'
    BY Sizes DEF Begun, Early, SessionTypeOK, queues, comps, shell
  <1>3. PutsCounted'
    BY Sizes DEF PutsCounted, One, Told, Took, ToldShell, SessionTypeOK, Begun, ShellFirst, queues, comps, shell
  <1>4. ShellFirst'
    BY Sizes DEF ShellFirst, Took, Told, PutsCounted, One, SessionTypeOK, Begun, queues, comps, shell
  <1>5. InTurn'
    BY Sizes DEF InTurn, SessionTypeOK, Begun, ShellFirst, queues, comps, shell
  <1> QED BY <1>1, <1>2, <1>3, <1>4, <1>5

LEMMA StopComponentKeeps ==
    ASSUME SessionInductive, StopComponent
    PROVE  SessionInductive'
  <1> USE DEF StopComponent, SessionInductive
  <1>1. SessionTypeOK'
    <2>1. stopEvt' \in [Component -> BOOLEAN]
      BY DEF SessionTypeOK
    <2>2. UNCHANGED <<main, next, heartbeat, interact, endInteract, sender, component, received, portBound,
                      cyberPhysQueue, heartbeatQueue, interactorQueue, cmds, exited>>
      BY DEF queues, shell
    <2> QED BY <2>1, <2>2 DEF SessionTypeOK
  <1>2. Begun'
    BY Sizes DEF Begun, Early, SessionTypeOK, queues, shell
  <1>3. PutsCounted'
    BY Sizes DEF PutsCounted, One, Told, Took, ToldShell, SessionTypeOK, Begun, ShellFirst, queues, shell
  <1>4. ShellFirst'
    BY Sizes DEF ShellFirst, Took, Told, PutsCounted, One, SessionTypeOK, Begun, queues, shell
  <1>5. InTurn'
    BY Sizes DEF InTurn, SessionTypeOK, Begun, ShellFirst, queues, shell
  <1> QED BY <1>1, <1>2, <1>3, <1>4, <1>5

LEMMA EndComponentKeeps ==
    ASSUME SessionInductive, EndComponent
    PROVE  SessionInductive'
  <1> USE DEF EndComponent, SessionInductive
  <1>1. SessionTypeOK'
    <2>1. next \in Component /\ next' \in Component
      BY FollowingIn DEF Begun, Early
    <2>2. next' \in 0 .. NTargets + 1
      BY <2>1, Sizes
    <2> QED BY <2>2 DEF SessionTypeOK, queues, comps, shell
  <1>2. Begun'
    BY Sizes DEF Begun, Early, SessionTypeOK, queues, comps, shell, Following
  <1>3. PutsCounted'
    BY Sizes DEF PutsCounted, One, Told, Took, ToldShell, SessionTypeOK, Begun, ShellFirst, queues, comps, shell
  <1>4. ShellFirst'
    BY Sizes DEF ShellFirst, Took, Told, PutsCounted, One, SessionTypeOK, Begun, queues, comps, shell
  <1>5. InTurn'
    BY Sizes DEF InTurn, SessionTypeOK, Begun, ShellFirst, queues, comps, shell, Following
  <1> QED BY <1>1, <1>2, <1>3, <1>4, <1>5

-----------------------------------------------------------------------------
(* heartBeatListener.                                                      *)
LEMMA HeartbeatSeesEndKeeps ==
    ASSUME SessionInductive, HeartbeatSeesEnd
    PROVE  SessionInductive'
  <1> USE DEF HeartbeatSeesEnd, SessionInductive
  <1>1. SessionTypeOK'
    BY Sizes DEF SessionTypeOK, queues, comps, shell
  <1>2. Begun'
    BY Sizes DEF Begun, Early, SessionTypeOK, queues, comps, shell
  <1>3. PutsCounted'
    BY Sizes DEF PutsCounted, One, Told, Took, ToldShell, SessionTypeOK, Begun, ShellFirst, queues, comps, shell
  <1>4. ShellFirst'
    BY Sizes DEF ShellFirst, Took, Told, PutsCounted, One, SessionTypeOK, Begun, queues, comps, shell
  <1>5. InTurn'
    BY Sizes DEF InTurn, SessionTypeOK, Begun, ShellFirst, queues, comps, shell
  <1> QED BY <1>1, <1>2, <1>3, <1>4, <1>5

LEMMA HeartbeatReportsKeeps ==
    ASSUME SessionInductive, HeartbeatReports
    PROVE  SessionInductive'
  <1> USE DEF HeartbeatReports, SessionInductive
  <1>1. SessionTypeOK'
    BY Sizes DEF SessionTypeOK, comps, shell
  <1>2. Begun'
    BY Sizes DEF Begun, Early, SessionTypeOK, comps, shell
  <1>3. PutsCounted'
    BY Sizes DEF PutsCounted, One, Told, Took, ToldShell, SessionTypeOK, Begun, ShellFirst, comps, shell
  <1>4. ShellFirst'
    BY Sizes DEF ShellFirst, Took, Told, PutsCounted, One, SessionTypeOK, Begun, comps, shell
  <1>5. InTurn'
    BY Sizes DEF InTurn, SessionTypeOK, Begun, ShellFirst, comps, shell
  <1> QED BY <1>1, <1>2, <1>3, <1>4, <1>5

-----------------------------------------------------------------------------
(* The shell and its helpers.                                              *)
LEMMA DoExitKeeps ==
    ASSUME SessionInductive, DoExit
    PROVE  SessionInductive'
  <1> USE DEF DoExit, SessionInductive
  <1>1. SessionTypeOK'
    BY Sizes DEF SessionTypeOK, queues, comps
  <1>2. Begun'
    BY Sizes DEF Begun, Early, SessionTypeOK, queues, comps
  <1>3. PutsCounted'
    BY Sizes DEF PutsCounted, One, Told, Took, ToldShell, SessionTypeOK, Begun, ShellFirst, queues, comps
  <1>4. ShellFirst'
    BY Sizes DEF ShellFirst, Took, Told, PutsCounted, One, SessionTypeOK, Begun, queues, comps
  <1>5. InTurn'
    BY Sizes DEF InTurn, SessionTypeOK, Begun, ShellFirst, queues, comps
  <1> QED BY <1>1, <1>2, <1>3, <1>4, <1>5

LEMMA SenderEndsKeeps ==
    ASSUME SessionInductive, SenderEnds
    PROVE  SessionInductive'
  <1> USE DEF SenderEnds, SessionInductive
  <1>1. SessionTypeOK'
    BY Sizes DEF SessionTypeOK, queues, comps
  <1>2. Begun'
    BY Sizes DEF Begun, Early, SessionTypeOK, queues, comps
  <1>3. PutsCounted'
    BY Sizes DEF PutsCounted, One, Told, Took, ToldShell, SessionTypeOK, Begun, ShellFirst, queues, comps
  <1>4. ShellFirst'
    BY Sizes DEF ShellFirst, Took, Told, PutsCounted, One, SessionTypeOK, Begun, queues, comps
  <1>5. InTurn'
    BY Sizes DEF InTurn, SessionTypeOK, Begun, ShellFirst, queues, comps
  <1> QED BY <1>1, <1>2, <1>3, <1>4, <1>5

LEMMA PostloopKeeps ==
    ASSUME SessionInductive, Postloop
    PROVE  SessionInductive'
  <1> USE DEF Postloop, SessionInductive
  <1>1. SessionTypeOK'
    BY Sizes DEF SessionTypeOK, queues, comps
  <1>2. Begun'
    BY Sizes DEF Begun, Early, SessionTypeOK, queues, comps
  <1>3. PutsCounted'
    BY Sizes DEF PutsCounted, One, Told, Took, ToldShell, SessionTypeOK, Begun, ShellFirst, queues, comps
  <1>4. ShellFirst'
    BY Sizes DEF ShellFirst, Took, Told, PutsCounted, One, SessionTypeOK, Begun, queues, comps
  <1>5. InTurn'
    BY Sizes DEF InTurn, SessionTypeOK, Begun, ShellFirst, queues, comps
  <1> QED BY <1>1, <1>2, <1>3, <1>4, <1>5

LEMMA InteractPutsKeeps ==
    ASSUME SessionInductive, InteractPuts
    PROVE  SessionInductive'
  <1> USE DEF InteractPuts, SessionInductive
  <1>1. SessionTypeOK'
    BY Sizes DEF SessionTypeOK, comps
  <1>2. Begun'
    BY Sizes DEF Begun, Early, SessionTypeOK, comps
  <1>3. PutsCounted'
    BY Sizes DEF PutsCounted, One, Told, Took, ToldShell, SessionTypeOK, Begun, ShellFirst, comps
  <1>4. ShellFirst'
    BY Sizes DEF ShellFirst, Took, Told, PutsCounted, One, SessionTypeOK, Begun, comps
  <1>5. InTurn'
    BY Sizes DEF InTurn, SessionTypeOK, Begun, ShellFirst, comps
  <1> QED BY <1>1, <1>2, <1>3, <1>4, <1>5

LEMMA EndInteractGetsKeeps ==
    ASSUME SessionInductive, EndInteractGets
    PROVE  SessionInductive'
  <1> USE DEF EndInteractGets, SessionInductive
  <1>1. SessionTypeOK'
    BY Sizes DEF SessionTypeOK, comps
  <1>2. Begun'
    BY Sizes DEF Begun, Early, SessionTypeOK, comps
  <1>3. PutsCounted'
    BY Sizes DEF PutsCounted, One, Told, Took, ToldShell, SessionTypeOK, Begun, ShellFirst, comps
  <1>4. ShellFirst'
    BY Sizes DEF ShellFirst, Took, Told, PutsCounted, One, SessionTypeOK, Begun, comps
  <1>5. InTurn'
    BY Sizes DEF InTurn, SessionTypeOK, Begun, ShellFirst, comps
  <1> QED BY <1>1, <1>2, <1>3, <1>4, <1>5

LEMMA InteractJoinsKeeps ==
    ASSUME SessionInductive, InteractJoins
    PROVE  SessionInductive'
  <1> USE DEF InteractJoins, SessionInductive
  <1>1. SessionTypeOK'
    BY Sizes DEF SessionTypeOK, queues, comps
  <1>2. Begun'
    BY Sizes DEF Begun, Early, SessionTypeOK, queues, comps
  <1>3. PutsCounted'
    BY Sizes DEF PutsCounted, One, Told, Took, ToldShell, SessionTypeOK, Begun, ShellFirst, queues, comps
  <1>4. ShellFirst'
    BY Sizes DEF ShellFirst, Took, Told, PutsCounted, One, SessionTypeOK, Begun, queues, comps
  <1>5. InTurn'
    BY Sizes DEF InTurn, SessionTypeOK, Begun, ShellFirst, queues, comps
  <1> QED BY <1>1, <1>2, <1>3, <1>4, <1>5

LEMMA InteractReportsKeeps ==
    ASSUME SessionInductive, InteractReports
    PROVE  SessionInductive'
  <1> USE DEF InteractReports, SessionInductive
  <1>1. SessionTypeOK'
    BY Sizes DEF SessionTypeOK, comps
  <1>2. Begun'
    BY Sizes DEF Begun, Early, SessionTypeOK, comps
  <1>3. PutsCounted'
    BY Sizes DEF PutsCounted, One, Told, Took, ToldShell, SessionTypeOK, Begun, ShellFirst, comps
  <1>4. ShellFirst'
    BY Sizes DEF ShellFirst, Took, Told, PutsCounted, One, SessionTypeOK, Begun, comps
  <1>5. InTurn'
    BY Sizes DEF InTurn, SessionTypeOK, Begun, ShellFirst, comps
  <1> QED BY <1>1, <1>2, <1>3, <1>4, <1>5

LEMMA DoRestartKeeps ==
    ASSUME SessionInductive, DoRestart
    PROVE  SessionInductive'
  <1> USE DEF DoRestart, SessionInductive
  <1>1. SessionTypeOK'
    <2>1. PICK id \in Component, reached \in SUBSET Component :
             received' = [c \in Component |-> IF c \in reached THEN Append(received[c], id) ELSE received[c]]
      OBVIOUS
    <2>2. ASSUME NEW c \in Component
          PROVE  (IF c \in reached THEN Append(received[c], id) ELSE received[c]) \in Seq(Component)
      <3>1. received[c] \in Seq(Component)
        BY DEF SessionTypeOK
      <3> QED BY <3>1, AppendProperties
    <2> DEFINE got(c) == IF c \in reached THEN Append(received[c], id) ELSE received[c]
    <2>3. received' = [c \in Component |-> got(c)] /\ \A c \in Component : got(c) \in Seq(Component)
      BY <2>1, <2>2
    <2> HIDE DEF got
    <2>4. received' \in [Component -> Seq(Component)]
      BY <2>3, Zenon
    <2>5. cmds' \in 0 .. MaxCmds
      BY MaxCmdsAssumption DEF SessionTypeOK
    <2>6. UNCHANGED <<main, next, heartbeat, interact, endInteract, sender, component, stopEvt,
                      portBound, cyberPhysQueue, heartbeatQueue, interactorQueue, exited>>
      BY DEF queues, shell
    <2> QED BY <2>4, <2>5, <2>6 DEF SessionTypeOK
  <1>2. Begun'
    BY Sizes DEF Begun, Early, SessionTypeOK, queues, shell
  <1>3. PutsCounted'
    BY Sizes DEF PutsCounted, One, Told, Took, ToldShell, SessionTypeOK, Begun, ShellFirst, queues, shell
  <1>4. ShellFirst'
    BY Sizes DEF ShellFirst, Took, Told, PutsCounted, One, SessionTypeOK, Begun, queues, shell
  <1>5. InTurn'
    BY Sizes DEF InTurn, SessionTypeOK, Begun, ShellFirst, queues, shell
  <1> QED BY <1>1, <1>2, <1>3, <1>4, <1>5

LEMMA DoRestartInvalidKeeps ==
    ASSUME SessionInductive, DoRestartInvalid
    PROVE  SessionInductive'
  <1> USE DEF DoRestartInvalid, SessionInductive
  <1>1. SessionTypeOK'
    BY Sizes DEF SessionTypeOK, queues, comps
  <1>2. Begun'
    BY Sizes DEF Begun, Early, SessionTypeOK, queues, comps
  <1>3. PutsCounted'
    BY Sizes DEF PutsCounted, One, Told, Took, ToldShell, SessionTypeOK, Begun, ShellFirst, queues, comps
  <1>4. ShellFirst'
    BY Sizes DEF ShellFirst, Took, Told, PutsCounted, One, SessionTypeOK, Begun, queues, comps
  <1>5. InTurn'
    BY Sizes DEF InTurn, SessionTypeOK, Begun, ShellFirst, queues, comps
  <1> QED BY <1>1, <1>2, <1>3, <1>4, <1>5

-----------------------------------------------------------------------------
(* The components' threads.                                                *)
LEMMA ComponentRunsKeeps ==
    ASSUME SessionInductive, NEW c \in Component, ComponentRuns(c)
    PROVE  SessionInductive'
  <1> USE DEF ComponentRuns, SessionInductive
  <1>1. SessionTypeOK'
    BY Sizes DEF SessionTypeOK, queues, shell
  <1>2. Begun'
    BY Sizes DEF Begun, Early, SessionTypeOK, queues, shell
  <1>3. PutsCounted'
    BY Sizes DEF PutsCounted, One, Told, Took, ToldShell, SessionTypeOK, queues, shell
  <1>4. ShellFirst'
    BY Sizes DEF ShellFirst, Took, Told, SessionTypeOK, queues, shell
  <1>5. InTurn'
    BY Sizes DEF InTurn, SessionTypeOK, queues, shell
  <1> QED BY <1>1, <1>2, <1>3, <1>4, <1>5

LEMMA ReceivesKeeps ==
    ASSUME SessionInductive, NEW c \in Component, Receives(c)
    PROVE  SessionInductive'
  <1> USE DEF Receives, SessionInductive
  <1>1. SessionTypeOK'
    BY Sizes DEF SessionTypeOK, queues, shell, Resumed
  <1>2. Begun'
    BY Sizes DEF Begun, Early, SessionTypeOK, queues, shell
  <1>3. PutsCounted'
    BY Sizes DEF PutsCounted, One, Told, Took, ToldShell, SessionTypeOK, queues, shell
  <1>4. ShellFirst'
    BY Sizes DEF ShellFirst, Took, Told, SessionTypeOK, queues, shell
  <1>5. InTurn'
    BY Sizes DEF InTurn, SessionTypeOK, queues, shell, Resumed
  <1> QED BY <1>1, <1>2, <1>3, <1>4, <1>5

LEMMA HandlesKeeps ==
    ASSUME SessionInductive, NEW c \in Component, Handles(c)
    PROVE  SessionInductive'
  <1> USE DEF Handles, SessionInductive
  <1>1. SessionTypeOK'
    BY Sizes DEF SessionTypeOK, queues, comps, shell, Resumed, Exit
  <1>2. Begun'
    BY Sizes DEF Begun, Early, SessionTypeOK, queues, comps, shell, Exit
  <1>3. PutsCounted'
    <2>1. UNCHANGED <<main, heartbeat, interact, endInteract, cyberPhysQueue, heartbeatQueue,
                      interactorQueue>>
      BY DEF queues, comps, shell, Exit
    <2> QED BY <2>1 DEF PutsCounted, Told, Took, ToldShell
  <1>4. ShellFirst'
    BY Sizes DEF ShellFirst, Took, Told, SessionTypeOK, queues, comps, shell, Exit
  <1>5. InTurn'
    BY Sizes DEF InTurn, SessionTypeOK, queues, comps, shell, Exit, Resumed
  <1> QED BY <1>1, <1>2, <1>3, <1>4, <1>5

LEMMA ComponentEndsKeeps ==
    ASSUME SessionInductive, NEW c \in Component, ComponentEnds(c)
    PROVE  SessionInductive'
  <1> USE DEF ComponentEnds, SessionInductive
  <1>1. SessionTypeOK'
    BY Sizes DEF SessionTypeOK, queues, shell
  <1>2. Begun'
    BY Sizes DEF Begun, Early, SessionTypeOK, queues, shell
  <1>3. PutsCounted'
    BY Sizes DEF PutsCounted, One, Told, Took, ToldShell, SessionTypeOK, queues, shell
  <1>4. ShellFirst'
    BY Sizes DEF ShellFirst, Took, Told, SessionTypeOK, queues, shell
  <1>5. InTurn'
    BY Sizes DEF InTurn, SessionTypeOK, queues, shell
  <1> QED BY <1>1, <1>2, <1>3, <1>4, <1>5

-----------------------------------------------------------------------------
(* The tool's exit leaves everything where it was.                         *)
LEMMA ExitKeeps ==
    ASSUME SessionInductive, Exit
    PROVE  SessionInductive'
  <1>1. UNCHANGED <<main, next, heartbeat, interact, endInteract, sender, component, stopEvt, received,
                    portBound, cyberPhysQueue, heartbeatQueue, interactorQueue, cmds>>
        /\ exited' \in BOOLEAN
    BY DEF Exit, queues, comps, shell
  <1> QED BY <1>1 DEF SessionInductive, SessionTypeOK, Begun, PutsCounted, Told, Took, ToldShell, ShellFirst, InTurn

(* Every step keeps the invariant.                                         *)
LEMMA StepKeeps ==
    ASSUME SessionInductive, [SessionNext]_sessionVars
    PROVE  SessionInductive'
  <1>1. CASE UNCHANGED sessionVars
    BY <1>1 DEF sessionVars, queues, comps, shell, SessionInductive, SessionTypeOK, Begun, PutsCounted, Told, Took, ToldShell,
                ShellFirst, InTurn
  <1>2. CASE MainStep
    BY <1>2, ConstructWatchdogKeeps, StartThreadsKeeps, StartComponentKeeps, AwaitReadyKeeps,
       StartShellKeeps, AwaitEndKeeps, EndHeartbeatKeeps, EndShellKeeps, JoinThreadsKeeps,
       StopComponentKeeps, EndComponentKeeps DEF MainStep
  <1>3. CASE HeartbeatFails \/ HeartbeatStep
    BY <1>3, HeartbeatSeesEndKeeps, HeartbeatReportsKeeps, ExitKeeps DEF HeartbeatFails, HeartbeatStep
  <1>4. CASE DoExit \/ DoRestart \/ DoRestartInvalid
    BY <1>4, DoExitKeeps, DoRestartKeeps, DoRestartInvalidKeeps
  <1>5. CASE ShellStep \/ EndInteractGets \/ SenderEnds
    BY <1>5, PostloopKeeps, InteractPutsKeeps, InteractJoinsKeeps, InteractReportsKeeps,
       EndInteractGetsKeeps, SenderEndsKeeps DEF ShellStep
  <1>6. ASSUME NEW c \in Component, ComponentStep(c) PROVE SessionInductive'
    BY <1>6, ComponentRunsKeeps, ReceivesKeeps, HandlesKeeps, ComponentEndsKeeps DEF ComponentStep
  <1> QED BY <1>1, <1>2, <1>3, <1>4, <1>5, <1>6 DEF SessionNext, Act, Stopped

LEMMA InductiveKept == SessionSpec => []SessionInductive
  BY InitKeeps, StepKeeps, PTL DEF SessionSpec

(* Main, the shell and the heartbeat put into bounded queues without a     *)
(* time-out, and each waits for the others to end; no put ever finds its   *)
(* queue full, however many targets there are (cyberPhys/launch.py:60-118, *)
(* interactive.py).                                                        *)
THEOREM SessionCorrect == SessionSpec => []SessionInv
  <1>1. SessionInductive => SessionInv
    <2> SUFFICES ASSUME SessionInductive PROVE SessionTypeOK /\ PutsNeverBlock
      BY DEF SessionInv
    <2>1. heartbeat = "report" \/ interact = "report" => cyberPhysQueue < CyberPhysQueueMax
      BY Sizes DEF SessionInductive, SessionTypeOK, PutsCounted, One
    <2>2. main = "endHeartbeat" => heartbeatQueue < HeartbeatQueueMax
      BY Sizes DEF SessionInductive, PutsCounted, One, Told
    <2>3. main = "endShell" \/ interact = "put" => Len(interactorQueue) < InteractorQueueMax
      BY Sizes DEF SessionInductive, SessionTypeOK, PutsCounted, One, ToldShell
    <2> QED BY <2>1, <2>2, <2>3 DEF SessionInductive, PutsNeverBlock
  <1> QED BY <1>1, InductiveKept, PTL

(* When startCyberPhys returns, the heartbeat, the shell with its helpers  *)
(* and every component have ended: the shutdown of the targets that comes  *)
(* next has them for itself (cyberPhys/launch.py:110-137).                 *)
THEOREM ReturnsAloneCorrect == SessionSpec => []ReturnsAlone
  <1>1. SessionInductive => ReturnsAlone
    BY DEF SessionInductive, ShellFirst, InTurn, Took, ReturnsAlone
  <1> QED BY <1>1, InductiveKept, PTL

-----------------------------------------------------------------------------
(* The update server                                                       *)

(* The pieces that a socket may hold.                                      *)
Received == {p.piece : p \in Pieces} \cup {[cmd |-> "rest"]}

(* The types, in parts, with what the runs need not say: a socket holds    *)
(* pieces, and a client that has a rest to send has sent one piece.        *)
ListTyped ==
    /\ pc \in [at : {"start", "poll", "accept", "done", "crashed"}, slot : {0}]
             \union [at : {"scan", "read", "upload"}, slot : Slot]
    /\ slot \in [Slot -> Client \union Uncleared]
    /\ revents \in [Slot -> {"IN", "ERR", "no"}]
    /\ found \in Uncleared
CountTyped ==
    /\ client_count \in -HSTATIC_MAX_CLIENTS - 1 .. HSTATIC_MAX_CLIENTS
    /\ signals \in Nat
    /\ signals = 0 => client_count >= -1
PeersTyped ==
    /\ peer \in [Client -> {"away", "backlog", "left", "open", "gone", "leaked"}]
    /\ inbox \in [Client -> Seq(Received)]
    /\ \A c \in Client : Len(inbox[c]) <= IF c \in later THEN 1 ELSE 2
    /\ waiting \subseteq Client /\ later \subseteq Client
FlagsTyped ==
    /\ ota_filename_ok \in BOOLEAN /\ ota_file_ok \in BOOLEAN
    /\ response \in BOOLEAN /\ listening \in BOOLEAN
FilesTyped ==
    /\ ota_filename \in Names \union {""}
    /\ files \in [Names -> Client \union {"absent", "short"}]
Typed == ListTyped /\ CountTyped /\ PeersTyped /\ FlagsTyped /\ FilesTyped

(* A client holds a place exactly while it is connected, and one only; the *)
(* places that no client holds are free, but for what malloc left.         *)
Seats ==
    /\ \A i \in Slot : slot[i] \in Client => peer[slot[i]] \in {"open", "gone"}
    /\ \A i, j \in Slot : slot[i] \in Client /\ slot[i] = slot[j] => i = j
    /\ \A c \in Client : peer[c] \in {"open", "gone"} => \E i \in Slot : slot[i] = c
    /\ \A i \in Slot : \/ slot[i] \in Client \cup {"free"}
                       \/ i = HSTATIC_MAX_CLIENTS /\ slot[i] = found

(* What poll reported is of a place that still holds who it held, and the  *)
(* place that is served has been looked at.                                *)
Reported ==
    /\ \A i \in Slot : /\ revents[i] = "IN" => slot[i] \in Client
                       /\ revents[i] = "ERR" => slot[i] \in Client \cup {"closed"}
    /\ pc.at \in {"read", "upload"} => slot[pc.slot] \in Client /\ revents[pc.slot] = "no"

(* The count is that of the clients' places, less one when the stray       *)
(* descriptor has been given up; after a signal it falls with each place   *)
(* that becomes free.                                                      *)
Held == {i \in Slot : slot[i] \in Client}
Occupied == {i \in Slot : slot[i] # "free"}
GivenUp == IF found = "closed" /\ \A i \in Slot : slot[i] # "closed" THEN 1 ELSE 0
Counted ==
    /\ pc.at = "start" \/ listening => signals = 0
    /\ signals = 0 => client_count = Cardinality(Held) - GivenUp
    /\ signals > 0 => /\ client_count \in Int /\ client_count <= 0
                      /\ Cardinality(Occupied) - HSTATIC_MAX_CLIENTS <= client_count
    /\ found = "free" => \A c \in Client : peer[c] # "leaked"

(* An upload is that of the client whose session it is, if anybody's.      *)
Building ==
    /\ session \in {NoSession} \cup [who : Client, stage : {"name", "file"}]
    /\ pc.at = "upload" => ota_filename \in Names /\ session.who \in {slot[pc.slot], "nobody"}
    /\ UpdatesAreWhole

Inductive == Typed /\ Seats /\ Reported /\ Counted /\ Building

(***************************************************************************)
(* Places and numbers.                                                     *)
(***************************************************************************)
LEMMA Places ==
    /\ HSTATIC_MAX_CLIENTS \in Nat /\ HSTATIC_MAX_CLIENTS >= 1
    /\ Slot = 1 .. HSTATIC_MAX_CLIENTS /\ Slot \subseteq Nat
    /\ IsFiniteSet(Slot) /\ Cardinality(Slot) = HSTATIC_MAX_CLIENTS
    /\ "free" \notin Client /\ "taken" \notin Client /\ "closed" \notin Client
    /\ "nobody" \notin Client
  <1>1. IsFiniteSet(1 .. HSTATIC_MAX_CLIENTS)
        /\ Cardinality(1 .. HSTATIC_MAX_CLIENTS) = HSTATIC_MAX_CLIENTS
    BY SlotsAssumption, FS_Interval
  <1> QED BY <1>1, SlotsAssumption, ClientAssumption DEF Slot

(* A set of places is finite and no larger than the list.                  *)
LEMMA PlacesCounted ==
    ASSUME NEW S \in SUBSET Slot
    PROVE  /\ IsFiniteSet(S) /\ Cardinality(S) \in Nat
           /\ Cardinality(S) <= HSTATIC_MAX_CLIENTS
           /\ Cardinality(S) = HSTATIC_MAX_CLIENTS => S = Slot
  BY Places, FS_Subset, FS_CardinalityType

(* Places that are not free at all come first in the search of accept.     *)
LEMMA Least ==
    ASSUME NEW S \in SUBSET Nat, S # {}
    PROVE  \E k \in S : \A j \in S : k <= j
  <1> DEFINE R == OpToRel(<, Nat)
  <1>1. \E k \in S : \A j \in S : ~ (<<j, k>> \in R)
    BY NatLessThanWellFounded, WFMin
  <1>2. \A j, k \in Nat : j < k => <<j, k>> \in R
    BY DEF OpToRel
  <1> HIDE DEF R
  <1>3. \A j, k \in S : ~ (<<j, k>> \in R) => k <= j
    BY <1>2
  <1> QED BY <1>1, <1>3

(* The scan goes on within the list.                                       *)
LEMMA BehindIn ==
    ASSUME NEW i \in Slot
    PROVE  Behind(i) = At("poll") \/ \E j \in Slot : Behind(i) = AtSlot("scan", j)
  BY Places DEF Behind

LEMMA BehindAt ==
    ASSUME NEW i \in Slot
    PROVE  /\ Behind(i) \in [at : {"poll"}, slot : {0}] \cup [at : {"scan"}, slot : Slot]
           /\ Behind(i).at \in {"poll", "scan"}
  BY Places DEF Behind, At, AtSlot

(***************************************************************************)
(* The count, when what it counts does not change or loses a place.        *)
(***************************************************************************)
LEMMA SameSeats ==
    ASSUME Inductive, UNCHANGED <<slot, found, peer, client_count, signals, listening>>,
           pc'.at = "start" => pc.at = "start"
    PROVE  Seats' /\ Counted'
  <1>1. Seats'
    BY DEF Inductive, Seats
  <1>2. Held' = Held /\ Occupied' = Occupied /\ GivenUp' = GivenUp
    BY DEF Held, Occupied, GivenUp
  <1>3. Counted'
    BY <1>2 DEF Inductive, Counted
  <1> QED BY <1>1, <1>3

LEMMA DisconnectKeeps ==
    ASSUME Inductive, NEW i \in Slot, Disconnect(i), slot[i] # "free",
           slot[i] \in Client \cup {"closed"}
    PROVE  Seats' /\ Counted'
  <1> USE DEF Inductive, Disconnect
  <1>1. /\ slot' = [slot EXCEPT ![i] = "free"] /\ slot \in [Slot -> Client \cup Uncleared]
        /\ peer \in [Client -> {"away", "backlog", "left", "open", "gone", "leaked"}]
        /\ found' = found /\ signals' = signals /\ listening' = listening
        /\ client_count' = client_count - 1
    BY DEF Typed, ListTyped, PeersTyped
  <1>2. slot[i] \in Client => peer' = [peer EXCEPT ![slot[i]] = "away"]
    OBVIOUS
  <1>3. slot[i] \notin Client => peer' = peer
    OBVIOUS
  <1>4. Seats'
    BY <1>1, <1>2, <1>3, Places DEF Seats
  <1>5. Occupied' = Occupied \ {i} /\ i \in Occupied
    BY <1>1 DEF Occupied
  <1>6. Cardinality(Occupied') = Cardinality(Occupied) - 1 /\ Cardinality(Occupied) \in Nat
    <2>1. Occupied \in SUBSET Slot
      BY DEF Occupied
    <2> QED BY <1>5, <2>1, PlacesCounted, FS_RemoveElement
  <1>7. Held' = Held \ {i}
    BY <1>1, Places DEF Held
  <1>8. Cardinality(Held') = IF slot[i] \in Client THEN Cardinality(Held) - 1 ELSE Cardinality(Held)
    <2>1. Held \in SUBSET Slot /\ (i \in Held <=> slot[i] \in Client)
      BY DEF Held
    <2> QED BY <1>7, <2>1, PlacesCounted, FS_RemoveElement
  <1>9. GivenUp' = IF slot[i] \in Client THEN GivenUp ELSE GivenUp + 1
    <2>1. CASE slot[i] \in Client
      BY <1>1, <2>1, Places DEF GivenUp, Seats
    <2>2. CASE slot[i] \notin Client
      <3>1. slot[i] = "closed" /\ i = HSTATIC_MAX_CLIENTS /\ found = "closed"
        BY <2>2, Places DEF Seats
      <3>2. \A j \in Slot : slot'[j] # "closed"
        BY <1>1, <3>1, Places DEF Seats
      <3> QED BY <1>1, <2>2, <3>1, <3>2 DEF GivenUp
    <2> QED BY <2>1, <2>2
  <1>10. Cardinality(Held) \in Nat /\ GivenUp \in Nat
    BY PlacesCounted DEF Held, GivenUp
  <1>11. pc'.at # "start"
    BY BehindAt
  <1>12. found' = "free" => \A c \in Client : peer'[c] # "leaked"
    BY <1>1, <1>2, <1>3 DEF Counted
  <1>13. pc'.at = "start" \/ listening' => signals' = 0
    BY <1>1, <1>11 DEF Counted
  <1>14. signals' = 0 => client_count' = Cardinality(Held') - GivenUp'
    BY <1>1, <1>8, <1>9, <1>10 DEF Counted
  <1>15. signals' > 0 => /\ client_count' \in Int /\ client_count' <= 0
                         /\ Cardinality(Occupied') - HSTATIC_MAX_CLIENTS <= client_count'
    BY <1>1, <1>6, Places DEF Counted
  <1> QED BY <1>4, <1>12, <1>13, <1>14, <1>15 DEF Counted

(* A client that is accepted takes the first of the free places; without a *)
(* signal the count says whether there is one, unless malloc left a stray. *)
LEMMA AcceptOneKeeps ==
    ASSUME Inductive, NEW c \in Calling, AcceptOne(c), listening, pc' = pc,
           client_count < HSTATIC_MAX_CLIENTS, UNCHANGED <<found, signals, listening>>
    PROVE  Seats' /\ Counted'
  <1> USE DEF Inductive
  <1>1. /\ slot \in [Slot -> Client \cup Uncleared] /\ FreeSlots \subseteq Slot
        /\ peer \in [Client -> {"away", "backlog", "left", "open", "gone", "leaked"}]
        /\ c \in Client /\ peer[c] \in {"backlog", "left"} /\ signals = 0
        /\ \A i \in Slot : slot[i] # c
    BY DEF Typed, ListTyped, PeersTyped, CountTyped, Calling, FreeSlots, Counted, Seats
  <1>2. CASE FreeSlots = {}
    <2>1. slot' = slot
      BY <1>1, <1>2 DEF AcceptOne, FreeSlots
    <2>2. peer' = [peer EXCEPT ![c] = "leaked"] /\ client_count' = client_count
      BY <1>2 DEF AcceptOne
    <2>3. Seats'
      BY <1>1, <2>1, <2>2 DEF Seats
    <2>4. Held' = Held /\ Occupied' = Occupied /\ GivenUp' = GivenUp
      BY <2>1 DEF Held, Occupied, GivenUp
    <2>5. found # "free"
      <3> SUFFICES ASSUME found = "free" PROVE FALSE
        OBVIOUS
      <3>1. Held = Slot
        BY <1>1, <1>2, Places DEF Held, FreeSlots, Seats
      <3>2. GivenUp = 0
        BY DEF GivenUp
      <3> QED BY <1>1, <3>1, <3>2, Places DEF Counted
    <2> QED BY <1>1, <2>2, <2>3, <2>4, <2>5 DEF Counted
  <1>3. CASE FreeSlots # {}
    <2>1. FreeSlots \in SUBSET Nat
      BY <1>1, Places
    <2>2. PICK k \in FreeSlots : \A j \in FreeSlots : k <= j
      BY <1>3, <2>1, Least
    <2>3. k \in Slot /\ slot[k] = "free"
      BY <2>2 DEF FreeSlots
    <2>4. slot' = [slot EXCEPT ![k] = c]
      <3>1. slot' = [i \in Slot |-> IF i = k THEN c ELSE slot[i]]
        <4>1. \A i \in Slot : (slot[i] = "free" /\ \A j \in FreeSlots : i <= j) <=> i = k
          BY <2>1, <2>2, <2>3, Places DEF FreeSlots
        <4> QED BY <4>1 DEF AcceptOne
      <3> QED BY <1>1, <3>1
    <2>5. /\ peer' = [peer EXCEPT ![c] = IF peer[c] = "left" THEN "gone" ELSE "open"]
          /\ client_count' = client_count + 1
      BY <1>3 DEF AcceptOne
    <2>6. Seats'
      BY <1>1, <2>3, <2>4, <2>5, Places DEF Seats
    <2>7. Held' = Held \cup {k} /\ k \notin Held
      BY <1>1, <2>3, <2>4, Places DEF Held
    <2>8. Cardinality(Held') = Cardinality(Held) + 1 /\ Cardinality(Held) \in Nat
      <3>1. Held \in SUBSET Slot
        BY DEF Held
      <3> QED BY <2>7, <3>1, PlacesCounted, FS_AddElement
    <2>9. GivenUp' = GivenUp /\ GivenUp \in Nat
      BY <1>1, <2>3, <2>4, Places DEF GivenUp
    <2>10. found' = "free" => \A d \in Client : peer'[d] # "leaked"
      BY <1>1, <2>5 DEF Counted
    <2> QED BY <1>1, <2>5, <2>6, <2>8, <2>9, <2>10 DEF Counted
  <1> QED BY <1>2, <1>3

(***************************************************************************)
(* The server's thread.                                                    *)
(***************************************************************************)
(* The update stays as it is while nobody touches it or begins an upload.  *)
LEMMA SameUpdate ==
    ASSUME Inductive, UNCHANGED otaVars, pc'.at # "upload" \/ (pc' = pc /\ slot' = slot)
    PROVE  Building'
  BY DEF Inductive, Building, otaVars, UpdatesAreWhole, BuiltUp, OnlyWholeFilesRun

LEMMA SamePeers ==
    ASSUME PeersTyped, UNCHANGED <<peer, inbox, waiting, later>>
    PROVE  PeersTyped'
  BY DEF PeersTyped

LEMMA ListenKeeps ==
    ASSUME Inductive, server_listen
    PROVE  Inductive'
  <1> USE DEF server_listen, pollVars, netVars, otaVars, At
  <1>1. ListTyped' /\ CountTyped'
    BY DEF Inductive, Typed, ListTyped, CountTyped
  <1>2. PeersTyped' /\ FilesTyped'
    BY SamePeers DEF Inductive, Typed, FilesTyped
  <1>3. FlagsTyped'
    BY DEF Inductive, Typed, FlagsTyped
  <1>4. Seats'
    BY DEF Inductive, Seats
  <1>5. Reported'
    BY DEF Inductive, Reported
  <1>6. Counted'
    BY DEF Inductive, Counted, Held, Occupied, GivenUp
  <1>7. Building'
    BY SameUpdate
  <1> QED BY <1>1, <1>2, <1>3, <1>4, <1>5, <1>6, <1>7 DEF Inductive, Typed

LEMMA PollKeeps ==
    ASSUME Inductive, Poll
    PROVE  Inductive'
  <1> USE DEF Poll, netVars, otaVars, At, AtSlot
  <1>1. ListTyped' /\ CountTyped'
    BY Places DEF Inductive, Typed, ListTyped, CountTyped
  <1>2. PeersTyped' /\ FilesTyped' /\ FlagsTyped'
    BY SamePeers DEF Inductive, Typed, FilesTyped, FlagsTyped
  <1>3. Seats' /\ Counted'
    BY SameSeats
  <1>4. Reported'
    <2>1. PICK ev \in [Slot -> {"IN", "ERR", "no"}] :
              (\A i \in Slot : ev[i] \in Event(slot[i])) /\ revents' = ev
      OBVIOUS
    <2>2. \A i \in Slot : /\ ev[i] = "IN" => slot[i] \in Client
                          /\ ev[i] = "ERR" => slot[i] \in Client \cup {"closed"}
      BY <2>1 DEF Event
    <2> QED BY <2>1, <2>2 DEF Reported
  <1>5. Building'
    BY SameUpdate
  <1> QED BY <1>1, <1>2, <1>3, <1>4, <1>5 DEF Inductive, Typed

LEMMA AcceptKeeps ==
    ASSUME Inductive, _accept_all
    PROVE  Inductive'
  <1> USE DEF _accept_all, netVars, otaVars, At, AtSlot
  <1>0. FlagsTyped' /\ FilesTyped'
    BY DEF Inductive, Typed, FilesTyped, FlagsTyped
  <1>1. CASE ~ (listening /\ client_count < HSTATIC_MAX_CLIENTS /\ Calling # {})
    <2>1. /\ UNCHANGED <<pollVars, peer, inbox, waiting, later, signals, listening, otaVars>>
          /\ pc' = [at |-> "crashed", slot |-> 0] \/ pc' = [at |-> "scan", slot |-> 1]
      BY <1>1
    <2> USE DEF pollVars
    <2>2. ListTyped' /\ CountTyped' /\ PeersTyped'
      BY <2>1, SamePeers, Places DEF Inductive, Typed, ListTyped, CountTyped
    <2>3. Seats' /\ Counted'
      BY <2>1, SameSeats
    <2>4. Reported'
      BY <2>1 DEF Inductive, Reported
    <2>5. Building'
      BY <2>1, SameUpdate
    <2> QED BY <1>0, <2>2, <2>3, <2>4, <2>5 DEF Inductive, Typed
  <1>2. CASE listening /\ client_count < HSTATIC_MAX_CLIENTS /\ Calling # {}
    <2>1. PICK c \in Calling : AcceptOne(c) /\ UNCHANGED <<pc, revents, found>>
      BY <1>2
    <2>2. Seats' /\ Counted'
      BY <1>2, <2>1, AcceptOneKeeps
    <2>3. c \in Client /\ peer[c] \in {"backlog", "left"}
      BY DEF Calling
    <2>4. ListTyped'
      BY <2>1, <2>3 DEF AcceptOne, Inductive, Typed, ListTyped
    <2>5. PeersTyped'
      <3>1. peer' = [peer EXCEPT ![c] = peer'[c]]
            /\ peer'[c] \in {"leaked", "gone", "open"}
        BY <2>1, <2>3 DEF AcceptOne, Inductive, Typed, PeersTyped
      <3> QED BY <3>1, <2>3 DEF Inductive, Typed, PeersTyped
    <2>6. CountTyped'
      <3>1. client_count' \in {client_count, client_count + 1}
        BY <2>1 DEF AcceptOne
      <3> QED BY <1>2, <3>1, Places DEF Inductive, Typed, CountTyped
    <2>7. Reported'
      <3>1. \A i \in Slot : slot[i] # "free" => slot'[i] = slot[i]
        BY <2>1 DEF AcceptOne
      <3> QED BY <1>2, <2>1, <3>1, Places DEF Inductive, Reported
    <2>8. Building'
      BY <2>1, SameUpdate
    <2> QED BY <1>0, <2>2, <2>4, <2>5, <2>6, <2>7, <2>8 DEF Inductive, Typed
  <1> QED BY <1>1, <1>2

LEMMA AcceptFailsKeeps ==
    ASSUME Inductive, AcceptFails
    PROVE  Inductive'
  <1> USE DEF AcceptFails, pollVars, netVars, otaVars, At
  <1>1. ListTyped' /\ CountTyped' /\ PeersTyped' /\ FilesTyped' /\ FlagsTyped'
    BY SamePeers DEF Inductive, Typed, ListTyped, CountTyped, FilesTyped, FlagsTyped
  <1>2. Seats' /\ Counted'
    BY SameSeats
  <1>3. Reported'
    BY DEF Inductive, Reported
  <1>4. Building'
    BY SameUpdate
  <1> QED BY <1>1, <1>2, <1>3, <1>4 DEF Inductive, Typed

(* A connection that is given up.                                          *)
LEMMA DisconnectTypes ==
    ASSUME Inductive, NEW i \in Slot, Disconnect(i), slot[i] # "free",
           slot[i] \in Client \cup {"closed"}, revents' \in [Slot -> {"IN", "ERR", "no"}]
    PROVE  ListTyped' /\ CountTyped' /\ PeersTyped' /\ FilesTyped'
  <1> USE DEF Inductive, Typed
  <1>1. ListTyped'
    <2>1. pc' \in [at : {"poll"}, slot : {0}] \cup [at : {"scan"}, slot : Slot]
      BY BehindAt DEF Disconnect
    <2> QED BY <2>1 DEF ListTyped, Disconnect, Uncleared
  <1>2. PeersTyped'
    <2>1. CASE slot[i] \in Client
      <3>1. << >> \in Seq(Received) /\ Len(<< >>) = 0
        BY EmptySeq
      <3>2. /\ peer' = [peer EXCEPT ![slot[i]] = "away"]
            /\ inbox' = [inbox EXCEPT ![slot[i]] = << >>]
            /\ waiting' = waiting \ {slot[i]} /\ later' = later
        BY <2>1 DEF Disconnect
      <3>3. \A c \in Client : Len(inbox'[c]) <= IF c \in later THEN 1 ELSE 2
        BY <3>1, <3>2 DEF PeersTyped
      <3> QED BY <2>1, <3>1, <3>2, <3>3 DEF PeersTyped
    <2>2. CASE slot[i] \notin Client
      <3>1. UNCHANGED <<peer, inbox, waiting, later>>
        BY <2>2 DEF Disconnect
      <3> QED BY <3>1, SamePeers
    <2> QED BY <2>1, <2>2
  <1>3. CountTyped'
    <2>1. Seats' /\ Counted'
      BY DisconnectKeeps
    <2>2. client_count' = client_count - 1 /\ signals' = signals
      BY DEF Disconnect
    <2>3. Held \in SUBSET Slot /\ Occupied \in SUBSET Slot
      BY DEF Held, Occupied
    <2>4. CASE signals = 0
      <3>1. Cardinality(Held') \in Nat /\ GivenUp' \in {0, 1}
        <4>1. Held' \in SUBSET Slot
          BY DEF Held
        <4> QED BY <4>1, PlacesCounted DEF GivenUp
      <3>2. client_count' >= -1
        BY <2>1, <2>2, <2>4, <3>1 DEF Counted
      <3> QED BY <2>2, <2>4, <3>2, Places DEF CountTyped
    <2>5. CASE signals # 0
      <3>1. Cardinality(Occupied') \in Nat
        <4>1. Occupied' \in SUBSET Slot
          BY DEF Occupied
        <4> QED BY <4>1, PlacesCounted
      <3>2. client_count' >= -HSTATIC_MAX_CLIENTS
        BY <2>1, <2>2, <2>5, <3>1, Places DEF Counted, CountTyped
      <3> QED BY <2>2, <2>5, <3>2, Places DEF CountTyped
    <2> QED BY <2>4, <2>5
  <1>4. FilesTyped'
    BY DEF FilesTyped, Disconnect, otaVars
  <1> QED BY <1>1, <1>2, <1>3, <1>4

LEMMA ScanKeeps ==
    ASSUME Inductive, NEW i \in Slot, Scan(i)
    PROVE  Inductive'
  <1> USE DEF Inductive, Typed
  <1>1. revents' = [revents EXCEPT ![i] = "no"] /\ revents' \in [Slot -> {"IN", "ERR", "no"}]
    BY DEF Scan, ListTyped
  <1>2. CASE revents[i] = "ERR" /\ Disconnect(i)
    <2>1. slot[i] \in Client \cup {"closed"} /\ slot[i] # "free"
      BY <1>2, Places DEF Reported
    <2>2. ListTyped' /\ CountTyped' /\ PeersTyped' /\ FilesTyped'
      BY <1>1, <1>2, <2>1, DisconnectTypes
    <2>3. FlagsTyped'
      BY <1>2 DEF FlagsTyped, Scan, Disconnect, otaVars
    <2>4. Seats' /\ Counted'
      BY <1>2, <2>1, DisconnectKeeps
    <2>5. pc'.at \notin {"read", "upload"}
      BY <1>2, BehindAt DEF Disconnect
    <2>6. Reported'
      BY <1>1, <1>2, <2>5 DEF Reported, Disconnect, ListTyped
    <2>7. Building'
      BY <1>2, <2>5, SameUpdate DEF Disconnect
    <2> QED BY <2>2, <2>3, <2>4, <2>6, <2>7
  <1>3. CASE ~ (revents[i] = "ERR" /\ Disconnect(i))
    <2>1. /\ revents[i] # "ERR"
          /\ pc' = IF revents[i] = "IN" THEN AtSlot("read", i) ELSE Behind(i)
          /\ UNCHANGED <<slot, client_count, found, listening, netVars, otaVars, signals, response>>
      BY <1>3 DEF Scan
    <2>2. /\ pc' \in [at : {"poll"}, slot : {0}] \cup [at : {"scan", "read"}, slot : Slot]
          /\ pc'.at \in {"poll", "scan", "read"}
      BY <2>1, BehindAt DEF AtSlot
    <2>3. ListTyped' /\ CountTyped'
      BY <1>1, <2>1, <2>2 DEF ListTyped, CountTyped
    <2>4. PeersTyped' /\ FilesTyped' /\ FlagsTyped'
      BY <2>1, SamePeers DEF FilesTyped, FlagsTyped, netVars, otaVars
    <2>5. Seats' /\ Counted'
      BY <2>1, <2>2, SameSeats DEF netVars
    <2>6. Reported'
      <3>1. \A j \in Slot : revents'[j] # "no" => revents'[j] = revents[j]
        BY <1>1 DEF ListTyped
      <3>2. pc'.at \in {"read", "upload"} => /\ pc'.slot = i /\ revents[i] = "IN"
        BY <2>1, <2>2, BehindAt DEF AtSlot
      <3>3. revents'[i] = "no"
        BY <1>1 DEF ListTyped
      <3> QED BY <2>1, <3>1, <3>2, <3>3 DEF Reported
    <2>7. Building'
      BY <2>1, <2>2, SameUpdate
    <2> QED BY <2>3, <2>4, <2>5, <2>6, <2>7
  <1> QED BY <1>2, <1>3

LEMMA HandlerEndsKeeps ==
    ASSUME Inductive, NEW i \in Slot, HandlerEnds(i)
    PROVE  Inductive'
  <1> USE DEF Inductive, Typed
  <1>1. slot[i] \in Client /\ revents[i] = "no" /\ pc = AtSlot("read", i) /\ slot[i] # "free"
    BY Places DEF HandlerEnds, Reported, AtSlot
  <1>2. revents' = revents /\ revents' \in [Slot -> {"IN", "ERR", "no"}]
    BY DEF HandlerEnds, ListTyped, pollVars
  <1>3. UNCHANGED otaVars /\ UNCHANGED listening /\ response' = FALSE
    BY DEF HandlerEnds, Disconnect
  <1>4. FlagsTyped' /\ FilesTyped'
    BY <1>3 DEF FlagsTyped, FilesTyped, otaVars
  <1>5. pc' = Behind(i)
    BY DEF HandlerEnds, Disconnect
  <1>6. pc'.at \in {"poll", "scan"}
    BY <1>5, BehindAt
  <1>7. CASE peer[slot[i]] = "gone"
    <2>1. Disconnect(i)
      BY <1>7 DEF HandlerEnds
    <2>2. ListTyped' /\ CountTyped' /\ PeersTyped'
      BY <1>1, <1>2, <2>1, DisconnectTypes
    <2>3. Seats' /\ Counted'
      BY <1>1, <2>1, DisconnectKeeps
    <2>4. Reported'
      BY <1>1, <1>2, <1>6, <2>1 DEF Reported, Disconnect, ListTyped
    <2>5. Building'
      BY <1>3, <1>6, SameUpdate
    <2> QED BY <1>4, <2>2, <2>3, <2>4, <2>5
  <1>8. CASE peer[slot[i]] # "gone"
    <2>1. /\ waiting' \in {waiting, waiting \ {slot[i]}}
          /\ UNCHANGED <<slot, revents, client_count, found, listening, peer, inbox, later, signals>>
      BY <1>8 DEF HandlerEnds, pollVars
    <2>2. ListTyped' /\ CountTyped'
      BY <1>5, <2>1, BehindAt DEF ListTyped, CountTyped
    <2>3. PeersTyped'
      BY <2>1 DEF PeersTyped
    <2>4. Seats' /\ Counted'
      BY <1>6, <2>1, SameSeats
    <2>5. Reported'
      BY <1>6, <2>1 DEF Reported
    <2>6. Building'
      BY <1>3, <1>6, SameUpdate
    <2> QED BY <1>4, <2>2, <2>3, <2>4, <2>5, <2>6
  <1> QED BY <1>7, <1>8

(***************************************************************************)
(* The requests of the client that is served.                              *)
(***************************************************************************)
(* A piece is taken from the socket; the list and the count stay.          *)
LEMMA TakingKeeps ==
    ASSUME Inductive, NEW i \in Slot, pc \in {AtSlot("read", i), AtSlot("upload", i)},
           inbox[slot[i]] # << >>, inbox' \in {inbox, [inbox EXCEPT ![slot[i]] = Tail(@)]},
           pc' \in {pc, AtSlot("read", i), AtSlot("upload", i)},
           UNCHANGED <<pollVars, listening, peer, later, waiting, signals>>
    PROVE  /\ slot[i] \in Client
           /\ ListTyped' /\ CountTyped' /\ PeersTyped' /\ Seats' /\ Counted' /\ Reported'
  <1> USE DEF Inductive, Typed, pollVars, AtSlot
  <1>1. slot[i] \in Client /\ revents[i] = "no"
    BY DEF Reported
  <1>2. ListTyped' /\ CountTyped'
    BY DEF ListTyped, CountTyped
  <1>3. PeersTyped'
    <2>1. CASE inbox' = inbox
      BY <2>1, SamePeers
    <2>2. CASE inbox' = [inbox EXCEPT ![slot[i]] = Tail(@)]
      <3>1. /\ Tail(inbox[slot[i]]) \in Seq(Received)
            /\ Len(Tail(inbox[slot[i]])) = Len(inbox[slot[i]]) - 1
        BY <1>1, HeadTailProperties DEF PeersTyped
      <3>2. Len(inbox[slot[i]]) \in Nat
        BY <1>1, LenProperties DEF PeersTyped
      <3> QED BY <1>1, <2>2, <3>1, <3>2 DEF PeersTyped
    <2> QED BY <2>1, <2>2
  <1>4. Seats' /\ Counted'
    BY SameSeats
  <1>5. Reported'
    BY <1>1 DEF Reported
  <1> QED BY <1>1, <1>2, <1>3, <1>4, <1>5

LEMMA PieceKeeps ==
    ASSUME Inductive, NEW i \in Slot, NEW cmd, Piece(i, cmd),
           pc' \in {pc, AtSlot("upload", i)}
    PROVE  /\ slot[i] \in Client
           /\ ListTyped' /\ CountTyped' /\ PeersTyped' /\ Seats' /\ Counted' /\ Reported'
           /\ pc.at = "read" /\ UNCHANGED slot /\ UNCHANGED listening
  <1>1. /\ pc = AtSlot("read", i) /\ inbox[slot[i]] # << >>
        /\ inbox' = [inbox EXCEPT ![slot[i]] = Tail(@)]
        /\ UNCHANGED <<pollVars, listening, peer, later, waiting, signals>>
    BY DEF Piece
  <1>2. /\ slot[i] \in Client
        /\ ListTyped' /\ CountTyped' /\ PeersTyped' /\ Seats' /\ Counted' /\ Reported'
    BY <1>1, TakingKeeps
  <1> QED BY <1>1, <1>2 DEF AtSlot, pollVars

LEMMA GetKeeps ==
    ASSUME Inductive, NEW i \in Slot, process_get(i) \/ Unanswered(i)
    PROVE  Inductive'
  <1> USE DEF Inductive, Typed
  <1>1. PICK cmd : Piece(i, cmd) /\ pc' = pc
    BY DEF process_get, Unanswered, Answers
  <1>2. /\ ListTyped' /\ CountTyped' /\ PeersTyped' /\ Seats' /\ Counted' /\ Reported'
        /\ UNCHANGED slot /\ UNCHANGED listening
    BY <1>1, PieceKeeps
  <1>3. UNCHANGED otaVars /\ response' \in {response, TRUE}
    BY DEF process_get, Unanswered, Answers
  <1>4. FlagsTyped' /\ FilesTyped'
    BY <1>2, <1>3 DEF FlagsTyped, FilesTyped, otaVars
  <1>5. Building'
    BY <1>1, <1>2, <1>3, SameUpdate
  <1> QED BY <1>2, <1>4, <1>5

LEMMA FilenameKeeps ==
    ASSUME Inductive, NEW i \in Slot, process_patch_filename(i)
    PROVE  Inductive'
  <1> USE DEF Inductive, Typed
  <1>1. Piece(i, "filename") /\ pc' = pc /\ response' = TRUE
    BY DEF process_patch_filename, Answers
  <1>2. /\ ListTyped' /\ CountTyped' /\ PeersTyped' /\ Seats' /\ Counted' /\ Reported'
        /\ slot[i] \in Client /\ pc.at = "read" /\ UNCHANGED slot /\ UNCHANGED listening
    BY <1>1, PieceKeeps
  <1>3. UNCHANGED <<ota_file_ok, files, ran>>
    BY DEF process_patch_filename
  <1>4. \/ /\ ota_filename' = NameOf[slot[i]] /\ ota_filename_ok' = TRUE
           /\ session' = [who |-> slot[i], stage |-> "name"]
        \/ ota_filename_ok' = FALSE /\ session' = NoSession /\ UNCHANGED ota_filename
    BY DEF process_patch_filename
  <1>5. FlagsTyped' /\ FilesTyped'
    BY <1>1, <1>2, <1>3, <1>4 DEF FlagsTyped, FilesTyped, Names
  <1>6. Building'
    BY <1>1, <1>2, <1>3, <1>4 DEF Building, UpdatesAreWhole, BuiltUp, OnlyWholeFilesRun, NoSession
  <1> QED BY <1>2, <1>5, <1>6

LEMMA FileKeeps ==
    ASSUME Inductive, NEW i \in Slot, process_patch_file(i)
    PROVE  Inductive'
  <1> USE DEF Inductive, Typed
  <1>1. /\ Piece(i, "file") /\ response' = TRUE /\ UNCHANGED <<ota_filename, ota_filename_ok, ran>>
        /\ pc' \in {pc, AtSlot("upload", i)}
    BY DEF process_patch_file
  <1>2. /\ ListTyped' /\ CountTyped' /\ PeersTyped' /\ Seats' /\ Counted' /\ Reported'
        /\ slot[i] \in Client /\ pc.at = "read" /\ UNCHANGED slot /\ UNCHANGED listening
    BY <1>1, PieceKeeps
  <1>3. CASE ota_filename = ""
    <2>1. UNCHANGED otaVars /\ pc' = pc
      BY <1>1, <1>3 DEF process_patch_file, otaVars
    <2>2. FlagsTyped' /\ FilesTyped'
      BY <1>1, <1>2, <2>1 DEF FlagsTyped, FilesTyped, otaVars
    <2>3. Building'
      BY <1>2, <2>1, SameUpdate
    <2> QED BY <1>2, <2>2, <2>3
  <1>4. CASE ota_filename # ""
    <2> DEFINE body == Request(i).body
    <2>1. ota_filename \in Names
      BY <1>4 DEF FilesTyped
    <2>2. files' = [files EXCEPT ![ota_filename] = IF body = "all" THEN slot[i] ELSE "short"]
      BY <1>4 DEF process_patch_file, Written
    <2>3. ota_file_ok' = IF body = "all" THEN TRUE ELSE IF body = "none" THEN FALSE ELSE ota_file_ok
      BY <1>4 DEF process_patch_file
    <2>4. pc' = IF body = "some" THEN AtSlot("upload", i) ELSE pc
      BY <1>4 DEF process_patch_file
    <2>5. session' = IF session.who # slot[i] \/ body = "none" THEN NoSession
                     ELSE IF body = "all" THEN [session EXCEPT !.stage = "file"]
                     ELSE [session EXCEPT !.stage = "name"]
      BY <1>4 DEF process_patch_file
    <2> HIDE DEF body
    <2>6. FlagsTyped'
      BY <1>1, <1>2, <2>3 DEF FlagsTyped
    <2>7. FilesTyped'
      BY <1>1, <1>2, <2>1, <2>2 DEF FilesTyped
    <2>8. CASE session.who # slot[i] \/ body = "none"
      <3>1. session' = NoSession
        BY <2>5, <2>8
      <3> QED BY <1>1, <1>2, <2>1, <2>4, <2>6, <2>7, <3>1
              DEF Building, UpdatesAreWhole, BuiltUp, OnlyWholeFilesRun, NoSession, AtSlot
    <2>9. CASE session.who = slot[i] /\ body # "none"
      <3>1. session \in [who : Client, stage : {"name", "file"}]
        BY <1>2, <2>9, Places DEF Building, NoSession
      <3>2. session'.who = slot[i] /\ session' \in [who : Client, stage : {"name", "file"}]
            /\ session'.stage = IF body = "all" THEN "file" ELSE "name"
        BY <1>2, <2>5, <2>9, <3>1
      <3>3. ota_filename = NameOf[slot[i]] /\ ota_filename_ok
        BY <2>9, <3>1 DEF Building, UpdatesAreWhole, BuiltUp
      <3>4. BuiltUp'
        BY <1>1, <2>1, <2>2, <2>3, <3>2, <3>3 DEF BuiltUp, FilesTyped
      <3>5. pc'.at = "upload" => pc'.slot = i
        BY <1>2, <2>4 DEF AtSlot
      <3>6. OnlyWholeFilesRun'
        BY <1>1 DEF Building, UpdatesAreWhole, OnlyWholeFilesRun
      <3>7. session' \in {NoSession} \cup [who : Client, stage : {"name", "file"}]
        BY <3>2
      <3>8. pc'.at = "upload" =>
              ota_filename' \in Names /\ session'.who \in {slot'[pc'.slot], "nobody"}
        BY <1>1, <1>2, <2>1, <3>2, <3>5
      <3>9. Building'
        BY <3>4, <3>6, <3>7, <3>8 DEF Building, UpdatesAreWhole, NoSession, Names
      <3> QED BY <1>2, <2>6, <2>7, <3>9
    <2> QED BY <1>2, <2>6, <2>7, <2>8, <2>9
  <1> QED BY <1>3, <1>4

LEMMA SignatureKeeps ==
    ASSUME Inductive, NEW i \in Slot, process_patch_signature(i)
    PROVE  Inductive'
  <1> USE DEF Inductive, Typed
  <1>1. Piece(i, "signature") /\ pc' = pc /\ response' = TRUE
    BY DEF process_patch_signature, Answers
  <1>2. /\ ListTyped' /\ CountTyped' /\ PeersTyped' /\ Seats' /\ Counted' /\ Reported'
        /\ slot[i] \in Client /\ pc.at = "read" /\ UNCHANGED slot /\ UNCHANGED listening
    BY <1>1, PieceKeeps
  <1>3. ota_filename' = "" /\ ota_filename_ok' = FALSE /\ ota_file_ok' = FALSE /\ session' = NoSession
    BY DEF process_patch_signature
  <1>4. /\ files' = files \/ (ota_filename # "" /\ files' = [files EXCEPT ![ota_filename] = "absent"])
        /\ \/ ran' = ran
           \/ files[ota_filename] = slot[i] /\ ran' = ran \union {<<ota_filename, files[ota_filename]>>}
    BY DEF process_patch_signature, Checked, Written, Verified
  <1>5. FlagsTyped' /\ FilesTyped'
    BY <1>1, <1>2, <1>3, <1>4 DEF FlagsTyped, FilesTyped
  <1>6. OnlyWholeFilesRun'
    <2> SUFFICES ASSUME NEW r \in ran' PROVE r[2] \in Client
      BY DEF OnlyWholeFilesRun
    <2>1. CASE r \in ran
      BY <2>1 DEF Building, UpdatesAreWhole, OnlyWholeFilesRun
    <2>2. CASE r \notin ran
      <3>1. r = <<ota_filename, slot[i]>>
        BY <1>4, <2>2
      <3> QED BY <1>2, <3>1
    <2> QED BY <2>1, <2>2
  <1>7. Building'
    BY <1>1, <1>2, <1>3, <1>6 DEF Building, UpdatesAreWhole, BuiltUp, NoSession
  <1> QED BY <1>2, <1>5, <1>7

LEMMA UploadKeeps ==
    ASSUME Inductive, NEW i \in Slot, UploadRest(i) \/ UploadBreaks(i)
    PROVE  Inductive'
  <1> USE DEF Inductive, Typed
  <1>1. /\ pc = AtSlot("upload", i) /\ pc' = AtSlot("read", i) /\ slot' = slot
        /\ UNCHANGED <<pollVars, listening, peer, later, waiting, response, ota_filename,
                       ota_filename_ok, ran, signals>>
    BY DEF UploadRest, UploadBreaks, netVars, pollVars
  <1>2. slot[i] \in Client /\ ota_filename \in Names /\ session.who \in {slot[i], "nobody"}
        /\ revents[i] = "no"
    BY <1>1 DEF Reported, Building, AtSlot
  <1>3. CASE UploadRest(i)
    <2>1. inbox[slot[i]] # << >> /\ inbox' = [inbox EXCEPT ![slot[i]] = Tail(@)]
      BY <1>3 DEF UploadRest
    <2>2. ListTyped' /\ CountTyped' /\ PeersTyped' /\ Seats' /\ Counted' /\ Reported'
      BY <1>1, <2>1, TakingKeeps
    <2>3. files' = [files EXCEPT ![ota_filename] = slot[i]] /\ ota_file_ok' = TRUE
      BY <1>3 DEF UploadRest, Written
    <2>4. FlagsTyped' /\ FilesTyped'
      BY <1>1, <1>2, <2>3 DEF FlagsTyped, FilesTyped
    <2>5. session' = IF session.who = slot[i] THEN [session EXCEPT !.stage = "file"] ELSE session
      BY <1>3 DEF UploadRest
    <2>6. CASE session.who = slot[i]
      <3>1. session \in [who : Client, stage : {"name", "file"}]
        BY <1>2, <2>6, Places DEF Building, NoSession
      <3>2. /\ session' \in [who : Client, stage : {"name", "file"}]
            /\ session'.who = slot[i] /\ session'.stage = "file"
        BY <2>5, <2>6, <3>1
      <3>3. ota_filename = NameOf[slot[i]] /\ ota_filename_ok
        BY <2>6, <3>1 DEF Building, UpdatesAreWhole, BuiltUp
      <3>4. BuiltUp'
        BY <1>1, <1>2, <2>3, <3>2, <3>3 DEF BuiltUp, FilesTyped
      <3> QED BY <1>1, <2>2, <2>4, <3>2, <3>4 DEF Building, UpdatesAreWhole, OnlyWholeFilesRun, AtSlot
    <2>7. CASE session.who # slot[i]
      <3>1. session = NoSession /\ session' = NoSession
        BY <1>2, <2>5, <2>7, Places DEF Building, NoSession
      <3> QED BY <1>1, <2>2, <2>4, <3>1
              DEF Building, UpdatesAreWhole, BuiltUp, OnlyWholeFilesRun, AtSlot, NoSession
    <2> QED BY <2>6, <2>7
  <1>4. CASE UploadBreaks(i)
    <2>1. ota_file_ok' = FALSE /\ session' = NoSession /\ files' = files /\ inbox' = inbox
      BY <1>4 DEF UploadBreaks, netVars
    <2>2. ListTyped' /\ CountTyped' /\ PeersTyped'
      BY <1>1, <2>1, SamePeers DEF ListTyped, CountTyped, pollVars, AtSlot
    <2>3. Seats' /\ Counted'
      BY <1>1, SameSeats DEF pollVars, AtSlot
    <2>4. Reported'
      BY <1>1, <1>2 DEF Reported, pollVars, AtSlot
    <2>5. FlagsTyped' /\ FilesTyped'
      BY <1>1, <2>1 DEF FlagsTyped, FilesTyped
    <2>6. Building'
      BY <1>1, <2>1 DEF Building, UpdatesAreWhole, BuiltUp, OnlyWholeFilesRun, AtSlot, NoSession
    <2> QED BY <2>2, <2>3, <2>4, <2>5, <2>6
  <1> QED BY <1>3, <1>4

(***************************************************************************)
(* The clients, and signals.                                               *)
(***************************************************************************)
(* A client that connects or leaves holds no place before and after, or    *)
(* keeps the one it holds.                                                 *)
LEMMA ConnectKeeps ==
    ASSUME Inductive, NEW c \in Client, Connect(c) \/ Leave(c)
    PROVE  Inductive'
  <1> USE DEF Inductive, Typed
  <1>1. /\ UNCHANGED <<pc, pollVars, listening, inbox, response, otaVars, signals>>
        /\ waiting' \in SUBSET waiting /\ later' \in {later, later \ {c}}
        /\ \/ peer[c] = "away" /\ peer' = [peer EXCEPT ![c] = "backlog"]
           \/ peer[c] = "backlog" /\ peer' = [peer EXCEPT ![c] = "left"]
           \/ peer[c] = "open" /\ peer' = [peer EXCEPT ![c] = "gone"]
    BY DEF Connect, Leave
  <1>2. ListTyped' /\ CountTyped' /\ FilesTyped' /\ FlagsTyped'
    BY <1>1 DEF ListTyped, CountTyped, FilesTyped, FlagsTyped, pollVars, otaVars
  <1>3. PeersTyped'
    BY <1>1 DEF PeersTyped
  <1>4. Seats'
    BY <1>1 DEF Seats, pollVars, PeersTyped
  <1>5. Reported'
    BY <1>1 DEF Reported, pollVars
  <1>6. Counted'
    <2>1. Held' = Held /\ Occupied' = Occupied /\ GivenUp' = GivenUp
      BY <1>1 DEF Held, Occupied, GivenUp, pollVars
    <2> QED BY <1>1, <2>1 DEF Counted, pollVars, PeersTyped
  <1>7. Building'
    BY <1>1, SameUpdate DEF pollVars
  <1> QED BY <1>2, <1>3, <1>4, <1>5, <1>6, <1>7

LEMMA SendKeeps ==
    ASSUME Inductive, NEW c \in Client, SendRest(c) \/ \E p \in Pieces : Send(c, p)
    PROVE  Inductive'
  <1> USE DEF Inductive, Typed
  <1>1. UNCHANGED <<pc, pollVars, listening, peer, response, otaVars, signals>>
    BY DEF SendRest, Send
  <1>2. PeersTyped'
    <2>1. CASE SendRest(c)
      <3>1. inbox' = [inbox EXCEPT ![c] = Append(@, [cmd |-> "rest"])] /\ later' = later \ {c}
            /\ waiting' = waiting /\ peer' = peer /\ c \in later
        BY <2>1 DEF SendRest
      <3>2. /\ Append(inbox[c], [cmd |-> "rest"]) \in Seq(Received)
            /\ Len(Append(inbox[c], [cmd |-> "rest"])) = Len(inbox[c]) + 1
        BY AppendProperties DEF PeersTyped, Received
      <3>3. Len(inbox[c]) <= 1 /\ Len(inbox[c]) \in Nat
        BY <3>1, LenProperties DEF PeersTyped
      <3> QED BY <3>1, <3>2, <3>3 DEF PeersTyped
    <2>2. ASSUME NEW p \in Pieces, Send(c, p)
          PROVE  PeersTyped'
      <3>1. inbox' = [inbox EXCEPT ![c] = <<p.piece>>] /\ later' \in {later, later \union {c}}
            /\ waiting' = waiting \union {c} /\ peer' = peer
        BY <2>2 DEF Send
      <3>2. <<p.piece>> \in Seq(Received) /\ Len(<<p.piece>>) = 1
        BY DEF Received
      <3> QED BY <3>1, <3>2 DEF PeersTyped
    <2> QED BY <2>1, <2>2
  <1>3. ListTyped' /\ CountTyped' /\ FilesTyped' /\ FlagsTyped'
    BY <1>1 DEF ListTyped, CountTyped, FilesTyped, FlagsTyped, pollVars, otaVars
  <1>4. Seats' /\ Counted'
    BY <1>1, SameSeats DEF pollVars
  <1>5. Reported'
    BY <1>1 DEF Reported, pollVars
  <1>6. Building'
    BY <1>1, SameUpdate DEF pollVars
  <1> QED BY <1>2, <1>3, <1>4, <1>5, <1>6

LEMMA SignalKeeps ==
    ASSUME Inductive, Signal
    PROVE  Inductive'
  <1> USE DEF Inductive, Typed
  <1>1. /\ signals' = signals + 1 /\ listening' = FALSE /\ client_count' = 0
        /\ pc' = pc \/ (pc' = At("done") /\ pc = At("poll"))
        /\ pc.at \notin {"start", "done", "crashed"}
        /\ UNCHANGED <<slot, revents, found, response, otaVars>>
        /\ peer' = [c \in Client |-> IF c \in Calling THEN "away" ELSE peer[c]]
        /\ inbox' = [c \in Client |-> IF c \in Calling THEN << >> ELSE inbox[c]]
        /\ waiting' = waiting \ Calling /\ later' = later \ Calling
    BY DEF Signal
  <1>2. ListTyped' /\ CountTyped'
    BY <1>1, Places DEF ListTyped, CountTyped, At
  <1>3. PeersTyped' /\ FilesTyped'
    <2>1. << >> \in Seq(Received) /\ Len(<< >>) = 0
      BY EmptySeq
    <2>2. \A c \in Client : Len(inbox'[c]) <= IF c \in later' THEN 1 ELSE 2
      BY <1>1, <2>1 DEF PeersTyped
    <2>3. PeersTyped'
      BY <1>1, <2>1, <2>2 DEF PeersTyped
    <2> QED BY <1>1, <2>3 DEF FilesTyped, otaVars
  <1>4. FlagsTyped'
    BY <1>1 DEF FlagsTyped, otaVars
  <1>5. Seats'
    <2>1. \A c \in Client : peer'[c] \in {"open", "gone"} <=> peer[c] \in {"open", "gone"}
      BY <1>1 DEF Calling
    <2> QED BY <1>1, <2>1 DEF Seats
  <1>6. Reported'
    BY <1>1 DEF Reported, At
  <1>7. Counted'
    <2>1. signals' # 0 /\ pc'.at # "start" /\ listening' = FALSE
      BY <1>1 DEF CountTyped, At
    <2>2. Occupied' = Occupied /\ Occupied \in SUBSET Slot
      BY <1>1 DEF Occupied
    <2>3. Cardinality(Occupied') - HSTATIC_MAX_CLIENTS <= 0
      BY <2>2, PlacesCounted, Places
    <2>4. \A c \in Client : peer'[c] = "leaked" => peer[c] = "leaked"
      BY <1>1
    <2> QED BY <1>1, <2>1, <2>3, <2>4 DEF Counted
  <1>8. Building'
    BY <1>1, SameUpdate DEF At
  <1> QED BY <1>2, <1>3, <1>4, <1>5, <1>6, <1>7, <1>8

(***************************************************************************)
(* The theorems.                                                           *)
(***************************************************************************)
LEMMA InitInductive == Init => Inductive
  <1> SUFFICES ASSUME Init PROVE Inductive
    OBVIOUS
  <1> USE DEF Init
  <1>1. ListTyped
    BY DEF ListTyped, At, server_create, Uncleared
  <1>2. CountTyped /\ FlagsTyped /\ FilesTyped
    <2>1. CountTyped
      <3>1. client_count = 0 /\ signals = 0
        OBVIOUS
      <3> HIDE DEF Init
      <3> QED BY <3>1, Places DEF CountTyped
    <2>2. FlagsTyped
      BY DEF FlagsTyped
    <2>3. FilesTyped
      <3>1. files = [n \in Names |-> "absent"] /\ ota_filename = ""
        OBVIOUS
      <3> HIDE DEF Init
      <3> QED BY <3>1 DEF FilesTyped
    <2> QED BY <2>1, <2>2, <2>3
  <1>3. PeersTyped
    <2>1. << >> \in Seq(Received) /\ Len(<< >>) = 0
      BY EmptySeq
    <2>2. inbox = [c \in Client |-> << >>] /\ peer = [c \in Client |-> "away"]
          /\ later = {} /\ waiting = {}
      OBVIOUS
    <2> HIDE DEF Init
    <2>3. \A c \in Client : Len(inbox[c]) <= IF c \in later THEN 1 ELSE 2
      BY <2>1, <2>2
    <2>4. inbox \in [Client -> Seq(Received)]
      BY <2>1, <2>2
    <2> QED BY <2>2, <2>3, <2>4 DEF PeersTyped
  <1>4. \A i \in Slot : /\ slot[i] \notin Client
                        /\ slot[i] = "free" \/ (i = HSTATIC_MAX_CLIENTS /\ slot[i] = found)
    BY Places DEF server_create, Uncleared
  <1>5. Seats
    BY <1>4 DEF Seats
  <1>6. Reported
    BY DEF Reported, At
  <1>7. Counted
    <2>1. Held = {}
      BY <1>4 DEF Held
    <2>2. Cardinality(Held) = 0
      BY <2>1, FS_EmptySet
    <2>3. GivenUp = 0
      <3>2. slot = [i \in Slot |-> IF i = HSTATIC_MAX_CLIENTS THEN found ELSE "free"]
        BY DEF server_create
      <3> HIDE DEF Init
      <3>1. HSTATIC_MAX_CLIENTS \in Slot
        BY Places
      <3> QED BY <3>1, <3>2 DEF GivenUp
    <2>4. client_count = 0 /\ signals = 0 /\ \A c \in Client : peer[c] # "leaked"
      OBVIOUS
    <2> HIDE DEF Init
    <2> QED BY <2>2, <2>3, <2>4 DEF Counted
  <1>8. Building
    BY DEF Building, At, UpdatesAreWhole, BuiltUp, OnlyWholeFilesRun, NoSession
  <1> QED BY <1>1, <1>2, <1>3, <1>5, <1>6, <1>7, <1>8 DEF Inductive, Typed

LEMMA NextKeeps == Inductive /\ [Next]_vars => Inductive'
  <1> SUFFICES ASSUME Inductive, [Next]_vars PROVE Inductive'
    OBVIOUS
  <1>1. CASE Server
    <2>1. CASE server_listen \/ Poll \/ _accept_all \/ AcceptFails
      BY <2>1, ListenKeeps, PollKeeps, AcceptKeeps, AcceptFailsKeeps
    <2>2. ASSUME NEW i \in Slot, Scan(i) \/ http_handler(i)
          PROVE  Inductive'
      <3>1. CASE Scan(i) \/ HandlerEnds(i)
        BY <3>1, ScanKeeps, HandlerEndsKeeps
      <3>2. CASE http_parse_request(i)
        BY <3>2, GetKeeps, FilenameKeeps, FileKeeps, SignatureKeeps DEF http_parse_request
      <3>3. CASE UploadRest(i) \/ UploadBreaks(i)
        BY <3>3, UploadKeeps
      <3> QED BY <2>2, <3>1, <3>2, <3>3 DEF http_handler
    <2> QED BY <1>1, <2>1, <2>2 DEF Server
  <1>2. CASE Peers
    BY <1>2, ConnectKeeps, SendKeeps DEF Peers
  <1>3. CASE Signal
    BY <1>3, SignalKeeps
  <1>4. CASE UNCHANGED vars
    <2> USE <1>4 DEF vars, pollVars, netVars
    <2>1. ListTyped' /\ CountTyped' /\ PeersTyped' /\ FlagsTyped' /\ FilesTyped'
      BY SamePeers DEF Inductive, Typed, ListTyped, CountTyped, FlagsTyped, FilesTyped, otaVars
    <2>2. Seats' /\ Counted'
      BY SameSeats
    <2>3. Reported'
      BY DEF Inductive, Reported
    <2>4. Building'
      BY SameUpdate
    <2> QED BY <2>1, <2>2, <2>3, <2>4 DEF Inductive, Typed
  <1> QED BY <1>1, <1>2, <1>3, <1>4 DEF Next

LEMMA AlwaysInductive == Spec => []Inductive
  BY InitInductive, NextKeeps, PTL DEF Spec

(* Each client holds one place and each place is counted once.             *)
LEMMA InductiveServerInv == Inductive => ServerInv
  <1> SUFFICES ASSUME Inductive PROVE ServerInv
    OBVIOUS
  <1> USE DEF Inductive, Typed
  <1>1. TypeOK
    <2>1. \A c \in Client : Len(inbox[c]) <= 2
      <3> SUFFICES ASSUME NEW c \in Client PROVE Len(inbox[c]) <= 2
        OBVIOUS
      <3>1. Len(inbox[c]) \in Nat /\ Len(inbox[c]) <= IF c \in later THEN 1 ELSE 2
        BY LenProperties DEF PeersTyped
      <3> QED BY <3>1
    <2>2. {ota_filename_ok, ota_file_ok, response, listening} \subseteq BOOLEAN
      BY DEF FlagsTyped
    <2> QED BY <2>1, <2>2 DEF TypeOK, ListTyped, CountTyped, PeersTyped, FilesTyped
  <1>2. EveryClientHeld
    <2> SUFFICES ASSUME found = "free", signals = 0
                 PROVE  /\ \A c \in Client :
                              Cardinality({i \in Slot : slot[i] = c})
                                  = (IF peer[c] \in {"open", "gone", "leaked"} THEN 1 ELSE 0)
                        /\ client_count = Cardinality({i \in Slot : slot[i] \in Client})
      BY DEF EveryClientHeld
    <2>1. ASSUME NEW c \in Client
          PROVE  Cardinality({i \in Slot : slot[i] = c})
                     = (IF peer[c] \in {"open", "gone", "leaked"} THEN 1 ELSE 0)
      <3>1. peer[c] # "leaked"
        BY DEF Counted
      <3>2. CASE peer[c] \in {"open", "gone"}
        <4>1. PICK k \in Slot : slot[k] = c
          BY <3>2 DEF Seats
        <4>2. {i \in Slot : slot[i] = c} = {k}
          BY <4>1 DEF Seats
        <4> QED BY <3>2, <4>2, FS_Singleton
      <3>3. CASE peer[c] \notin {"open", "gone"}
        <4>1. {i \in Slot : slot[i] = c} = {}
          BY <3>3 DEF Seats
        <4> QED BY <3>1, <3>3, <4>1, FS_EmptySet
      <3> QED BY <3>2, <3>3
    <2>2. client_count = Cardinality(Held)
      <3>1. GivenUp = 0 /\ Cardinality(Held) \in Nat
        BY PlacesCounted DEF GivenUp, Held
      <3> QED BY <3>1 DEF Counted
    <2> QED BY <2>1, <2>2 DEF Held
  <1> QED BY <1>1, <1>2 DEF ServerInv

(* The list of connections, its count and the clients agree in every run of*)
(* the server (server.c): ServerInv, for any number of clients and places. *)
THEOREM ServerCorrect == Spec => []ServerInv
  BY AlwaysInductive, InductiveServerInv, PTL

(* What is checked against a signature was built up by one client, and only*)
(* whole files are run (ota.c).                                            *)
THEOREM UpdatesCorrect == Spec => []UpdatesAreWhole
  <1>1. Inductive => UpdatesAreWhole
    BY DEF Inductive, Building
  <1> QED BY <1>1, AlwaysInductive, PTL

=============================================================================
