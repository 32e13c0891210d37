---------------------------- MODULE CyberPhysMain ----------------------------
(***************************************************************************)
(* The threads of a <cyberPhys> session, from the launched targets to the  *)
(* return of startCyberPhys, and how they end each other through queues:   *)
(*   main          builds and starts the components and threads, waits on  *)
(*                 cyberPhysQueue, then ends everybody;                    *)
(*   heartbeat     heartBeatListener, until heartbeatQueue has an item;    *)
(*   interact      the interactive shell, until the user exits;            *)
(*   endInteract   would end the shell for main (interactorQueue);         *)
(*   components    a Watchdog per target and the RelayManager: each is a   *)
(*                 thread that handles the messages published by the shell *)
(*                 (component 0 is the relay manager, i the watchdog of    *)
(*                 target i);                                              *)
(*   sender        the component the shell publishes with.                 *)
(* What a reset does is in TargetTty; here it takes its time, and brings   *)
(* the target up again or ends the tool.                                   *)
(***************************************************************************)
EXTENDS Naturals, Sequences, FiniteSets

CONSTANTS
    NTargets,    \* the `nTargets` setting
    MaxCmds      \* bound: number of restart commands of the user

ASSUME NTargetsAssumption == NTargets \in Nat \ {0}
ASSUME MaxCmdsAssumption  == MaxCmds \in Nat

VARIABLES
    main,            \* where the main thread is in startCyberPhys
    next,            \* the component it constructs, starts or ends next
    heartbeat,       \* where heartBeatListener is
    interact,        \* where the shell's thread is
    endInteract,     \* where the thread of endInteract is
    component,       \* component -> its thread
    stopEvt,         \* component -> stop_evt
    received,        \* component -> messages received and not handled
    portBound,       \* a publisher of this process is bound to watchdogBase
    sender,          \* the shell's component
    cyberPhysQueue,  \* number of items
    heartbeatQueue,  \* number of items
    interactorQueue, \* items, oldest first
    cmds,            \* number of restart commands given
    exited           \* the tool called os._exit

queues  == <<cyberPhysQueue, heartbeatQueue, interactorQueue>>
comps   == <<component, stopEvt, received, portBound>>
shell   == <<interact, endInteract, sender>>
sessionVars == <<main, next, heartbeat, shell, comps, queues, cmds, exited>>

Target    == 1 .. NTargets
Component == 0 .. NTargets

\* queue.Queue(maxsize=...)
CyberPhysQueueMax  == NTargets + 1
HeartbeatQueueMax  == 1
InteractorQueueMax == 2

SessionTypeOK ==
    /\ main \in {"construct", "threads", "start", "ready", "shell", "wait",
                 "endHeartbeat", "endShell", "join", "endComponents", "returned",
                 "raised"}
    /\ next \in 0 .. NTargets + 1
    /\ heartbeat \in {"none", "loop", "report", "done"}
    /\ interact \in {"none", "cmdloop", "postloop", "put", "join", "report",
                     "done", "raised"}
    /\ endInteract \in {"none", "get", "done"}
    /\ component \in [Component -> {"none", "constructed", "started", "running",
                                    "handling", "leaving", "ended"}]
    /\ stopEvt \in [Component -> BOOLEAN]
    /\ received \in [Component -> Seq(Component)]
    /\ portBound \in BOOLEAN
    /\ sender \in {"none", "running", "stopping", "ended"}
    /\ cyberPhysQueue \in 0 .. CyberPhysQueueMax
    /\ heartbeatQueue \in 0 .. HeartbeatQueueMax
    /\ interactorQueue \in Seq({"main", "interact"})
    /\ Len(interactorQueue) <= InteractorQueueMax
    /\ cmds \in 0 .. MaxCmds
    /\ exited \in BOOLEAN

SessionInit ==
    /\ main = "construct"
    /\ next = 1
    /\ heartbeat = "none"
    /\ interact = "none"
    /\ endInteract = "none"
    /\ component = [c \in Component |-> "none"]
    /\ stopEvt = [c \in Component |-> FALSE]
    /\ received = [c \in Component |-> <<>>]
    /\ portBound = FALSE
    /\ sender = "none"
    /\ cyberPhysQueue = 0
    /\ heartbeatQueue = 0
    /\ interactorQueue = <<>>
    /\ cmds = 0
    /\ exited = FALSE

Exit == /\ exited' = TRUE
        /\ UNCHANGED <<main, next, heartbeat, shell, comps, queues, cmds>>

------------------------------------------------------------------------------
(* startCyberPhys, the main thread                                         *)

\* Watchdog(next): every watchdog publishes on the port of watchdogBase, and
\* Component.__init__ binds it; a port that is bound already raises.
ConstructWatchdog ==
    /\ main = "construct"
    /\ next \in Target
    /\ IF portBound
       THEN /\ main' = "raised"
            /\ UNCHANGED <<next, component, portBound>>
       ELSE /\ portBound' = TRUE
            /\ component' = [component EXCEPT ![next] = "constructed"]
            /\ next' = next + 1
            /\ main' = IF next = NTargets THEN "threads" ELSE "construct"
    /\ UNCHANGED <<heartbeat, shell, stopEvt, received, queues, cmds, exited>>

\* The heartbeat thread starts; the TTYs are handed over; RelayManager, which
\* publishes nothing, is constructed.  components = watchdogs, relay manager.
StartThreads ==
    /\ main = "threads"
    /\ heartbeat' = "loop"
    /\ component' = [component EXCEPT ![0] = "constructed"]
    /\ next' = 1
    /\ main' = "start"
    /\ UNCHANGED <<shell, stopEvt, received, portBound, queues, cmds, exited>>

\* The components in the order of the list: watchdogs 1 .. N, then 0.
Following(c) == IF c = NTargets THEN 0 ELSE c + 1

StartComponent ==
    /\ main = "start"
    /\ component' = [component EXCEPT ![next] = "started"]
    /\ main' = "ready"
    /\ UNCHANGED <<next, heartbeat, shell, stopEvt, received, portBound, queues,
                   cmds, exited>>

\* A changed form of the next definition: the relay manager is not the last.
AwaitReadyInOrder ==
    /\ main = "ready"
    /\ next' = next + 1
    /\ main' = IF next = 0 THEN "shell" ELSE "start"
    /\ UNCHANGED <<heartbeat, shell, comps, queues, cmds, exited>>

\* At most ten seconds for c._ready, then on to the next one.
AwaitReady ==
    /\ main = "ready"
    /\ next' = Following(next)
    /\ main' = IF next = 0 THEN "shell" ELSE "start"
    /\ UNCHANGED <<heartbeat, shell, comps, queues, cmds, exited>>

\* interactorQueue and the thread of interact, which starts endInteract's.
StartShell ==
    /\ main = "shell"
    /\ endInteract' = "get"
    /\ interact' = "cmdloop"
    /\ sender' = "running"
    /\ main' = "wait"
    /\ UNCHANGED <<next, heartbeat, comps, queues, cmds, exited>>

\* "block until receiving an error or termination"
AwaitEnd ==
    /\ main = "wait"
    /\ cyberPhysQueue > 0
    /\ cyberPhysQueue' = cyberPhysQueue - 1
    /\ main' = "endHeartbeat"
    /\ UNCHANGED <<next, heartbeat, shell, comps, heartbeatQueue, interactorQueue,
                   cmds, exited>>

EndHeartbeat ==
    /\ main = "endHeartbeat"
    /\ heartbeatQueue < HeartbeatQueueMax
    /\ heartbeatQueue' = heartbeatQueue + 1
    /\ main' = "endShell"
    /\ UNCHANGED <<next, heartbeat, shell, comps, cyberPhysQueue, interactorQueue,
                   cmds, exited>>

EndShell ==
    /\ main = "endShell"
    /\ Len(interactorQueue) < InteractorQueueMax
    /\ interactorQueue' = Append(interactorQueue, "main")
    /\ main' = "join"
    /\ UNCHANGED <<next, heartbeat, shell, comps, cyberPhysQueue, heartbeatQueue,
                   cmds, exited>>

\* xThread.join() for the heartbeat and the shell.
JoinThreads ==
    /\ main = "join"
    /\ heartbeat = "done"
    /\ interact \in {"done", "raised"}
    /\ next' = 1
    /\ main' = "endComponents"
    /\ UNCHANGED <<heartbeat, shell, comps, queues, cmds, exited>>

\* A changed form of the next definition: the component is not joined.
EndComponentNoJoin ==
    /\ main = "endComponents"
    /\ stopEvt' = [stopEvt EXCEPT ![next] = TRUE]
    /\ next' = Following(next)
    /\ main' = IF next = 0 THEN "returned" ELSE "endComponents"
    /\ UNCHANGED <<heartbeat, shell, component, received, portBound, queues, cmds,
                   exited>>

\* c.exit(): stop, join; the poller of a watchdog was never started.
StopComponent ==
    /\ main = "endComponents"
    /\ ~stopEvt[next]
    /\ stopEvt' = [stopEvt EXCEPT ![next] = TRUE]
    /\ UNCHANGED <<main, next, heartbeat, shell, component, received, portBound,
                   queues, cmds, exited>>

EndComponent ==
    /\ main = "endComponents"
    /\ stopEvt[next]
    /\ component[next] = "ended"
    /\ next' = Following(next)
    /\ main' = IF next = 0 THEN "returned" ELSE "endComponents"
    /\ UNCHANGED <<heartbeat, shell, comps, queues, cmds, exited>>

------------------------------------------------------------------------------
(* heartBeatListener                                                       *)

\* An error of the bus during a round of requests and answers ends the tool.
HeartbeatFails ==
    /\ heartbeat = "loop"
    /\ Exit

\* The round is over and the queue is not empty any more.
HeartbeatSeesEnd ==
    /\ heartbeat = "loop"
    /\ heartbeatQueue > 0
    /\ heartbeat' = "report"
    /\ UNCHANGED <<main, next, shell, comps, queues, cmds, exited>>

\* A changed form of the next definition: it goes on and reports every round.
HeartbeatReportsAgain ==
    /\ heartbeat = "report"
    /\ cyberPhysQueue < CyberPhysQueueMax
    /\ cyberPhysQueue' = cyberPhysQueue + 1
    /\ heartbeat' = "loop"
    /\ UNCHANGED <<main, next, shell, comps, heartbeatQueue, interactorQueue,
                   cmds, exited>>

\* "Will send an item to the queue anyway".
HeartbeatReports ==
    /\ heartbeat = "report"
    /\ cyberPhysQueue < CyberPhysQueueMax
    /\ cyberPhysQueue' = cyberPhysQueue + 1
    /\ heartbeat' = "done"
    /\ UNCHANGED <<main, next, shell, comps, heartbeatQueue, interactorQueue,
                   cmds, exited>>

------------------------------------------------------------------------------
(* The shell                                                               *)

\* do_exit, do_quit, do_EOF: cmdloop ends with postloop.
DoExit ==
    /\ interact = "cmdloop"
    /\ interact' = "postloop"
    /\ sender' = "stopping"
    /\ UNCHANGED <<main, next, heartbeat, endInteract, comps, queues, cmds, exited>>

\* The sender's thread sees stop_evt and ends.
SenderEnds ==
    /\ sender = "stopping"
    /\ sender' = "ended"
    /\ UNCHANGED <<main, next, heartbeat, interact, endInteract, comps, queues,
                   cmds, exited>>

Postloop ==
    /\ interact = "postloop"
    /\ sender = "ended"
    /\ interact' = "put"
    /\ UNCHANGED <<main, next, heartbeat, endInteract, sender, comps, queues,
                   cmds, exited>>

InteractPuts ==
    /\ interact = "put"
    /\ Len(interactorQueue) < InteractorQueueMax
    /\ interactorQueue' = Append(interactorQueue, "interact")
    /\ interact' = "join"
    /\ UNCHANGED <<main, next, heartbeat, endInteract, sender, comps,
                   cyberPhysQueue, heartbeatQueue, cmds, exited>>

\* Whoever put the item, the thread ends (an "exit" left in cmdqueue for an
\* item of main is only read at the next prompt).
EndInteractGets ==
    /\ endInteract = "get"
    /\ interactorQueue # <<>>
    /\ interactorQueue' = Tail(interactorQueue)
    /\ endInteract' = "done"
    /\ UNCHANGED <<main, next, heartbeat, interact, sender, comps,
                   cyberPhysQueue, heartbeatQueue, cmds, exited>>

InteractJoins ==
    /\ interact = "join"
    /\ endInteract = "done"
    /\ interact' = "report"
    /\ UNCHANGED <<main, next, heartbeat, endInteract, sender, comps, queues,
                   cmds, exited>>

\* A changed form of the next definition: main is not told.
InteractForgets ==
    /\ interact = "report"
    /\ interact' = "done"
    /\ UNCHANGED <<main, next, heartbeat, endInteract, sender, comps, queues,
                   cmds, exited>>

InteractReports ==
    /\ interact = "report"
    /\ cyberPhysQueue < CyberPhysQueueMax
    /\ cyberPhysQueue' = cyberPhysQueue + 1
    /\ interact' = "done"
    /\ UNCHANGED <<main, next, heartbeat, endInteract, sender, comps,
                   heartbeatQueue, interactorQueue, cmds, exited>>

\* do_restart ID: the message reaches every component that is connected; one
\* that is not connected yet misses it.
DoRestart ==
    /\ interact = "cmdloop"
    /\ cmds < MaxCmds
    /\ \E id \in Component, reached \in SUBSET Component :
         received' = [c \in Component |->
                          IF c \in reached THEN Append(received[c], id) ELSE received[c]]
    /\ cmds' = cmds + 1
    /\ UNCHANGED <<main, next, heartbeat, shell, component, stopEvt, portBound,
                   queues, exited>>

\* ... with anything but a valid ID, the assertion or int() raises through
\* cmdloop and interact: the thread dies, postloop does not run.
DoRestartInvalid ==
    /\ interact = "cmdloop"
    /\ interact' = "raised"
    /\ UNCHANGED <<main, next, heartbeat, endInteract, sender, comps, queues,
                   cmds, exited>>

------------------------------------------------------------------------------
(* The components' threads                                                 *)

ComponentRuns(c) ==
    /\ component[c] = "started"
    /\ component' = [component EXCEPT ![c] = "running"]
    /\ UNCHANGED <<main, next, heartbeat, shell, stopEvt, received, portBound, queues,
                   cmds, exited>>

\* After each message run() looks at stop_evt.
Resumed(c) == IF stopEvt[c] THEN "leaving" ELSE "running"

\* "RESET i" is for watchdog i, "RESET 0" for the relay manager.  The receiver
\* looked at stop_evt before it polls: a last message may still be received.
Receives(c) ==
    /\ component[c] = "running"
    /\ received[c] # <<>>
    /\ received' = [received EXCEPT ![c] = Tail(@)]
    /\ component' = [component EXCEPT ![c] = IF Head(received[c]) = c THEN "handling"
                                             ELSE Resumed(c)]
    /\ UNCHANGED <<main, next, heartbeat, shell, stopEvt, portBound, queues,
                   cmds, exited>>

\* The reset (or the switching of the relays) ends well, or ends the tool.
Handles(c) ==
    /\ component[c] = "handling"
    /\ \/ /\ component' = [component EXCEPT ![c] = Resumed(c)]
          /\ UNCHANGED <<main, next, heartbeat, shell, stopEvt, received, portBound,
                         queues, cmds, exited>>
       \/ c \in Target /\ Exit

\* run() breaks its loop, or the receiver ends: at the loop's test, or with the
\* AttributeError of ComponentStatus.EXIT, which it swallows.  unbind closes
\* the sockets.
ComponentEnds(c) ==
    /\ component[c] \in {"running", "leaving"}
    /\ stopEvt[c]
    /\ component' = [component EXCEPT ![c] = "ended"]
    /\ portBound' = (portBound /\ c \notin Target)
    /\ UNCHANGED <<main, next, heartbeat, shell, stopEvt, received, queues, cmds,
                   exited>>

------------------------------------------------------------------------------
MainStep == \/ ConstructWatchdog \/ StartThreads \/ StartComponent \/ AwaitReady
            \/ StartShell \/ AwaitEnd \/ EndHeartbeat \/ EndShell \/ JoinThreads
            \/ StopComponent \/ EndComponent

HeartbeatStep == HeartbeatSeesEnd \/ HeartbeatReports

\* The shell's threads, as far as the user is not asked.
ShellStep == Postloop \/ InteractPuts \/ InteractJoins \/ InteractReports

ComponentStep(c) == \/ ComponentRuns(c) \/ Receives(c) \/ Handles(c)
                    \/ ComponentEnds(c)

Act == \/ MainStep
       \/ HeartbeatFails \/ HeartbeatStep
       \/ DoExit \/ DoRestart \/ DoRestartInvalid
       \/ ShellStep \/ EndInteractGets \/ SenderEnds
       \/ \E c \in Component : ComponentStep(c)

\* startCyberPhys returned or raised, or the tool exited.
Stopped == (main \in {"returned", "raised"} \/ exited) /\ UNCHANGED sessionVars

SessionNext == (~exited /\ main \notin {"returned", "raised"} /\ Act) \/ Stopped

\* Every thread of the tool is scheduled, and a reset ends; the user, the bus
\* and the targets owe nothing.
Fairness ==
    /\ WF_sessionVars(~exited /\ MainStep)
    /\ WF_sessionVars(~exited /\ HeartbeatStep)
    /\ WF_sessionVars(~exited /\ ShellStep)
    /\ WF_sessionVars(~exited /\ EndInteractGets)
    /\ WF_sessionVars(~exited /\ SenderEnds)
    /\ \A c \in Component : WF_sessionVars(~exited /\ ComponentStep(c))

SessionSpec == SessionInit /\ [][SessionNext]_sessionVars
SessionFairSpec == SessionSpec /\ Fairness

------------------------------------------------------------------------------
(* Properties                                                              *)

\* Three threads put items into three bounded queues, each side to end the
\* other one, and ftQueueUtils blocks without a timeout: no put ever finds its
\* queue full, whoever ends first.
PutsNeverBlock ==
    /\ heartbeat = "report" \/ interact = "report" => cyberPhysQueue < CyberPhysQueueMax
    /\ main = "endHeartbeat" => heartbeatQueue < HeartbeatQueueMax
    /\ main = "endShell" \/ interact = "put" =>
          Len(interactorQueue) < InteractorQueueMax

\* When startCyberPhys returns, nobody else runs: endCyberPhys takes back the
\* TTYs and shuts the targets down while no watchdog resets one of them, no
\* shell command is given and no heartbeat is sent.
ReturnsAlone ==
    main = "returned" =>
        /\ heartbeat = "done"
        /\ interact = "done" /\ endInteract = "done" /\ sender = "ended"
        /\ \A c \in Component : component[c] = "ended"

\* exit, quit and Ctrl-d end the session (whatever resets are under way), or
\* the tool exits.
ExitEndsSession ==
    interact = "postloop" ~> (main = "returned" \/ exited)

\* The queues between main, the shell and the heartbeat are well typed and
\* never block the one who puts (cyberPhys/launch.py:60-111).
SessionInv ==
    /\ SessionTypeOK
    /\ PutsNeverBlock
==============================================================================
