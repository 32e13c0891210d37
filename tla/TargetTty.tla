------------------------------ MODULE TargetTty ------------------------------
(***************************************************************************)
(* Who reads the terminal of a target in <cyberPhys> mode.                 *)
(*                                                                         *)
(* A target's TTY (a pexpect process) can be handed to the network through *)
(* a `socat` listener, drained by a TtyLogger thread, or read by the tool  *)
(* itself while it boots the target, runs commands on it or tears it down. *)
(* Three threads move it between these owners with the four functions of   *)
(* cyberPhys/launch.py, and no lock protects them:                         *)
(*   main      hands the TTY over after the launch, takes it back at the   *)
(*             end (startCyberPhys, endCyberPhys);                         *)
(*   shell     the interactive `pipe start|stop` commands (do_pipe);       *)
(*   watchdog  runs resetTarget when the shell published a RESET message.  *)
(*                                                                         *)
(* All the state is kept per target, so the module is about one target.    *)
(* Every job (and the target object, logger and socat it creates: at most  *)
(* one of each) carries the number of the shell command that asked for it; *)
(* number 0 is the launch.                                                 *)
(***************************************************************************)
EXTENDS Naturals, FiniteSets

CONSTANTS
    PipeTheUart,   \* the `pipeTheUart` setting
    MaxCmds        \* bound: number of commands given in the shell

ASSUME ConfigAssumption == PipeTheUart \in BOOLEAN /\ MaxCmds \in Nat

VARIABLES
    phase,          \* how far the main thread is
    cmds,           \* number of shell commands given so far
    requests,       \* RESET messages published and not yet received
    raced,          \* history: the numbers of the jobs that ran beside another
    job,            \* thread -> what it is doing
    proc,           \* thread -> the function its job is in
    at,             \* thread -> the point it reached
    serial,         \* thread -> the number of its job
    tgt,            \* thread -> xTarget of startUartPiping / startTtyLogging
    vic,            \* thread -> xTarget of endUartPiping
    log,            \* thread -> the logger its stopTtyLogging stops
    isUartPiped,    \* setting
    isTtyLogging,   \* setting
    targetObj,      \* setting: the current target object
    ttyLogger,      \* setting: the last logger stored
    uartSocatProc,  \* target object -> the last socat stored in it
    tty,            \* target object -> its process
    loggerState,    \* number -> TtyLogger thread: where run() is,
    loggerOf,       \*   the process it reads (None: there was no process),
    loggerStop,     \*   its stopLogging event
    socatState,     \* number -> socat process,
    socatOf,        \*   the target whose TTY it was given,
    client,         \*   whether a child of it serves a client
    exited          \* why the tool called os._exit, or "no"

settings == <<isUartPiped, isTtyLogging, targetObj, ttyLogger>>
threads  == <<job, proc, at, serial, tgt, vic, log>>
loggers  == <<loggerState, loggerOf, loggerStop>>
socats   == <<uartSocatProc, socatState, socatOf, client>>
devices  == <<tty, loggers, socats>>
user     == <<phase, cmds, requests, raced>>
vars     == <<user, threads, settings, devices, exited>>

Thread == {"main", "shell", "watchdog"}
Ids    == 0 .. MaxCmds
None   == MaxCmds + 1            \* no process, no logger, no socat

Job    == {"none", "launch", "pipe", "unpipe", "reset", "finish"}
Proc   == {"startUart", "startTty", "endUart", "stopTty", "tearDown", "renew",
           "spawn", "boot", "commands", "shutdown", "done"}
Point  == {"idle", "su_check", "su_logging", "su_popen", "su_set",
           "eu_check", "eu_kill", "eu_clear",
           "sl_check", "sl_piped", "sl_create", "sl_start", "sl_set",
           "st_check", "st_stop", "st_wait", "st_clear",
           "tearDown", "renew", "spawn", "boot", "commands", "shutdown"}

TypeOK ==
    /\ phase \in {"launch", "shell", "closing", "ending", "ended"}
    /\ cmds \in Ids
    /\ requests \subseteq Ids
    /\ raced \subseteq Ids
    /\ job \in [Thread -> Job]
    /\ proc \in [Thread -> Proc]
    /\ at \in [Thread -> Point]
    /\ serial \in [Thread -> Ids]
    /\ tgt \in [Thread -> Ids]
    /\ vic \in [Thread -> Ids]
    /\ log \in [Thread -> Ids]
    /\ isUartPiped \in BOOLEAN
    /\ isTtyLogging \in BOOLEAN
    /\ targetObj \in Ids
    /\ ttyLogger \in Ids
    /\ uartSocatProc \in [Ids -> Ids \cup {None}]
    /\ tty \in [Ids -> {"none", "up", "dead"}]
    /\ loggerState \in [Ids -> {"none", "new", "check", "read", "finished"}]
    /\ loggerOf \in [Ids -> Ids \cup {None}]
    /\ loggerStop \in [Ids -> BOOLEAN]
    /\ socatState \in [Ids -> {"none", "listening", "killed"}]
    /\ socatOf \in [Ids -> Ids \cup {None}]
    /\ client \in [Ids -> BOOLEAN]
    /\ exited \in {"no", "piping", "lost"}

------------------------------------------------------------------------------
(* What each job calls, in order.                                          *)

\* The handover at the end of a launch or of a reset.
Handover == IF PipeTheUart THEN "startUart" ELSE "startTty"

\* A changed form of the next definition: the handover precedes the boot.
HandoverFirst(j, p) ==
    IF j = "pipe"   /\ p = "stopTty" THEN "startUart" ELSE
    IF j = "unpipe" /\ p = "endUart" THEN "startTty" ELSE
    IF j = "reset"  /\ p = "endUart" THEN "stopTty" ELSE
    IF j = "reset"  /\ p = "stopTty" THEN "tearDown" ELSE
    IF j = "reset"  /\ p = "tearDown" THEN "renew" ELSE
    IF j = "reset"  /\ p = "renew" THEN Handover ELSE
    IF j = "reset"  /\ p = Handover THEN "spawn" ELSE
    "done"

\* The function a job calls after p returns.
After(j, p) ==
    IF j = "pipe"   /\ p = "stopTty" THEN "startUart" ELSE
    IF j = "unpipe" /\ p = "endUart" THEN "startTty" ELSE
    IF j = "reset"  /\ p = "endUart" THEN "stopTty" ELSE
    IF j = "reset"  /\ p = "stopTty" THEN "tearDown" ELSE
    IF j = "reset"  /\ p = "tearDown" THEN "renew" ELSE
    IF j = "reset"  /\ p = "renew" THEN "spawn" ELSE
    IF j = "reset"  /\ p = "spawn" THEN "boot" ELSE
    IF j = "reset"  /\ p = "boot" THEN Handover ELSE
    IF j = "reset"  /\ p = Handover THEN "commands" ELSE
    IF j = "finish" /\ p = "endUart" THEN "stopTty" ELSE
    IF j = "finish" /\ p = "stopTty" THEN "shutdown" ELSE
    "done"

\* The first point of a function.
Entry(p) ==
    IF p = "startUart" THEN "su_check" ELSE
    IF p = "startTty" THEN "sl_check" ELSE
    IF p = "endUart" THEN "eu_check" ELSE
    IF p = "stopTty" THEN "st_check" ELSE
    IF p = "done" THEN "idle" ELSE
    p

At(t, point) == at[t] = point
Goto(t, point) == /\ at' = [at EXCEPT ![t] = point]
                  /\ UNCHANGED <<job, proc>>

\* Function p returns in thread t: to the caller's next function, or, when
\* startUartPiping called stopTtyLogging (startTtyLogging called
\* endUartPiping), to the point after that call.
Return(t, p) ==
    IF proc[t] = p
    THEN LET q == After(job[t], p) IN
         /\ proc' = [proc EXCEPT ![t] = q]
         /\ at' = [at EXCEPT ![t] = Entry(q)]
         /\ job' = [job EXCEPT ![t] = IF q = "done" THEN "none" ELSE @]
    ELSE Goto(t, IF p = "stopTty" THEN "su_popen" ELSE "sl_create")

\* No lock keeps a job of one thread from running beside a job of another.
Beside(t) == {u \in Thread \ {t} : job[u] # "none"}

Begin(t, j, p, n) ==
    /\ job[t] = "none"
    /\ raced' = IF Beside(t) = {} THEN raced
                ELSE raced \cup {n} \cup {serial[u] : u \in Beside(t)}
    /\ job' = [job EXCEPT ![t] = j]
    /\ proc' = [proc EXCEPT ![t] = p]
    /\ at' = [at EXCEPT ![t] = Entry(p)]
    /\ serial' = [serial EXCEPT ![t] = n]

Exit(why) == /\ exited' = why
             /\ UNCHANGED <<user, threads, settings, devices>>

------------------------------------------------------------------------------
(* startUartPiping                                                         *)

StartUartCheck(t) ==
    /\ At(t, "su_check")
    /\ tgt' = [tgt EXCEPT ![t] = targetObj]
    /\ IF isUartPiped THEN Return(t, "startUart") ELSE Goto(t, "su_logging")
    /\ UNCHANGED <<user, serial, vic, log, settings, devices, exited>>

StartUartLogging(t) ==
    /\ At(t, "su_logging")
    /\ Goto(t, IF isTtyLogging THEN "st_check" ELSE "su_popen")
    /\ UNCHANGED <<user, serial, tgt, vic, log, settings, devices, exited>>

\* Popen on the file descriptor of the captured target's process; without a
\* process the exception handler terminates the tool.
StartUartPopen(t) ==
    /\ At(t, "su_popen")
    /\ IF tty[tgt[t]] = "none"
       THEN Exit("piping")
       ELSE /\ socatState' = [socatState EXCEPT ![serial[t]] = "listening"]
            /\ socatOf' = [socatOf EXCEPT ![serial[t]] = tgt[t]]
            /\ uartSocatProc' = [uartSocatProc EXCEPT ![tgt[t]] = serial[t]]
            /\ Goto(t, "su_set")
            /\ UNCHANGED <<user, serial, tgt, vic, log, settings, tty, loggers,
                           client, exited>>

StartUartSet(t) ==
    /\ At(t, "su_set")
    /\ isUartPiped' = TRUE
    /\ Return(t, "startUart")
    /\ UNCHANGED <<user, serial, tgt, vic, log, isTtyLogging, targetObj,
                   ttyLogger, devices, exited>>

------------------------------------------------------------------------------
(* endUartPiping                                                           *)

EndUartCheck(t) ==
    /\ At(t, "eu_check")
    /\ vic' = [vic EXCEPT ![t] = targetObj]
    /\ IF isUartPiped THEN Goto(t, "eu_kill") ELSE Return(t, "endUart")
    /\ UNCHANGED <<user, serial, tgt, log, settings, devices, exited>>

\* A changed form of the next definition: the socat is not killed.
NoKill(t) ==
    /\ At(t, "eu_kill")
    /\ Goto(t, "eu_clear")
    /\ UNCHANGED <<user, serial, tgt, vic, log, settings, devices, exited>>

\* SIGKILL reaches the listening socat only: a child it forked for a client
\* lives on.  Without a socat in the target the exception is swallowed.
EndUartKill(t) ==
    /\ At(t, "eu_kill")
    /\ LET p == uartSocatProc[vic[t]] IN
       socatState' = IF p = None THEN socatState
                     ELSE [socatState EXCEPT ![p] = "killed"]
    /\ Goto(t, "eu_clear")
    /\ UNCHANGED <<user, serial, tgt, vic, log, settings, tty, loggers,
                   uartSocatProc, socatOf, client, exited>>

\* A changed form of the next definition: the setting is left on.
KeepPiped(t) ==
    /\ At(t, "eu_clear")
    /\ Return(t, "endUart")
    /\ UNCHANGED <<user, serial, tgt, vic, log, settings, devices, exited>>

EndUartClear(t) ==
    /\ At(t, "eu_clear")
    /\ isUartPiped' = FALSE
    /\ Return(t, "endUart")
    /\ UNCHANGED <<user, serial, tgt, vic, log, isTtyLogging, targetObj,
                   ttyLogger, devices, exited>>

------------------------------------------------------------------------------
(* startTtyLogging                                                         *)

StartTtyCheck(t) ==
    /\ At(t, "sl_check")
    /\ tgt' = [tgt EXCEPT ![t] = targetObj]
    /\ IF isTtyLogging THEN Return(t, "startTty") ELSE Goto(t, "sl_piped")
    /\ UNCHANGED <<user, serial, vic, log, settings, devices, exited>>

StartTtyPiped(t) ==
    /\ At(t, "sl_piped")
    /\ Goto(t, IF isUartPiped THEN "eu_check" ELSE "sl_create")
    /\ UNCHANGED <<user, serial, tgt, vic, log, settings, devices, exited>>

\* TtyLogger.__init__ keeps the process the target has at that moment.
StartTtyCreate(t) ==
    /\ At(t, "sl_create")
    /\ loggerState' = [loggerState EXCEPT ![serial[t]] = "new"]
    /\ loggerOf' = [loggerOf EXCEPT ![serial[t]] =
                        IF tty[tgt[t]] = "none" THEN None ELSE tgt[t]]
    /\ ttyLogger' = serial[t]
    /\ Goto(t, "sl_start")
    /\ UNCHANGED <<user, serial, tgt, vic, log, isUartPiped, isTtyLogging,
                   targetObj, tty, loggerStop, socats, exited>>

StartTtyStart(t) ==
    /\ At(t, "sl_start")
    /\ loggerState' = [loggerState EXCEPT ![serial[t]] = "check"]
    /\ Goto(t, "sl_set")
    /\ UNCHANGED <<user, serial, tgt, vic, log, settings, tty, loggerOf,
                   loggerStop, socats, exited>>

StartTtySet(t) ==
    /\ At(t, "sl_set")
    /\ isTtyLogging' = TRUE
    /\ Return(t, "startTty")
    /\ UNCHANGED <<user, serial, tgt, vic, log, isUartPiped, targetObj,
                   ttyLogger, devices, exited>>

------------------------------------------------------------------------------
(* stopTtyLogging and TtyLogger.stop                                       *)

StopTtyCheck(t) ==
    /\ At(t, "st_check")
    /\ IF isTtyLogging THEN Goto(t, "st_stop") ELSE Return(t, "stopTty")
    /\ UNCHANGED <<user, serial, tgt, vic, log, settings, devices, exited>>

StopTtyStop(t) ==
    /\ At(t, "st_stop")
    /\ log' = [log EXCEPT ![t] = ttyLogger]
    /\ loggerStop' = [loggerStop EXCEPT ![ttyLogger] = TRUE]
    /\ Goto(t, "st_wait")
    /\ UNCHANGED <<user, serial, tgt, vic, settings, tty, loggerState, loggerOf,
                   socats, exited>>

StopTtyWait(t) ==
    /\ At(t, "st_wait")
    /\ loggerState[log[t]] = "finished"
    /\ Goto(t, "st_clear")
    /\ UNCHANGED <<user, serial, tgt, vic, log, settings, devices, exited>>

StopTtyClear(t) ==
    /\ At(t, "st_clear")
    /\ isTtyLogging' = FALSE
    /\ Return(t, "stopTty")
    /\ UNCHANGED <<user, serial, tgt, vic, log, isUartPiped, targetObj,
                   ttyLogger, devices, exited>>

------------------------------------------------------------------------------
(* The other steps of resetTarget and endCyberPhys                         *)

\* A live process is asked to end through its TTY; when it does not, the tool
\* terminates.
TearDown(t) ==
    /\ At(t, "tearDown")
    /\ \/ /\ tty' = [tty EXCEPT ![targetObj] = "dead"]
          /\ Return(t, "tearDown")
          /\ UNCHANGED <<user, serial, tgt, vic, log, settings, loggers, socats,
                         exited>>
       \/ tty[targetObj] = "up" /\ Exit("lost")

\* A changed form of the next definition: no object was instantiated.
RenewNothing(t) ==
    /\ At(t, "renew")
    /\ targetObj' = None
    /\ Return(t, "renew")
    /\ UNCHANGED <<user, serial, tgt, vic, log, isUartPiped, isTtyLogging,
                   ttyLogger, devices, exited>>

\* The new target object is stored before its process exists.
Renew(t) ==
    /\ At(t, "renew")
    /\ targetObj' = serial[t]
    /\ Return(t, "renew")
    /\ UNCHANGED <<user, serial, tgt, vic, log, isUartPiped, isTtyLogging,
                   ttyLogger, devices, exited>>

\* newTarget.start spawns the process ...
Spawn(t) ==
    /\ At(t, "spawn")
    /\ tty' = [tty EXCEPT ![targetObj] = "up"]
    /\ Return(t, "spawn")
    /\ UNCHANGED <<user, serial, tgt, vic, log, settings, loggers, socats, exited>>

\* ... and reads its TTY until the login; runCyberPhys (resetTarget) and
\* shutdown (endCyberPhys) type commands and read the answers.  A timeout or
\* an EOF under one of them terminates the tool.
Drive(t, p) ==
    /\ At(t, p)
    /\ \/ /\ tty[targetObj] = "up"
          /\ Return(t, p)
          /\ UNCHANGED <<user, serial, tgt, vic, log, settings, devices, exited>>
       \/ Exit("lost")

------------------------------------------------------------------------------
(* The main thread, the user at the shell and the watchdog thread          *)

\* startCyberPhys went through the handover: components and shell start.
OpenShell ==
    /\ phase = "launch"
    /\ job["main"] = "none"
    /\ phase' = "shell"
    /\ UNCHANGED <<cmds, requests, raced, threads, settings, devices, exited>>

\* The shell waits for its own command only: a reset may be under way.
Prompt ==
    /\ phase = "shell"
    /\ job["shell"] = "none"
    /\ cmds < MaxCmds
    /\ cmds' = cmds + 1

DoPipeStart ==
    /\ Prompt
    /\ Begin("shell", "pipe", "stopTty", cmds + 1)
    /\ UNCHANGED <<phase, requests, tgt, vic, log, settings, devices, exited>>

DoPipeStop ==
    /\ Prompt
    /\ Begin("shell", "unpipe", "endUart", cmds + 1)
    /\ UNCHANGED <<phase, requests, tgt, vic, log, settings, devices, exited>>

DoRestart ==
    /\ Prompt
    /\ requests' = requests \cup {cmds + 1}
    /\ UNCHANGED <<phase, raced, threads, settings, devices, exited>>

DoExit ==
    /\ phase = "shell"
    /\ job["shell"] = "none"
    /\ phase' = "closing"
    /\ UNCHANGED <<cmds, requests, raced, threads, settings, devices, exited>>

\* A changed form of the next definition: resetTarget does not end the piping.
ResetKeepsPipe ==
    /\ phase \in {"shell", "closing"}
    /\ \E n \in requests :
         /\ \A m \in requests : n <= m
         /\ Begin("watchdog", "reset", "stopTty", n)
         /\ requests' = requests \ {n}
    /\ UNCHANGED <<phase, cmds, tgt, vic, log, settings, devices, exited>>

\* The watchdog component receives the oldest RESET message.
ResetTarget ==
    /\ phase \in {"shell", "closing"}
    /\ \E n \in requests :
         /\ \A m \in requests : n <= m
         /\ Begin("watchdog", "reset", "endUart", n)
         /\ requests' = requests \ {n}
    /\ UNCHANGED <<phase, cmds, tgt, vic, log, settings, devices, exited>>

\* A changed form of the next definition: the piping is not ended.
EndKeepsPipe ==
    /\ phase = "closing"
    /\ job["watchdog"] = "none"
    /\ Begin("main", "finish", "stopTty", 0)
    /\ phase' = "ending"
    /\ UNCHANGED <<cmds, requests, tgt, vic, log, settings, devices, exited>>

\* startCyberPhys joined the shell and the components; a RESET message that
\* was not received by then is lost.
EndCyberPhys ==
    /\ phase = "closing"
    /\ job["watchdog"] = "none"
    /\ Begin("main", "finish", "endUart", 0)
    /\ phase' = "ending"
    /\ UNCHANGED <<cmds, requests, tgt, vic, log, settings, devices, exited>>

Ended ==
    /\ phase = "ending"
    /\ job["main"] = "none"
    /\ phase' = "ended"
    /\ UNCHANGED <<cmds, requests, raced, threads, settings, devices, exited>>

------------------------------------------------------------------------------
(* TtyLogger.run, the target's process and the clients of the socat        *)

LoggerGoes(l, state) ==
    /\ loggerState' = [loggerState EXCEPT ![l] = state]
    /\ UNCHANGED <<user, threads, settings, tty, loggerOf, loggerStop, socats,
                   exited>>

\* A changed form of the next definition: stopLogging is not looked at.
NeverStops(l) ==
    /\ loggerState[l] = "check"
    /\ LoggerGoes(l, "read")

LoggerCheck(l) ==
    /\ loggerState[l] = "check"
    /\ LoggerGoes(l, IF loggerStop[l] THEN "finished" ELSE "read")

\* read_nonblocking returned data or raised TIMEOUT within a second.
LoggerRead(l) ==
    /\ loggerState[l] = "read"
    /\ loggerOf[l] # None
    /\ LoggerGoes(l, "check")

\* Any other exception: EOF of a dead process, or there never was one.
LoggerFails(l) ==
    /\ loggerState[l] = "read"
    /\ loggerOf[l] # None => tty[loggerOf[l]] = "dead"
    /\ LoggerGoes(l, "finished")

ProcessDies(g) ==
    /\ tty[g] = "up"
    /\ tty' = [tty EXCEPT ![g] = "dead"]
    /\ UNCHANGED <<user, threads, settings, loggers, socats, exited>>

\* `fork,max-children=1`: one child serves one client at a time.
ClientConnects(s) ==
    /\ socatState[s] = "listening"
    /\ ~client[s]
    /\ client' = [client EXCEPT ![s] = TRUE]
    /\ UNCHANGED <<user, threads, settings, tty, loggers, uartSocatProc,
                   socatState, socatOf, exited>>

ClientLeaves(s) ==
    /\ client[s]
    /\ client' = [client EXCEPT ![s] = FALSE]
    /\ UNCHANGED <<user, threads, settings, tty, loggers, uartSocatProc,
                   socatState, socatOf, exited>>

------------------------------------------------------------------------------
Init ==
    /\ phase = "launch"
    /\ cmds = 0
    /\ requests = {}
    /\ raced = {}
    /\ job = [t \in Thread |-> IF t = "main" THEN "launch" ELSE "none"]
    /\ proc = [t \in Thread |-> IF t = "main" THEN Handover ELSE "done"]
    /\ at = [t \in Thread |-> IF t = "main" THEN Entry(Handover) ELSE "idle"]
    /\ serial = [t \in Thread |-> 0]
    /\ tgt = [t \in Thread |-> 0]
    /\ vic = [t \in Thread |-> 0]
    /\ log = [t \in Thread |-> 0]
    /\ isUartPiped = FALSE
    /\ isTtyLogging = FALSE
    /\ targetObj = 0
    /\ ttyLogger = 0
    /\ uartSocatProc = [g \in Ids |-> None]
    /\ tty = [g \in Ids |-> IF g = 0 THEN "up" ELSE "none"]
    /\ loggerState = [l \in Ids |-> "none"]
    /\ loggerOf = [l \in Ids |-> None]
    /\ loggerStop = [l \in Ids |-> FALSE]
    /\ socatState = [s \in Ids |-> "none"]
    /\ socatOf = [s \in Ids |-> None]
    /\ client = [s \in Ids |-> FALSE]
    /\ exited = "no"

Step(t) ==
    \/ StartUartCheck(t) \/ StartUartLogging(t)
    \/ StartUartPopen(t) \/ StartUartSet(t)
    \/ EndUartCheck(t) \/ EndUartKill(t) \/ EndUartClear(t)
    \/ StartTtyCheck(t) \/ StartTtyPiped(t) \/ StartTtyCreate(t)
    \/ StartTtyStart(t) \/ StartTtySet(t)
    \/ StopTtyCheck(t) \/ StopTtyStop(t) \/ StopTtyWait(t) \/ StopTtyClear(t)
    \/ TearDown(t) \/ Renew(t) \/ Spawn(t)
    \/ \E p \in {"boot", "commands", "shutdown"} : Drive(t, p)

MainStep   == OpenShell \/ EndCyberPhys \/ Ended
LogStep(l) == LoggerCheck(l) \/ LoggerRead(l) \/ LoggerFails(l)

Act == \/ \E t \in Thread : Step(t)
       \/ MainStep \/ DoPipeStart \/ DoPipeStop \/ DoRestart \/ DoExit
       \/ ResetTarget
       \/ \E l \in Ids : LogStep(l)
       \/ \E g \in Ids : ProcessDies(g)
       \/ \E s \in Ids : ClientConnects(s) \/ ClientLeaves(s)

\* The tool has ended, in order or through os._exit.
Stopped == (phase = "ended" \/ exited # "no") /\ UNCHANGED vars

Next == (exited = "no" /\ Act) \/ Stopped

\* The tool's threads and the loggers are run; a boot, a command and a read
\* end (each has a timeout); nobody owes a command, a client or a death.
Fairness ==
    /\ \A t \in Thread : WF_vars(exited = "no" /\ Step(t))
    /\ \A l \in Ids : WF_vars(exited = "no" /\ LogStep(l))
    /\ WF_vars(exited = "no" /\ MainStep)
    /\ WF_vars(exited = "no" /\ ResetTarget)

Spec == Init /\ [][Next]_vars
FairSpec == Spec /\ Fairness

------------------------------------------------------------------------------
(* Properties                                                              *)

LiveLoggers(g) == {l \in Ids : /\ loggerOf[l] = g
                               /\ loggerState[l] \in {"new", "check", "read"}}
LiveSocats(g)  == {s \in Ids : socatOf[s] = g /\ socatState[s] = "listening"}

\* A target's terminal is handed over once: two loggers, two listeners or a
\* logger and a listener that were started by jobs that ran alone never hold
\* the same process (startUartPiping and startTtyLogging turn the other one off
\* first).  Whatever two jobs that run beside each other do to the settings
\* they check and set without a lock, only they can leave a second one.  A
\* child that a killed socat forked for a client is not one of them: nothing
\* ends it.
HandedOverOnce ==
    \A g \in Ids :
        LET loggersOf == LiveLoggers(g) \ raced
            socatsOf  == LiveSocats(g) \ raced IN
        /\ loggersOf = {} \/ socatsOf = {}
        /\ \A l, m \in loggersOf : l = m
        /\ \A r, s \in socatsOf : r = s

\* The tool boots, tears down and shuts down a target only while neither a
\* logger nor a listener holds its terminal (resetTarget and endCyberPhys end
\* both first; the boot of a reset precedes its handover), but for one of a job
\* that ran beside another.
DrivesAlone ==
    \A t \in Thread : at[t] \in {"tearDown", "boot", "shutdown"} =>
        LiveLoggers(targetObj) \cup LiveSocats(targetObj) \subseteq raced

\* Whenever no thread is inside a job, exactly one of the two settings is set
\* and it tells the truth about the current target: the stored listener
\* listens on it, or the stored logger drains it (unless its process died).
\* After jobs that ran beside one another this holds again from the next reset
\* that ran alone.
SettingsTellTruth ==
    (phase \in {"shell", "closing"} /\ exited = "no"
        /\ (\A t \in Thread : job[t] = "none")
        /\ (\A n \in raced : n < targetObj)) =>
      /\ isUartPiped # isTtyLogging
      /\ isUartPiped => uartSocatProc[targetObj] \in LiveSocats(targetObj)
      /\ isTtyLogging => \/ ttyLogger \in LiveLoggers(targetObj)
                         \/ tty[targetObj] = "dead"

\* When the tool ends in order no listener or logger is left behind on any
\* target, but for those of jobs that ran beside another one.
NothingLeft ==
    phase = "ended" =>
        \A g \in Ids : LiveLoggers(g) \cup LiveSocats(g) \subseteq raced

\* The piping terminates the tool only in a job that ran beside another:
\* startUartPiping otherwise finds the process of a booted target (the handler
\* of its Popen is not reached).
PipingExitsInRacesOnly ==
    exited = "piping" =>
        \E t \in Thread : at[t] = "su_popen" /\ serial[t] \in raced

\* Every job ends (stopTtyLogging never waits for ever on a logger), unless
\* the tool exits: in particular every accepted reset comes to an end, whatever
\* the user types meanwhile.
JobsFinish ==
    \A t \in Thread : job[t] # "none" ~> (job[t] = "none" \/ exited # "no")

\* The settings, the objects they name and the ends of a session: well typed,
\* the settings truthful, no owner left behind and no exit out of the piping,
\* after any sequence of the functions of cyberPhys/launch.py:178-258.
PipingInv ==
    /\ TypeOK
    /\ SettingsTellTruth
    /\ NothingLeft
    /\ PipingExitsInRacesOnly
==============================================================================
