-------------------------- MODULE TargetTty_proofs --------------------------
(***************************************************************************)
(* What TLAPS proves of TargetTty, for every number of shell commands,     *)
(* both values of pipeTheUart and every interleaving of the three threads: *)
(* the type invariant, HandedOverOnce, DrivesAlone and PipingInv.          *)
(*                                                                         *)
(* None of them is inductive.  A job that runs alone finds the settings as *)
(* it left them at each point of the four functions (Lones).  What it      *)
(* started is safe from jobs that race later (Held): none of them gets     *)
(* past the check that sees it, so none overwrites the setting that names  *)
(* it, and the first that clears this setting has ended it.  That nothing  *)
(* is missing either (Told) holds of a session without races since the     *)
(* last reset, which the numbers of the jobs tell (Counted, Healed).       *)
(***************************************************************************)
EXTENDS TargetTty, TLAPS

Live      == {"new", "check", "read"}
StartUart == {"su_check", "su_logging", "su_popen", "su_set"}
StartTty  == {"sl_check", "sl_piped", "sl_create", "sl_start", "sl_set"}
EndUart   == {"eu_check", "eu_kill", "eu_clear"}
StopTty   == {"st_check", "st_stop", "st_wait", "st_clear"}
Alone     == {"tearDown", "renew", "spawn", "boot", "shutdown"}

\* The listeners and loggers of jobs that ran alone.
CleanSocat(s)  == s \notin raced /\ socatState[s] = "listening"
CleanLogger(l) == l \notin raced /\ loggerState[l] \in Live
NoListener == \A s \in Ids : ~CleanSocat(s)
NoLogger   == \A l \in Ids : ~CleanLogger(l)

Busy(t) == at[t] # "idle"
Lone(t) == Busy(t) /\ serial[t] \notin raced

\* Which threads are inside a job, and when: main never beside another.
Turns ==
    /\ \A t \in Thread : job[t] = "none" <=> ~Busy(t)
    /\ Busy("main") => phase \in {"launch", "ending"}
    /\ Busy("main") \/ phase = "launch" => ~Busy("shell") /\ ~Busy("watchdog")
    /\ Busy("shell") => phase = "shell"
    /\ Busy("watchdog") => phase \in {"shell", "closing"}

\* Which function of the job a thread is in, from its point.
Flow(t) ==
    /\ at[t] \in StartUart => proc[t] = "startUart"
    /\ at[t] \in StartTty => proc[t] = "startTty"
    /\ at[t] \in EndUart => proc[t] \in {"endUart", "startTty"}
    /\ at[t] \in StopTty => proc[t] \in {"stopTty", "startUart"}
    /\ at[t] \in Alone \cup {"commands"} => proc[t] = at[t]

\* Which job a thread has, and which functions a job goes through.
Planned(t) ==
    Busy(t) =>
        /\ t = "main" => job[t] = (IF phase = "launch" THEN "launch" ELSE "finish")
        /\ t = "shell" => job[t] \in {"pipe", "unpipe"}
        /\ t = "watchdog" => job[t] = "reset"
        /\ proc[t] = "endUart" => job[t] \in {"unpipe", "reset", "finish"}
        /\ proc[t] = "stopTty" => job[t] \in {"pipe", "reset", "finish"}
        /\ proc[t] \in {"startUart", "startTty"} => job[t] # "finish"
        /\ proc[t] \in {"tearDown", "renew", "spawn", "boot", "commands"} => job[t] = "reset"
        /\ proc[t] = "shutdown" => job[t] = "finish"
        /\ proc[t] # "done"

Controlled == TypeOK /\ Turns /\ \A t \in Thread : Flow(t) /\ Planned(t)

\* The numbers: RESET messages are received in their order, a reset gives its
\* number to the target object it makes, and the job of the shell has the
\* newest one.
Counted ==
    /\ 0 \notin raced
    /\ targetObj <= cmds
    /\ \A n \in requests : targetObj < n /\ n <= cmds
    /\ Busy("main") => serial["main"] = 0
    /\ Busy("shell") => /\ serial["shell"] = cmds
                        /\ targetObj < cmds /\ cmds \notin requests
    /\ Busy("watchdog") =>
         /\ 0 < serial["watchdog"] /\ serial["watchdog"] <= cmds
         /\ \A n \in requests : serial["watchdog"] < n
         /\ Busy("shell") => serial["watchdog"] < cmds
         /\ IF proc["watchdog"] \in {"endUart", "stopTty", "tearDown", "renew"}
            THEN targetObj < serial["watchdog"]
            ELSE targetObj = serial["watchdog"]

\* A logger that a job will create was not told to stop already.
Unused == \A n \in Ids : n > cmds \/ n \in requests => ~loggerStop[n] /\ ttyLogger # n
Fresh(t) ==
    /\ job[t] \in {"pipe", "unpipe", "reset"} /\ at[t] \notin {"sl_start", "sl_set", "commands"}
         => ~loggerStop[serial[t]] /\ ttyLogger # serial[t]
    /\ job[t] = "launch" => /\ at[t] \notin StopTty
                            /\ at[t] \in StartUart => ~isTtyLogging
                            /\ \A l \in Ids : ~loggerStop[l]

Numbered == Counted /\ Unused /\ \A t \in Thread : Fresh(t)

\* The current target object has a process, but for the time between its
\* instantiation and its start.
Booted == tty[targetObj] # "none" \/ at["watchdog"] = "spawn"

\* A job that did not run beside another is alone now.
Solo == \A t, u \in Thread : Lone(t) /\ u # t => ~Busy(u)

\* What such a job finds in startUartPiping and endUartPiping ...
UartPoint(t) ==
    /\ (\/ at[t] \in {"su_logging", "su_popen"}
        \/ at[t] \in StopTty /\ proc[t] = "startUart")
         => ~isUartPiped /\ tgt[t] = targetObj
    /\ at[t] \in {"su_popen", "su_set"} => ~isUartPiped /\ ~isTtyLogging
    /\ at[t] \in {"eu_kill", "eu_clear"} => isUartPiped /\ vic[t] = targetObj
    /\ at[t] = "eu_clear" => NoListener

\* ... in startTtyLogging and stopTtyLogging ...
TtyPoint(t) ==
    /\ (\/ at[t] \in StartTty \ {"sl_check"}
        \/ at[t] \in EndUart /\ proc[t] = "startTty")
         => ~isTtyLogging /\ tgt[t] = targetObj
    /\ at[t] \in {"sl_create", "sl_start", "sl_set"} => ~isUartPiped
    /\ at[t] \in {"sl_start", "sl_set"} => ttyLogger = serial[t]
    /\ at[t] \in {"st_stop", "st_wait", "st_clear"} => isTtyLogging
    /\ at[t] = "st_wait" => log[t] = ttyLogger
    /\ at[t] = "st_clear" => NoLogger

\* ... and in resetTarget and endCyberPhys.
DrivePoint(t) ==
    /\ at[t] \in StopTty /\ proc[t] = "stopTty" /\ job[t] \in {"reset", "finish"}
         => ~isUartPiped
    /\ at[t] \in Alone => ~isUartPiped /\ ~isTtyLogging

Points(t) == UartPoint(t) /\ TtyPoint(t) /\ DrivePoint(t)
Lones == \A t \in Thread : Lone(t) => Points(t)

\* While a listener of a job that ran alone listens, nobody is past a check
\* of isUartPiped that found it off, and nobody tears down or renews.
SocatPoint(s, t) ==
    /\ at[t] \notin {"su_logging", "su_popen", "eu_clear"}
    /\ at[t] = "su_set" => serial[t] = s
    /\ at[t] \in StopTty => proc[t] # "startUart"
    /\ at[t] = "eu_kill" => vic[t] = targetObj
    /\ job[t] \in {"reset", "finish"} =>
         \/ at[t] \in {"eu_check", "eu_kill"}
         \/ serial[t] = s /\ at[t] \in {"su_set", "commands"}

KeptSocat(s) ==
    /\ socatOf[s] = targetObj /\ uartSocatProc[targetObj] = s
    /\ isUartPiped \/ \E t \in Thread : at[t] = "su_set" /\ serial[t] = s
    /\ \A t \in Thread : SocatPoint(s, t)
    /\ phase \in {"ending", "ended"} => at["main"] \in {"eu_check", "eu_kill"}

\* The same of a logger and isTtyLogging.
LoggerPoint(l, t) ==
    /\ at[t] \notin {"sl_piped", "sl_create", "st_clear"}
    /\ at[t] \in {"sl_start", "sl_set"} => serial[t] = l
    /\ at[t] \in EndUart => proc[t] # "startTty"
    /\ at[t] = "st_wait" => log[t] = l
    /\ job[t] \in {"reset", "finish"} =>
         \/ at[t] \in EndUart \cup {"st_check", "st_stop", "st_wait"}
         \/ serial[t] = l /\ at[t] \in {"sl_start", "sl_set", "commands"}

KeptLogger(l) ==
    /\ ttyLogger = l
    /\ isTtyLogging \/ \E t \in Thread : at[t] \in {"sl_start", "sl_set"} /\ serial[t] = l
    /\ \A t \in Thread : LoggerPoint(l, t)
    /\ phase \in {"ending", "ended"} =>
         at["main"] \in EndUart \cup {"st_check", "st_stop", "st_wait"}

Held == /\ NoListener \/ NoLogger
        /\ \A s \in Ids : CleanSocat(s) => KeptSocat(s)
        /\ \A l \in Ids : CleanLogger(l) => KeptLogger(l)

Owned == Controlled /\ Numbered /\ Booted /\ Solo /\ Lones /\ Held

------------------------------------------------------------------------------
(* Type correctness                                                        *)

\* What a job goes through after each of its functions is typed.
LEMMA PlanType ==
    ASSUME NEW j, NEW p
    PROVE  /\ After(j, p) \in Proc
           /\ \A q \in Proc : Entry(q) \in Point
<1>1. Handover \in Proc
  BY DEF Handover, Proc
<1>2. After(j, p) \in Proc
  BY <1>1 DEF After, Proc
<1>3. \A q \in Proc : Entry(q) \in Point
  BY DEF Entry, Proc, Point
<1> QED
  BY <1>2, <1>3

\* What Goto and Return do to the control of a thread keeps its types.
LEMMA GotoType ==
    ASSUME TypeOK, NEW t \in Thread, NEW point \in Point, Goto(t, point)
    PROVE  /\ job' \in [Thread -> Job]
           /\ proc' \in [Thread -> Proc]
           /\ at' \in [Thread -> Point]
BY DEF TypeOK, Goto

\* ... and so does the end of a function.
LEMMA ReturnType ==
    ASSUME TypeOK, NEW t \in Thread, NEW p \in Proc, Return(t, p)
    PROVE  /\ job' \in [Thread -> Job]
           /\ proc' \in [Thread -> Proc]
           /\ at' \in [Thread -> Point]
<1>1. CASE proc[t] = p
  <2> DEFINE q == After(job[t], p)
  <2>1. q \in Proc /\ Entry(q) \in Point
    BY PlanType
  <2>2. /\ proc' = [proc EXCEPT ![t] = q]
        /\ at' = [at EXCEPT ![t] = Entry(q)]
        /\ job' = [job EXCEPT ![t] = IF q = "done" THEN "none" ELSE @]
    BY <1>1 DEF Return
  <2> HIDE DEF q
  <2> QED
    BY <2>1, <2>2 DEF TypeOK, Job
<1>2. CASE proc[t] # p
  <2>1. Goto(t, IF p = "stopTty" THEN "su_popen" ELSE "sl_create")
    BY <1>2 DEF Return
  <2> QED
    BY <2>1, GotoType DEF Point
<1> QED
  BY <1>1, <1>2

\* The control of a thread is well typed after any step of it.
LEMMA ControlType ==
    ASSUME TypeOK, NEW t \in Thread, Step(t)
    PROVE  /\ job' \in [Thread -> Job]
           /\ proc' \in [Thread -> Proc]
           /\ at' \in [Thread -> Point]
<1> DEFINE Typed == /\ job' \in [Thread -> Job]
                    /\ proc' \in [Thread -> Proc]
                    /\ at' \in [Thread -> Point]
<1>1. \A p \in Proc : Return(t, p) => Typed
  BY ReturnType
<1>2. \A q \in Point : Goto(t, q) => Typed
  BY GotoType
<1>3. \A why : Exit(why) => Typed
  BY DEF Exit, TypeOK, threads
<1> SUFFICES Typed
  OBVIOUS
<1> HIDE DEF Typed
<1>4. CASE StartUartCheck(t)
  BY <1>4, <1>1, <1>2 DEF StartUartCheck, Proc, Point
<1>5. CASE StartTtyCheck(t)
  BY <1>5, <1>1, <1>2 DEF StartTtyCheck, Proc, Point
<1>6. CASE EndUartCheck(t)
  BY <1>6, <1>1, <1>2 DEF EndUartCheck, Proc, Point
<1>7. CASE StopTtyCheck(t)
  BY <1>7, <1>1, <1>2 DEF StopTtyCheck, Proc, Point
<1>8. CASE StartUartSet(t)
  BY <1>8, <1>1 DEF StartUartSet, Proc
<1>9. CASE EndUartClear(t)
  BY <1>9, <1>1 DEF EndUartClear, Proc
<1>10. CASE StartTtySet(t)
  BY <1>10, <1>1 DEF StartTtySet, Proc
<1>11. CASE StopTtyClear(t)
  BY <1>11, <1>1 DEF StopTtyClear, Proc
<1>12. CASE Renew(t)
  BY <1>12, <1>1 DEF Renew, Proc
<1>13. CASE Spawn(t)
  BY <1>13, <1>1 DEF Spawn, Proc
<1>14. CASE StartUartLogging(t)
  BY <1>14, <1>2 DEF StartUartLogging, Point
<1>15. CASE EndUartKill(t)
  BY <1>15, <1>2 DEF EndUartKill, Point
<1>16. CASE StartTtyPiped(t)
  BY <1>16, <1>2 DEF StartTtyPiped, Point
<1>17. CASE StartTtyCreate(t)
  BY <1>17, <1>2 DEF StartTtyCreate, Point
<1>18. CASE StartTtyStart(t)
  BY <1>18, <1>2 DEF StartTtyStart, Point
<1>19. CASE StopTtyStop(t)
  BY <1>19, <1>2 DEF StopTtyStop, Point
<1>20. CASE StopTtyWait(t)
  BY <1>20, <1>2 DEF StopTtyWait, Point
<1>21. CASE StartUartPopen(t)
  BY <1>21, <1>2, <1>3 DEF StartUartPopen, Point
<1>22. CASE TearDown(t)
  BY <1>22, <1>1, <1>3 DEF TearDown, Proc
<1>23. CASE \E p \in {"boot", "commands", "shutdown"} : Drive(t, p)
  BY <1>23, <1>1, <1>3 DEF Drive, Proc
<1> QED
  BY <1>4, <1>5, <1>6, <1>7, <1>8, <1>9, <1>10, <1>11, <1>12, <1>13, <1>14, <1>15, <1>16, <1>17, <1>18, <1>19, <1>20, <1>21, <1>22, <1>23 DEF Step

\* A step inside a job keeps every type.
LEMMA StepType ==
    ASSUME TypeOK, NEW t \in Thread, Step(t)
    PROVE  TypeOK'
<1> USE DEF user, threads, settings, loggers, socats, devices
<1>1. /\ job' \in [Thread -> Job]
      /\ proc' \in [Thread -> Proc]
      /\ at' \in [Thread -> Point]
  BY ControlType
<1>2. ASSUME NEW why \in {"piping", "lost"}, Exit(why)
      PROVE  TypeOK'
  BY <1>2 DEF TypeOK, Exit
<1>3. CASE StartUartCheck(t)
  BY <1>1, <1>3 DEF StartUartCheck, TypeOK
<1>4. CASE StartUartLogging(t)
  BY <1>1, <1>4 DEF StartUartLogging, TypeOK
<1>5. CASE StartUartSet(t)
  BY <1>1, <1>5 DEF StartUartSet, TypeOK
<1>6. CASE EndUartCheck(t)
  BY <1>1, <1>6 DEF EndUartCheck, TypeOK
<1>7. CASE EndUartKill(t)
  BY <1>1, <1>7 DEF EndUartKill, TypeOK
<1>8. CASE EndUartClear(t)
  BY <1>1, <1>8 DEF EndUartClear, TypeOK
<1>9. CASE StartTtyCheck(t)
  BY <1>1, <1>9 DEF StartTtyCheck, TypeOK
<1>10. CASE StartTtyPiped(t)
  BY <1>1, <1>10 DEF StartTtyPiped, TypeOK
<1>11. CASE StartTtyCreate(t)
  BY <1>1, <1>11 DEF StartTtyCreate, TypeOK
<1>12. CASE StartTtyStart(t)
  BY <1>1, <1>12 DEF StartTtyStart, TypeOK
<1>13. CASE StartTtySet(t)
  BY <1>1, <1>13 DEF StartTtySet, TypeOK
<1>14. CASE StopTtyCheck(t)
  BY <1>1, <1>14 DEF StopTtyCheck, TypeOK
<1>15. CASE StopTtyStop(t)
  BY <1>1, <1>15 DEF StopTtyStop, TypeOK
<1>16. CASE StopTtyWait(t)
  BY <1>1, <1>16 DEF StopTtyWait, TypeOK
<1>17. CASE StopTtyClear(t)
  BY <1>1, <1>17 DEF StopTtyClear, TypeOK
<1>18. CASE Renew(t)
  BY <1>1, <1>18 DEF Renew, TypeOK
<1>19. CASE Spawn(t)
  BY <1>1, <1>19 DEF Spawn, TypeOK
<1>20. CASE StartUartPopen(t)
  BY <1>1, <1>2, <1>20 DEF StartUartPopen, TypeOK
<1>21. CASE TearDown(t)
  BY <1>1, <1>2, <1>21 DEF TearDown, TypeOK
<1>22. CASE \E p \in {"boot", "commands", "shutdown"} : Drive(t, p)
  BY <1>1, <1>2, <1>22 DEF Drive, TypeOK
<1> QED
  BY <1>3, <1>4, <1>5, <1>6, <1>7, <1>8, <1>9, <1>10, <1>11, <1>12, <1>13, <1>14, <1>15, <1>16, <1>17, <1>18, <1>19, <1>20, <1>21, <1>22 DEF Step

\* The other steps: the main thread, the shell, the receipt of a RESET, the
\* logger threads, the processes and the clients.
LEMMA RestType ==
    ASSUME TypeOK,
           \/ MainStep \/ DoPipeStart \/ DoPipeStop \/ DoRestart \/ DoExit
           \/ ResetTarget
           \/ \E l \in Ids : LogStep(l)
           \/ \E g \in Ids : ProcessDies(g)
           \/ \E s \in Ids : ClientConnects(s) \/ ClientLeaves(s)
    PROVE  TypeOK'
<1> USE DEF user, threads, settings, loggers, socats, devices
<1>1. 0 \in Ids /\ (cmds < MaxCmds => cmds + 1 \in Ids)
  BY ConfigAssumption DEF TypeOK, Ids
<1>2. \A t, j, p, n : t \in Thread /\ j \in Job /\ p \in Proc /\ n \in Ids
          /\ Begin(t, j, p, n) =>
            /\ job' \in [Thread -> Job]
            /\ proc' \in [Thread -> Proc]
            /\ at' \in [Thread -> Point]
            /\ serial' \in [Thread -> Ids]
            /\ raced' \subseteq Ids
  <2> SUFFICES ASSUME NEW t \in Thread, NEW j \in Job, NEW p \in Proc, NEW n \in Ids,
                      Begin(t, j, p, n)
               PROVE  /\ job' \in [Thread -> Job]
                      /\ proc' \in [Thread -> Proc]
                      /\ at' \in [Thread -> Point]
                      /\ serial' \in [Thread -> Ids]
                      /\ raced' \subseteq Ids
    OBVIOUS
  <2>1. Entry(p) \in Point
    BY PlanType
  <2>2. {serial[u] : u \in Beside(t)} \subseteq Ids
    BY DEF Beside, TypeOK
  <2>3. raced' \subseteq Ids
    BY <2>2 DEF Begin, TypeOK
  <2> QED
    BY <2>1, <2>3 DEF Begin, TypeOK
<1>3. CASE OpenShell \/ Ended \/ DoExit
  BY <1>3 DEF OpenShell, Ended, DoExit, TypeOK
<1>4. CASE EndCyberPhys
  <2>1. Begin("main", "finish", "endUart", 0)
    BY <1>4 DEF EndCyberPhys
  <2> QED
    BY <1>1, <1>2, <1>4, <2>1 DEF EndCyberPhys, TypeOK, Thread, Job, Proc
<1>5. CASE DoPipeStart
  <2>1. cmds + 1 \in Ids /\ Begin("shell", "pipe", "stopTty", cmds + 1)
    BY <1>1, <1>5 DEF DoPipeStart, Prompt
  <2> QED
    BY <1>2, <1>5, <2>1 DEF DoPipeStart, Prompt, TypeOK, Thread, Job, Proc
<1>6. CASE DoPipeStop
  <2>1. cmds + 1 \in Ids /\ Begin("shell", "unpipe", "endUart", cmds + 1)
    BY <1>1, <1>6 DEF DoPipeStop, Prompt
  <2> QED
    BY <1>2, <1>6, <2>1 DEF DoPipeStop, Prompt, TypeOK, Thread, Job, Proc
<1>7. CASE DoRestart
  BY <1>1, <1>7 DEF DoRestart, Prompt, TypeOK
<1>8. CASE ResetTarget
  <2>1. PICK n \in requests : /\ Begin("watchdog", "reset", "endUart", n)
                              /\ requests' = requests \ {n}
    BY <1>8 DEF ResetTarget
  <2>2. n \in Ids
    BY DEF TypeOK
  <2> QED
    BY <1>2, <1>8, <2>1, <2>2 DEF ResetTarget, TypeOK, Thread, Job, Proc
<1>9. CASE \E l \in Ids : LogStep(l)
  BY <1>9 DEF LogStep, LoggerCheck, LoggerRead, LoggerFails, LoggerGoes, TypeOK
<1>10. CASE \E g \in Ids : ProcessDies(g)
  BY <1>10 DEF ProcessDies, TypeOK
<1>11. CASE \E s \in Ids : ClientConnects(s) \/ ClientLeaves(s)
  <2>1. PICK s \in Ids : \/ client' = [client EXCEPT ![s] = TRUE]
                         \/ client' = [client EXCEPT ![s] = FALSE]
    BY <1>11 DEF ClientConnects, ClientLeaves
  <2>2. client' \in [Ids -> BOOLEAN]
    BY <2>1 DEF TypeOK
  <2>3. /\ UNCHANGED <<user, threads, settings, tty, loggers>>
        /\ UNCHANGED <<uartSocatProc, socatState, socatOf, exited>>
    BY <1>11 DEF ClientConnects, ClientLeaves
  <2> QED
    BY <2>2, <2>3 DEF TypeOK
<1> QED
  BY <1>3, <1>4, <1>5, <1>6, <1>7, <1>8, <1>9, <1>10, <1>11 DEF MainStep

\* The launch begins well typed.
LEMMA InitType == Init => TypeOK
<1>1. Handover \in Proc /\ Entry(Handover) \in Point
  BY DEF Handover, Entry, Proc, Point
<1>2. 0 \in Ids
  BY ConfigAssumption DEF Ids
<1> SUFFICES ASSUME Init
             PROVE  TypeOK
  OBVIOUS
<1>3. /\ job \in [Thread -> Job]
      /\ proc \in [Thread -> Proc]
      /\ at \in [Thread -> Point]
  BY <1>1 DEF Init, Thread, Job, Proc, Point
<1>4. /\ serial \in [Thread -> Ids] /\ tgt \in [Thread -> Ids]
      /\ vic \in [Thread -> Ids] /\ log \in [Thread -> Ids]
  BY <1>2 DEF Init
<1>5. /\ loggerState \in [Ids -> {"none", "new", "check", "read", "finished"}]
      /\ socatState \in [Ids -> {"none", "listening", "killed"}]
      /\ tty \in [Ids -> {"none", "up", "dead"}]
  BY DEF Init
<1>6. /\ loggerOf \in [Ids -> Ids \cup {None}]
      /\ socatOf \in [Ids -> Ids \cup {None}]
      /\ uartSocatProc \in [Ids -> Ids \cup {None}]
  BY DEF Init
<1>7. /\ loggerStop \in [Ids -> BOOLEAN]
      /\ client \in [Ids -> BOOLEAN]
  BY DEF Init
<1> QED
  BY <1>2, <1>3, <1>4, <1>5, <1>6, <1>7 DEF Init, TypeOK

\* Every variable keeps its type, whatever the threads do.
THEOREM TypeCorrect == Spec => []TypeOK
<1>1. TypeOK /\ [Next]_vars => TypeOK'
  <2>1. ASSUME TypeOK, UNCHANGED vars
        PROVE  TypeOK'
    BY <2>1 DEF vars, user, threads, settings, loggers, socats, devices, TypeOK
  <2>2. ASSUME TypeOK, Act
        PROVE  TypeOK'
    BY <2>2, StepType, RestType DEF Act
  <2> QED
    BY <2>1, <2>2 DEF Next, Stopped
<1> QED
  BY <1>1, InitType, PTL DEF Spec

------------------------------------------------------------------------------
(* Control                                                                 *)

\* A step of a thread touches the control of that thread only, which is and
\* stays inside a job unless the job ends.
LEMMA Frame ==
    ASSUME TypeOK, NEW t \in Thread, Step(t)
    PROVE  /\ at[t] # "idle"
           /\ UNCHANGED <<phase, cmds, requests, raced>>
           /\ \A u \in Thread : u # t =>
                at'[u] = at[u] /\ proc'[u] = proc[u] /\ job'[u] = job[u]
           /\ job'[t] = IF at'[t] = "idle" THEN "none" ELSE job[t]
<1> DEFINE Framed ==
        /\ \A u \in Thread : u # t =>
             at'[u] = at[u] /\ proc'[u] = proc[u] /\ job'[u] = job[u]
        /\ job'[t] = IF at'[t] = "idle" THEN "none" ELSE job[t]
<1>1. \A p \in Proc : Return(t, p) => Framed
  <2> SUFFICES ASSUME NEW p \in Proc, Return(t, p)
               PROVE  Framed
    OBVIOUS
  <2>1. CASE proc[t] = p
    <3> DEFINE q == After(job[t], p)
    <3>1. q \in Proc
      BY PlanType
    <3>2. /\ proc' = [proc EXCEPT ![t] = q]
          /\ at' = [at EXCEPT ![t] = Entry(q)]
          /\ job' = [job EXCEPT ![t] = IF q = "done" THEN "none" ELSE @]
      BY <2>1 DEF Return
    <3> HIDE DEF q
    <3>3. Entry(q) = "idle" <=> q = "done"
      BY <3>1 DEF Entry, Proc
    <3> QED
      BY <3>2, <3>3 DEF TypeOK
  <2>2. CASE proc[t] # p
    BY <2>2 DEF Return, Goto, TypeOK
  <2> QED
    BY <2>1, <2>2
<1>2. \A q \in Point \ {"idle"} : Goto(t, q) => Framed
  BY DEF Goto, TypeOK
<1>3. \A why : at[t] # "idle" /\ Exit(why) => Framed /\ UNCHANGED user
  BY DEF Exit, TypeOK, threads
<1>4. at[t] # "idle"
  BY DEF Step, At, StartUartCheck, StartUartLogging, StartUartPopen, StartUartSet,
         EndUartCheck, EndUartKill, EndUartClear, StartTtyCheck, StartTtyPiped,
         StartTtyCreate, StartTtyStart, StartTtySet, StopTtyCheck, StopTtyStop,
         StopTtyWait, StopTtyClear, TearDown, Renew, Spawn, Drive
<1> SUFFICES Framed /\ UNCHANGED user
  BY <1>4 DEF user
<1> HIDE DEF Framed
<1>5. CASE StartUartCheck(t)
  BY <1>1, <1>2, <1>5 DEF StartUartCheck, Proc, Point
<1>6. CASE EndUartCheck(t)
  BY <1>1, <1>2, <1>6 DEF EndUartCheck, Proc, Point
<1>7. CASE StartTtyCheck(t)
  BY <1>1, <1>2, <1>7 DEF StartTtyCheck, Proc, Point
<1>8. CASE StopTtyCheck(t)
  BY <1>1, <1>2, <1>8 DEF StopTtyCheck, Proc, Point
<1>9. CASE StartUartSet(t)
  BY <1>1, <1>9 DEF StartUartSet, Proc
<1>10. CASE EndUartClear(t)
  BY <1>1, <1>10 DEF EndUartClear, Proc
<1>11. CASE StartTtySet(t)
  BY <1>1, <1>11 DEF StartTtySet, Proc
<1>12. CASE StopTtyClear(t)
  BY <1>1, <1>12 DEF StopTtyClear, Proc
<1>13. CASE Renew(t)
  BY <1>1, <1>13 DEF Renew, Proc
<1>14. CASE Spawn(t)
  BY <1>1, <1>14 DEF Spawn, Proc
<1>15. CASE StartUartLogging(t)
  BY <1>2, <1>15 DEF StartUartLogging, Point
<1>16. CASE EndUartKill(t)
  BY <1>2, <1>16 DEF EndUartKill, Point
<1>17. CASE StartTtyPiped(t)
  BY <1>2, <1>17 DEF StartTtyPiped, Point
<1>18. CASE StartTtyCreate(t)
  BY <1>2, <1>18 DEF StartTtyCreate, Point
<1>19. CASE StartTtyStart(t)
  BY <1>2, <1>19 DEF StartTtyStart, Point
<1>20. CASE StopTtyStop(t)
  BY <1>2, <1>20 DEF StopTtyStop, Point
<1>21. CASE StopTtyWait(t)
  BY <1>2, <1>21 DEF StopTtyWait, Point
<1>22. CASE StartUartPopen(t)
  BY <1>2, <1>3, <1>4, <1>22 DEF StartUartPopen, Point
<1>23. CASE TearDown(t)
  BY <1>1, <1>3, <1>4, <1>23 DEF TearDown, Proc
<1>24. CASE \E p \in {"boot", "commands", "shutdown"} : Drive(t, p)
  BY <1>1, <1>3, <1>4, <1>24 DEF Drive, Proc
<1> QED
  BY <1>5, <1>6, <1>7, <1>8, <1>9, <1>10, <1>11, <1>12, <1>13, <1>14, <1>15, <1>16, <1>17, <1>18, <1>19, <1>20, <1>21, <1>22, <1>23, <1>24 DEF Step

\* Where a planned job goes when a function of it returns.
LEMMA Goes ==
    ASSUME TypeOK, NEW t \in Thread, Busy(t), Planned(t)
    PROVE  /\ Return(t, "stopTty") /\ proc[t] \in {"stopTty", "startUart"} =>
                \/ job[t] = "pipe" /\ at'[t] = "su_check" /\ proc'[t] = "startUart"
                \/ job[t] = "reset" /\ at'[t] = "tearDown" /\ proc'[t] = "tearDown"
                \/ job[t] = "finish" /\ at'[t] = "shutdown" /\ proc'[t] = "shutdown"
                \/ proc[t] = "startUart" /\ at'[t] = "su_popen" /\ proc'[t] = "startUart"
           /\ Return(t, "endUart") /\ proc[t] \in {"endUart", "startTty"} =>
                \/ job[t] = "unpipe" /\ at'[t] = "sl_check" /\ proc'[t] = "startTty"
                \/ job[t] \in {"reset", "finish"} /\ at'[t] = "st_check" /\ proc'[t] = "stopTty"
                \/ proc[t] = "startTty" /\ at'[t] = "sl_create" /\ proc'[t] = "startTty"
           /\ \A p \in {"startUart", "startTty"} : proc[t] = p /\ Return(t, p) =>
                \/ job[t] = "reset" /\ at'[t] = "commands" /\ proc'[t] = "commands"
                \/ at'[t] = "idle"
           /\ \A p \in {"commands", "shutdown"} : proc[t] = p /\ Return(t, p) => at'[t] = "idle"
           /\ Return(t, "tearDown") /\ proc[t] = "tearDown" => at'[t] = "renew" /\ proc'[t] = "renew"
           /\ Return(t, "renew") /\ proc[t] = "renew" => at'[t] = "spawn" /\ proc'[t] = "spawn"
           /\ Return(t, "spawn") /\ proc[t] = "spawn" => at'[t] = "boot" /\ proc'[t] = "boot"
           /\ Return(t, "boot") /\ proc[t] = "boot" =>
                \/ at'[t] = "su_check" /\ proc'[t] = "startUart"
                \/ at'[t] = "sl_check" /\ proc'[t] = "startTty"
<1>1. ASSUME NEW p \in Proc, proc[t] = p, Return(t, p)
      PROVE  /\ proc'[t] = After(job[t], p)
             /\ at'[t] = Entry(After(job[t], p))
  BY <1>1 DEF Return, TypeOK
<1>2. ASSUME NEW p \in Proc, proc[t] # p, Return(t, p)
      PROVE  /\ proc'[t] = proc[t]
             /\ at'[t] = IF p = "stopTty" THEN "su_popen" ELSE "sl_create"
  BY <1>2 DEF Return, Goto, TypeOK
<1>3. Handover \in {"startUart", "startTty"}
  BY DEF Handover
<1>4. ASSUME Return(t, "stopTty"), proc[t] \in {"stopTty", "startUart"}
      PROVE  \/ job[t] = "pipe" /\ at'[t] = "su_check" /\ proc'[t] = "startUart"
             \/ job[t] = "reset" /\ at'[t] = "tearDown" /\ proc'[t] = "tearDown"
             \/ job[t] = "finish" /\ at'[t] = "shutdown" /\ proc'[t] = "shutdown"
             \/ proc[t] = "startUart" /\ at'[t] = "su_popen" /\ proc'[t] = "startUart"
  BY <1>1, <1>2, <1>3, <1>4 DEF After, Entry, Proc, Planned
<1>5. ASSUME Return(t, "endUart"), proc[t] \in {"endUart", "startTty"}
      PROVE  \/ job[t] = "unpipe" /\ at'[t] = "sl_check" /\ proc'[t] = "startTty"
             \/ job[t] \in {"reset", "finish"} /\ at'[t] = "st_check" /\ proc'[t] = "stopTty"
             \/ proc[t] = "startTty" /\ at'[t] = "sl_create" /\ proc'[t] = "startTty"
  BY <1>1, <1>2, <1>3, <1>5 DEF After, Entry, Proc, Planned
<1>6. ASSUME NEW p \in {"startUart", "startTty"}, proc[t] = p, Return(t, p)
      PROVE  \/ job[t] = "reset" /\ at'[t] = "commands" /\ proc'[t] = "commands"
             \/ at'[t] = "idle"
  BY <1>1, <1>3, <1>6 DEF After, Entry, Proc
<1>7. ASSUME NEW p \in {"commands", "shutdown"}, proc[t] = p, Return(t, p)
      PROVE  at'[t] = "idle"
  BY <1>1, <1>3, <1>7 DEF After, Entry, Proc
<1>8. ASSUME NEW p \in {"tearDown", "renew", "spawn", "boot"}, proc[t] = p, Return(t, p)
      PROVE  /\ job[t] = "reset"
             /\ proc'[t] = After("reset", p) /\ at'[t] = Entry(After("reset", p))
  BY <1>1, <1>8 DEF Proc, Planned
<1>9. /\ After("reset", "tearDown") = "renew" /\ Entry("renew") = "renew"
      /\ After("reset", "renew") = "spawn" /\ Entry("spawn") = "spawn"
      /\ After("reset", "spawn") = "boot" /\ Entry("boot") = "boot"
      /\ After("reset", "boot") = Handover
      /\ Entry("startUart") = "su_check" /\ Entry("startTty") = "sl_check"
  BY <1>3 DEF After, Entry
<1> QED
  BY <1>3, <1>4, <1>5, <1>6, <1>7, <1>8, <1>9

\* A step of a thread goes to a point, returns from a function, or leaves the
\* control alone.
LEMMA StepKind ==
    ASSUME NEW t \in Thread, Step(t)
    PROVE  \/ \E p \in Proc : Return(t, p)
           \/ \E q \in Point \ {"idle"} : Goto(t, q)
           \/ UNCHANGED <<job, proc, at>>
<1> DEFINE Kind == \/ \E p \in Proc : Return(t, p)
                   \/ \E q \in Point \ {"idle"} : Goto(t, q)
                   \/ UNCHANGED <<job, proc, at>>
<1>1. \A p \in Proc : Return(t, p) => Kind
  OBVIOUS
<1>2. \A q \in Point \ {"idle"} : Goto(t, q) => Kind
  OBVIOUS
<1>3. \A why : Exit(why) => Kind
  BY DEF Exit, threads
<1> SUFFICES Kind
  OBVIOUS
<1> HIDE DEF Kind
<1>4. CASE StartUartCheck(t) \/ StartTtyCheck(t) \/ EndUartCheck(t) \/ StopTtyCheck(t)
  BY <1>4, <1>1, <1>2 DEF StartUartCheck, StartTtyCheck, EndUartCheck, StopTtyCheck, Proc, Point
<1>5. CASE StartUartSet(t) \/ EndUartClear(t) \/ StartTtySet(t) \/ StopTtyClear(t)
  BY <1>5, <1>1 DEF StartUartSet, EndUartClear, StartTtySet, StopTtyClear, Proc
<1>6. CASE Renew(t) \/ Spawn(t) \/ TearDown(t)
  BY <1>6, <1>1, <1>3 DEF Renew, Spawn, TearDown, Proc
<1>7. CASE StartUartLogging(t) \/ EndUartKill(t) \/ StartTtyPiped(t) \/ StartTtyCreate(t)
  BY <1>7, <1>2 DEF StartUartLogging, EndUartKill, StartTtyPiped, StartTtyCreate, Point
<1>8. CASE StartTtyStart(t) \/ StopTtyStop(t) \/ StopTtyWait(t) \/ StartUartPopen(t)
  BY <1>8, <1>2, <1>3 DEF StartTtyStart, StopTtyStop, StopTtyWait, StartUartPopen, Point
<1>9. CASE \E p \in {"boot", "commands", "shutdown"} : Drive(t, p)
  BY <1>9, <1>1, <1>3 DEF Drive, Proc
<1> QED
  BY <1>4, <1>5, <1>6, <1>7, <1>8, <1>9 DEF Step

\* A step of a thread keeps to the plan of its job.
LEMMA PlannedStep ==
    ASSUME TypeOK, NEW t \in Thread, Step(t), Planned(t)
    PROVE  Planned(t)'
<1>1. /\ at[t] # "idle" /\ UNCHANGED phase
      /\ job'[t] = IF at'[t] = "idle" THEN "none" ELSE job[t]
  BY Frame
<1>2. CASE \E p \in Proc : Return(t, p)
  <2>1. PICK p \in Proc : Return(t, p)
    BY <1>2
  <2>2. CASE proc[t] = p
    <3>1. proc'[t] = After(job[t], p) /\ at'[t] = Entry(After(job[t], p))
      BY <2>1, <2>2 DEF Return, TypeOK
    <3>2. Handover \in {"startUart", "startTty"}
      BY DEF Handover
    <3>3. at'[t] # "idle" => proc'[t] # "done"
      BY <3>1 DEF Entry
    <3>4. CASE job[t] = "reset"
      BY <1>1, <3>1, <3>2, <3>3, <3>4 DEF Planned, Busy, After, Thread
    <3>5. CASE job[t] # "reset"
      BY <1>1, <3>1, <3>2, <3>3, <3>5 DEF Planned, Busy, After, Thread
    <3> QED
      BY <3>4, <3>5
  <2>3. CASE proc[t] # p
    <3>1. proc'[t] = proc[t]
      BY <2>1, <2>3 DEF Return, Goto, TypeOK
    <3> QED
      BY <1>1, <3>1 DEF Planned, Busy
  <2> QED
    BY <2>2, <2>3
<1>3. CASE (\E q \in Point \ {"idle"} : Goto(t, q)) \/ UNCHANGED <<job, proc, at>>
  <2>1. proc'[t] = proc[t]
    BY <1>3 DEF Goto
  <2> QED
    BY <1>1, <2>1 DEF Planned, Busy
<1> QED
  BY <1>2, <1>3, StepKind

\* A step of a thread keeps its point and its function together.
LEMMA FlowStep ==
    ASSUME TypeOK, NEW t \in Thread, Step(t), Flow(t), Planned(t)
    PROVE  Flow(t)'
<1> USE DEF StartUart, StartTty, EndUart, StopTty, Alone, At
<1>1. Busy(t)
  BY Frame DEF Busy
<1>2. ASSUME NEW q \in Point, Goto(t, q), Flow(t),
             \/ proc[t] = "startUart" /\ q \in StartUart \cup StopTty
             \/ proc[t] = "startTty" /\ q \in StartTty \cup EndUart
             \/ proc[t] = "endUart" /\ q \in EndUart
             \/ proc[t] = "stopTty" /\ q \in StopTty
      PROVE  Flow(t)'
  <2>1. at'[t] = q /\ proc'[t] = proc[t]
    BY <1>2 DEF Goto, TypeOK
  <2> QED
    BY <1>2, <2>1 DEF Flow
<1>3. ASSUME NEW why, Exit(why)
      PROVE  Flow(t)'
  BY <1>3 DEF Exit, threads, Flow
<1>4. ASSUME NEW p \in {"startUart", "startTty", "endUart", "stopTty", "commands", "shutdown",
                        "tearDown", "renew", "spawn", "boot"},
             Return(t, p),
             \/ proc[t] = p
             \/ p = "stopTty" /\ proc[t] = "startUart"
             \/ p = "endUart" /\ proc[t] = "startTty"
      PROVE  Flow(t)'
  <2>1. CASE p \in {"startUart", "startTty"}
    BY <1>1, <1>4, <2>1, Goes DEF Flow
  <2>2. CASE p = "endUart"
    BY <1>1, <1>4, <2>2, Goes DEF Flow
  <2>3. CASE p = "stopTty"
    BY <1>1, <1>4, <2>3, Goes DEF Flow
  <2>4. CASE p \in {"commands", "shutdown"}
    BY <1>1, <1>4, <2>4, Goes DEF Flow
  <2>5. CASE p \in {"tearDown", "renew", "spawn", "boot"}
    BY <1>1, <1>4, <2>5, Goes DEF Flow
  <2> QED
    BY <1>4, <2>1, <2>2, <2>3, <2>4, <2>5
<1>5. CASE StartUartCheck(t) \/ StartUartLogging(t) \/ StartUartPopen(t) \/ StartUartSet(t)
  <2>1. proc[t] = "startUart"
    BY <1>5 DEF Flow, StartUartCheck, StartUartLogging, StartUartPopen, StartUartSet
  <2> QED
    BY <1>2, <1>3, <1>4, <1>5, <2>1 DEF StartUartCheck, StartUartLogging, StartUartPopen,
       StartUartSet, Point
<1>6. CASE EndUartCheck(t) \/ EndUartKill(t) \/ EndUartClear(t)
  <2>1. proc[t] \in {"endUart", "startTty"}
    BY <1>6 DEF Flow, EndUartCheck, EndUartKill, EndUartClear
  <2> QED
    BY <1>2, <1>4, <1>6, <2>1 DEF EndUartCheck, EndUartKill, EndUartClear, Point
<1>7. CASE \/ StartTtyCheck(t) \/ StartTtyPiped(t) \/ StartTtyCreate(t) \/ StartTtyStart(t)
           \/ StartTtySet(t)
  <2>1. proc[t] = "startTty"
    BY <1>7 DEF Flow, StartTtyCheck, StartTtyPiped, StartTtyCreate, StartTtyStart, StartTtySet
  <2> QED
    BY <1>2, <1>4, <1>7, <2>1 DEF StartTtyCheck, StartTtyPiped, StartTtyCreate, StartTtyStart,
       StartTtySet, Point
<1>8. CASE StopTtyCheck(t) \/ StopTtyStop(t) \/ StopTtyWait(t) \/ StopTtyClear(t)
  <2>1. proc[t] \in {"stopTty", "startUart"}
    BY <1>8 DEF Flow, StopTtyCheck, StopTtyStop, StopTtyWait, StopTtyClear
  <2> QED
    BY <1>2, <1>4, <1>8, <2>1 DEF StopTtyCheck, StopTtyStop, StopTtyWait, StopTtyClear, Point
<1>9. CASE TearDown(t) \/ Renew(t) \/ Spawn(t)
  BY <1>3, <1>4, <1>9 DEF TearDown, Renew, Spawn, Flow
<1>10. CASE \E p \in {"boot", "commands", "shutdown"} : Drive(t, p)
  BY <1>3, <1>4, <1>10 DEF Drive, Flow
<1> QED
  BY <1>5, <1>6, <1>7, <1>8, <1>9, <1>10 DEF Step

\* A step of a thread keeps the control of all three.
LEMMA ControlStep ==
    ASSUME Controlled, NEW t \in Thread, Step(t)
    PROVE  Controlled'
<1>1. /\ Busy(t) /\ UNCHANGED phase
      /\ \A u \in Thread : u # t =>
           at'[u] = at[u] /\ proc'[u] = proc[u] /\ job'[u] = job[u]
      /\ job'[t] = IF at'[t] = "idle" THEN "none" ELSE job[t]
  BY Frame DEF Controlled, Busy
<1>2. TypeOK'
  BY StepType DEF Controlled
<1>3. Flow(t)' /\ Planned(t)'
  BY FlowStep, PlannedStep DEF Controlled
<1>4. ASSUME NEW u \in Thread, u # t
      PROVE  Flow(u)' /\ Planned(u)'
  BY <1>1, <1>4 DEF Controlled, Flow, Planned, Busy
<1>5. Turns'
  <2>1. \A u \in Thread : Busy(u)' => Busy(u)
    BY <1>1 DEF Busy
  <2>2. \A u \in Thread : job'[u] = "none" <=> ~Busy(u)'
    BY <1>1 DEF Controlled, Turns, Busy
  <2> QED
    BY <1>1, <2>1, <2>2 DEF Controlled, Turns, Thread
<1> QED
  BY <1>2, <1>3, <1>4, <1>5 DEF Controlled

------------------------------------------------------------------------------
(* Numbers                                                                 *)

\* The number of a job was given and is in no RESET message any more, and two
\* jobs at a time have different ones.
LEMMA Distinct ==
    ASSUME Controlled, Counted
    PROVE  /\ \A t \in Thread : Busy(t) => serial[t] <= cmds /\ serial[t] \notin requests
           /\ \A t, u \in Thread : Busy(t) /\ Busy(u) /\ t # u => serial[t] # serial[u]
<1>1. /\ cmds \in Nat /\ targetObj \in Nat
      /\ \A n \in requests : n \in Nat
      /\ \A t \in Thread : serial[t] \in Nat
  BY ConfigAssumption DEF Controlled, TypeOK, Ids
<1>2. ASSUME NEW t \in Thread, Busy(t)
      PROVE  serial[t] <= cmds /\ serial[t] \notin requests
  BY <1>1, <1>2 DEF Counted, Thread
<1>3. ASSUME NEW t \in Thread, NEW u \in Thread, Busy(t), Busy(u), t # u
      PROVE  serial[t] # serial[u]
  BY <1>1, <1>3 DEF Controlled, Turns, Counted, Thread
<1> QED
  BY <1>2, <1>3

\* Which steps touch the numbers: a logger is created, told to stop, or a
\* target object is renewed.
LEMMA NumberMoves ==
    ASSUME Controlled, NEW t \in Thread, Step(t)
    PROVE  /\ UNCHANGED serial
           /\ ~Renew(t) => targetObj' = targetObj
           /\ ~StartTtyCreate(t) => ttyLogger' = ttyLogger
           /\ ~StopTtyStop(t) => loggerStop' = loggerStop
<1> USE DEF settings, threads, devices, loggers, Exit
<1>1. CASE StartUartCheck(t) \/ StartUartLogging(t) \/ StartUartPopen(t) \/ StartUartSet(t)
  BY <1>1 DEF StartUartCheck, StartUartLogging, StartUartPopen, StartUartSet
<1>2. CASE EndUartCheck(t) \/ EndUartKill(t) \/ EndUartClear(t)
  BY <1>2 DEF EndUartCheck, EndUartKill, EndUartClear
<1>3. CASE StartTtyCheck(t) \/ StartTtyPiped(t) \/ StartTtyCreate(t) \/ StartTtyStart(t) \/ StartTtySet(t)
  BY <1>3 DEF StartTtyCheck, StartTtyPiped, StartTtyCreate, StartTtyStart, StartTtySet
<1>4. CASE StopTtyCheck(t) \/ StopTtyStop(t) \/ StopTtyWait(t) \/ StopTtyClear(t)
  BY <1>4 DEF StopTtyCheck, StopTtyStop, StopTtyWait, StopTtyClear
<1>5. CASE TearDown(t) \/ Renew(t) \/ Spawn(t) \/ \E p \in {"boot", "commands", "shutdown"} : Drive(t, p)
  BY <1>5 DEF TearDown, Renew, Spawn, Drive
<1> QED
  BY <1>1, <1>2, <1>3, <1>4, <1>5 DEF Step

\* A step of a thread gives no number and takes none back.
LEMMA CountedStep ==
    ASSUME Controlled, Counted, NEW t \in Thread, Step(t)
    PROVE  Counted'
<1>1. /\ Busy(t) /\ UNCHANGED <<phase, cmds, requests, raced, serial>>
      /\ \A u \in Thread : u # t => at'[u] = at[u] /\ proc'[u] = proc[u] /\ job'[u] = job[u]
      /\ job'[t] = IF at'[t] = "idle" THEN "none" ELSE job[t]
      /\ \A u \in Thread : Busy(u)' => Busy(u)
      /\ ~Renew(t) => targetObj' = targetObj
  BY Frame, NumberMoves DEF Controlled, Busy
<1>2. Flow(t) /\ Planned(t) /\ TypeOK /\ Planned(t)'
  BY ControlStep DEF Controlled
<1>3. CASE Renew(t)
  <2>1. /\ proc[t] = "renew" /\ targetObj' = serial[t] /\ Return(t, "renew")
    BY <1>2, <1>3 DEF Renew, Flow, At, Alone
  <2>2. t = "watchdog" /\ ~Busy("main")
    BY <1>1, <1>2, <2>1 DEF Planned, Controlled, Turns, Thread
  <2>3. proc'[t] = "spawn"
    BY <1>1, <1>2, <2>1, Goes
  <2>4. serial[t] \in Nat /\ cmds \in Nat
    BY ConfigAssumption DEF Controlled, TypeOK, Ids
  <2> QED
    BY <1>1, <2>1, <2>2, <2>3, <2>4 DEF Counted, Thread
<1>4. CASE ~Renew(t)
  <2> DEFINE Early == {"endUart", "stopTty", "tearDown", "renew"}
  <2>1. Busy("watchdog")' => (proc'["watchdog"] \in Early <=> proc["watchdog"] \in Early)
    <3>1. CASE t # "watchdog"
      BY <1>1, <3>1 DEF Thread
    <3>2. CASE t = "watchdog"
      <4>1. job[t] = "reset" /\ at[t] # "idle"
        BY <1>1, <1>2, <3>2 DEF Planned, Busy, Thread
      <4>2. at[t] # "renew"
        <5>1. at[t] = "renew" => Renew(t)
          BY <1>2 DEF Step, At, StartUartCheck, StartUartLogging, StartUartPopen, StartUartSet,
             EndUartCheck, EndUartKill, EndUartClear, StartTtyCheck, StartTtyPiped,
             StartTtyCreate, StartTtyStart, StartTtySet, StopTtyCheck, StopTtyStop,
             StopTtyWait, StopTtyClear, TearDown, Spawn, Drive
        <5> QED
          BY <1>4, <5>1
      <4>3. proc[t] # "renew"
        BY <1>2, <4>1, <4>2 DEF Flow, StartUart, StartTty, EndUart, StopTty, Alone, TypeOK, Point
      <4>4. CASE \E p \in Proc : Return(t, p) /\ proc[t] = p
        <5>1. proc'[t] = After("reset", proc[t])
          <6>1. PICK p \in Proc : Return(t, p) /\ proc[t] = p
            BY <4>4
          <6>2. proc' = [proc EXCEPT ![t] = After(job[t], p)]
            BY <6>1 DEF Return
          <6> QED
            BY <1>2, <4>1, <6>1, <6>2 DEF TypeOK
        <5>2. Handover \in {"startUart", "startTty"}
          BY DEF Handover
        <5>3. proc'[t] \in Early <=> proc[t] \in Early
          BY <4>3, <5>1, <5>2 DEF After
        <5> QED
          BY <3>2, <5>3
      <4>5. CASE ~\E p \in Proc : Return(t, p) /\ proc[t] = p
        <5>1. proc'[t] = proc[t]
          BY <1>2, <4>5, StepKind DEF Return, Goto, TypeOK
        <5> QED
          BY <3>2, <5>1
      <4> QED
        BY <4>4, <4>5
    <3> QED
      BY <3>1, <3>2
  <2>2. "watchdog" \in Thread /\ "main" \in Thread /\ "shell" \in Thread
    BY DEF Thread
  <2>3. targetObj' = targetObj
    BY <1>1, <1>4
  <2> HIDE DEF Early
  <2>4. Busy("watchdog")' =>
          IF proc'["watchdog"] \in Early THEN targetObj < serial["watchdog"]
          ELSE targetObj = serial["watchdog"]
    BY <1>1, <2>1, <2>2 DEF Counted, Early
  <2> QED
    BY <1>1, <2>2, <2>3, <2>4 DEF Counted, Early
<1> QED
  BY <1>3, <1>4

\* No step takes a job back before the creation of its logger.
LEMMA FreshPoint ==
    ASSUME Controlled, NEW t \in Thread, Step(t),
           at[t] \in {"sl_start", "sl_set", "commands"}
    PROVE  at'[t] \in {"sl_start", "sl_set", "commands", "idle"}
<1>1. TypeOK /\ Busy(t) /\ Planned(t) /\ Flow(t)
  BY Frame DEF Controlled, Busy
<1>2. \/ StartTtyStart(t) \/ StartTtySet(t)
      \/ Exit("lost")
      \/ Drive(t, "commands") /\ Return(t, "commands")
  <2>1. \/ StartTtyStart(t) \/ StartTtySet(t)
        \/ \E p \in {"boot", "commands", "shutdown"} : Drive(t, p)
    BY DEF Step, At, StartUartCheck, StartUartLogging, StartUartPopen, StartUartSet,
       EndUartCheck, EndUartKill, EndUartClear, StartTtyCheck, StartTtyPiped,
       StartTtyCreate, StopTtyCheck, StopTtyStop,
       StopTtyWait, StopTtyClear, TearDown, Renew, Spawn
  <2>2. ASSUME NEW p \in {"boot", "commands", "shutdown"}, Drive(t, p)
        PROVE  Exit("lost") \/ (Drive(t, "commands") /\ Return(t, "commands"))
    <3>1. p = "commands"
      BY <2>2 DEF Drive, At
    <3>2. Drive(t, "commands")
      BY ONLY <2>2, <3>1
    <3> QED
      BY <3>2 DEF Drive
  <2> QED
    BY <2>1, <2>2
<1>3. CASE StartTtyStart(t)
  BY <1>1, <1>3 DEF StartTtyStart, Goto, TypeOK
<1>4. CASE StartTtySet(t)
  <2>1. proc[t] = "startTty" /\ Return(t, "startTty")
    BY <1>1, <1>4 DEF StartTtySet, At, Flow, StartTty
  <2> QED
    BY <1>1, <2>1, Goes
<1>5. CASE Exit("lost")
  BY <1>5 DEF Exit, threads
<1>6. CASE Drive(t, "commands") /\ Return(t, "commands")
  <2>1. proc[t] = "commands"
    BY <1>1, <1>6 DEF Drive, At, Flow
  <2> QED
    BY <1>1, <1>6, <2>1, Goes
<1> QED
  BY <1>2, <1>3, <1>4, <1>5, <1>6

\* The launch calls startUartPiping or startTtyLogging and neither calls
\* stopTtyLogging.
LEMMA LaunchStep ==
    ASSUME Controlled, Numbered, NEW t \in Thread, Step(t), job'[t] = "launch"
    PROVE  /\ at'[t] \notin StopTty
           /\ at'[t] \in StartUart => ~isTtyLogging'
           /\ ~StopTtyStop(t)
<1>1. TypeOK /\ Busy(t) /\ Planned(t) /\ Flow(t) /\ Planned(t)' /\ Flow(t)'
  BY Frame, ControlStep DEF Controlled, Busy
<1>2. job[t] = "launch" /\ at'[t] # "idle"
  BY Frame DEF Controlled
<1>3. at[t] \notin StopTty /\ (at[t] \in StartUart => ~isTtyLogging)
  BY <1>2 DEF Numbered, Fresh
<1>4. /\ proc[t] \in {"startUart", "startTty"}
      /\ proc'[t] \in {"startUart", "startTty"}
  <2>1. proc[t] \in Proc /\ proc'[t] \in Proc /\ Busy(t)'
    BY <1>2, StepType DEF Controlled, TypeOK, Busy
  <2>2. job'[t] = "launch"
    OBVIOUS
  <2> QED
    BY <1>1, <1>2, <2>1, <2>2 DEF Planned, Proc
<1> USE DEF StartUart, StartTty, EndUart, StopTty, Alone, At
<1>5. at[t] \in StartUart \cup StartTty \cup EndUart
  BY <1>1, <1>3, <1>4 DEF Flow, Busy, TypeOK, Point
<1>6. ~StopTtyStop(t) /\ ~StopTtyWait(t) /\ ~StopTtyCheck(t) /\ ~StopTtyClear(t)
  BY <1>3 DEF StopTtyStop, StopTtyWait, StopTtyCheck, StopTtyClear
<1>7. CASE proc[t] = "startUart"
  <2>1. at[t] \in StartUart /\ ~isTtyLogging
    BY <1>1, <1>3, <1>5, <1>7 DEF Flow
  <2>2. StartUartCheck(t) \/ StartUartLogging(t) \/ StartUartPopen(t) \/ StartUartSet(t)
    BY <2>1 DEF Step, EndUartCheck, EndUartKill, EndUartClear, StartTtyCheck, StartTtyPiped,
     StartTtyCreate, StartTtyStart, StartTtySet, StopTtyCheck, StopTtyStop,
     StopTtyWait, StopTtyClear, TearDown, Renew, Spawn, Drive
  <2>3. isTtyLogging' = isTtyLogging
    BY <2>2 DEF StartUartCheck, StartUartLogging, StartUartPopen, StartUartSet, settings, Exit
  <2>4. at'[t] \notin StopTty
    <3>1. ASSUME Return(t, "startUart")
          PROVE  at'[t] \notin StopTty
      BY <1>1, <1>7, <3>1, Goes
    <3>2. ASSUME NEW q \in {"su_logging", "su_popen", "su_set"}, Goto(t, q)
          PROVE  at'[t] \notin StopTty
      BY <1>1, <3>2 DEF Goto, TypeOK
    <3>3. ASSUME Exit("piping")
          PROVE  at'[t] \notin StopTty
      BY <1>3, <3>3 DEF Exit, threads
    <3> QED
      BY <2>1, <2>2, <3>1, <3>2, <3>3 DEF StartUartCheck, StartUartLogging, StartUartPopen,
         StartUartSet
  <2> QED
    BY <1>6, <2>1, <2>3, <2>4
<1>8. CASE proc[t] = "startTty"
  <2>1. proc'[t] = "startTty"
    <3>1. ASSUME NEW p \in Proc, Return(t, p)
          PROVE  proc'[t] = "startTty"
      <4>1. CASE p = "startTty"
        BY <1>1, <1>2, <1>8, <3>1, <4>1, Goes DEF Planned
      <4>2. CASE p # "startTty"
        BY <1>1, <1>8, <3>1, <4>2 DEF Return, Goto, TypeOK
      <4> QED
        BY <4>1, <4>2
    <3> QED
      BY <1>8, <3>1, StepKind DEF Goto
  <2> QED
    BY <1>1, <1>6, <2>1 DEF Flow
<1> QED
  BY <1>4, <1>7, <1>8

\* A step of a thread keeps the numbers in order.
LEMMA NumberedStep ==
    ASSUME Controlled, Numbered, NEW t \in Thread, Step(t)
    PROVE  Numbered'
<1>1. /\ Busy(t) /\ UNCHANGED <<phase, cmds, requests, raced, serial>>
      /\ \A u \in Thread : u # t => at'[u] = at[u] /\ proc'[u] = proc[u] /\ job'[u] = job[u]
      /\ job'[t] = IF at'[t] = "idle" THEN "none" ELSE job[t]
      /\ ~StartTtyCreate(t) => ttyLogger' = ttyLogger
      /\ ~StopTtyStop(t) => loggerStop' = loggerStop
  BY Frame, NumberMoves DEF Controlled, Busy
<1>2. Counted'
  BY CountedStep DEF Numbered
<1>3. /\ \A n \in Ids : loggerStop'[n] => loggerStop[n] \/ (n = ttyLogger /\ StopTtyStop(t))
      /\ ttyLogger' = ttyLogger \/ (ttyLogger' = serial[t] /\ at'[t] = "sl_start")
  BY <1>1 DEF Controlled, TypeOK, StartTtyCreate, StopTtyStop, Goto
<1>4. /\ serial[t] <= cmds /\ serial[t] \notin requests
      /\ \A u \in Thread : Busy(u) /\ t # u => serial[t] # serial[u]
      /\ \A u \in Thread : serial[u] \in Ids
  BY <1>1, Distinct DEF Numbered, Controlled, TypeOK
<1>5. Unused'
  <2> SUFFICES ASSUME NEW n \in Ids, n > cmds \/ n \in requests
               PROVE  ~loggerStop'[n] /\ ttyLogger' # n
    BY <1>1 DEF Unused
  <2>1. ~loggerStop[n] /\ ttyLogger # n
    BY DEF Numbered, Unused
  <2>2. serial[t] # n
    <3>1. n \in Nat /\ cmds \in Nat
      BY ConfigAssumption DEF Controlled, TypeOK, Ids
    <3> QED
      BY <1>4, <3>1
  <2> QED
    BY <1>3, <2>1, <2>2
<1>6. ASSUME NEW u \in Thread, u # t
      PROVE  Fresh(u)'
  <2>1. Fresh(u) /\ (job[u] # "none" => Busy(u))
    BY <1>6 DEF Numbered, Controlled, Turns
  <2>2. at'[u] = at[u] /\ job'[u] = job[u] /\ serial'[u] = serial[u]
    BY <1>1, <1>6
  <2>3. job[u] \in {"pipe", "unpipe", "reset"} /\ at[u] \notin {"sl_start", "sl_set", "commands"}
          => ~loggerStop'[serial[u]] /\ ttyLogger' # serial[u]
    BY <1>3, <1>4, <1>6, <2>1 DEF Fresh
  <2>4. job[u] # "launch"
    BY <1>1, <1>6, <2>1 DEF Controlled, Turns, Planned, Thread
  <2> QED
    BY <2>2, <2>3, <2>4 DEF Fresh
<1>7. Fresh(t)'
  <2>1. Fresh(t)
    BY DEF Numbered
  <2>2. ASSUME job'[t] \in {"pipe", "unpipe", "reset"},
               at'[t] \notin {"sl_start", "sl_set", "commands"}
        PROVE  ~loggerStop'[serial[t]] /\ ttyLogger' # serial[t]
    <3>1. at'[t] # "idle" /\ job[t] = job'[t]
      BY <1>1, <2>2
    <3>2. at[t] \notin {"sl_start", "sl_set", "commands"}
      BY <2>2, <3>1, FreshPoint
    <3>3. ~loggerStop[serial[t]] /\ ttyLogger # serial[t]
      BY <2>1, <2>2, <3>1, <3>2 DEF Fresh
    <3> QED
      BY <1>3, <1>4, <2>2, <3>3
  <2>3. ASSUME job'[t] = "launch"
        PROVE  \A l \in Ids : ~loggerStop'[l]
    <3>1. ~StopTtyStop(t)
      BY <2>3, LaunchStep
    <3>2. job[t] = "launch"
      BY <1>1, <2>3
    <3> QED
      BY <1>1, <2>1, <3>1, <3>2 DEF Fresh
  <2> QED
    BY <1>1, <2>2, <2>3, LaunchStep DEF Fresh
<1> QED
  BY <1>2, <1>5, <1>6, <1>7 DEF Numbered

------------------------------------------------------------------------------
(* What each step of a thread does                                         *)

Flags    == <<isUartPiped, isTtyLogging, targetObj>>
Captured == <<serial, tgt, vic, log>>
Logging  == <<ttyLogger, loggerState, loggerOf, loggerStop>>
Piping   == <<uartSocatProc, socatState, socatOf>>
Still    == UNCHANGED <<Flags, Logging, Piping, tty>>

\* Where endUartPiping and stopTtyLogging return to, and the two that start.
FromEnd(t) ==
    \/ job[t] = "unpipe" /\ at'[t] = "sl_check" /\ proc'[t] = "startTty"
    \/ job[t] \in {"reset", "finish"} /\ at'[t] = "st_check" /\ proc'[t] = "stopTty"
    \/ proc[t] = "startTty" /\ at'[t] = "sl_create" /\ proc'[t] = "startTty"
FromStop(t) ==
    \/ job[t] = "pipe" /\ at'[t] = "su_check" /\ proc'[t] = "startUart"
    \/ job[t] = "reset" /\ at'[t] = "tearDown" /\ proc'[t] = "tearDown"
    \/ job[t] = "finish" /\ at'[t] = "shutdown" /\ proc'[t] = "shutdown"
    \/ proc[t] = "startUart" /\ at'[t] = "su_popen" /\ proc'[t] = "startUart"
FromStart(t) ==
    \/ job[t] = "reset" /\ at'[t] = "commands" /\ proc'[t] = "commands"
    \/ at'[t] = "idle"

\* startUartPiping: the next point, and all it changes.
LEMMA UartMoves ==
    ASSUME Controlled, NEW t \in Thread
    PROVE  /\ StartUartCheck(t) =>
                /\ at[t] = "su_check" /\ proc[t] = "startUart" /\ job[t] # "finish"
                /\ tgt' = [tgt EXCEPT ![t] = targetObj]
                /\ Still /\ UNCHANGED <<serial, vic, log>>
                /\ IF isUartPiped THEN FromStart(t)
                   ELSE at'[t] = "su_logging" /\ proc'[t] = "startUart"
           /\ StartUartLogging(t) =>
                /\ at[t] = "su_logging" /\ proc[t] = "startUart" /\ job[t] # "finish"
                /\ Still /\ UNCHANGED Captured
                /\ proc'[t] = "startUart"
                /\ at'[t] = IF isTtyLogging THEN "st_check" ELSE "su_popen"
           /\ StartUartPopen(t) =>
                /\ at[t] = "su_popen" /\ proc[t] = "startUart" /\ job[t] # "finish"
                /\ \/ Exit("piping") /\ tty[tgt[t]] = "none"
                   \/ /\ at'[t] = "su_set" /\ proc'[t] = "startUart"
                      /\ socatState' = [socatState EXCEPT ![serial[t]] = "listening"]
                      /\ socatOf' = [socatOf EXCEPT ![serial[t]] = tgt[t]]
                      /\ uartSocatProc' = [uartSocatProc EXCEPT ![tgt[t]] = serial[t]]
                      /\ UNCHANGED <<Flags, Captured, Logging, tty>>
           /\ StartUartSet(t) =>
                /\ at[t] = "su_set" /\ proc[t] = "startUart" /\ job[t] # "finish"
                /\ isUartPiped' = TRUE /\ FromStart(t)
                /\ UNCHANGED <<isTtyLogging, targetObj, Captured, Logging, Piping, tty>>
<1> USE DEF At, StartUart, Still, Flags, Captured, Logging, Piping, settings, devices, loggers, socats
<1>1. TypeOK /\ Flow(t) /\ Planned(t)
  BY DEF Controlled
<1>2. ASSUME at[t] \in StartUart
      PROVE  Busy(t) /\ proc[t] = "startUart" /\ job[t] # "finish"
  BY <1>1, <1>2 DEF Flow, Planned, Busy
<1>3. ASSUME at[t] \in StartUart, Return(t, "startUart")
      PROVE  FromStart(t)
  BY <1>1, <1>2, <1>3, Goes DEF FromStart
<1>4. ASSUME NEW q \in Point, at[t] \in StartUart, Goto(t, q)
      PROVE  at'[t] = q /\ proc'[t] = "startUart"
  BY <1>1, <1>2, <1>4 DEF Goto, TypeOK
<1>5. CASE StartUartCheck(t)
  BY <1>2, <1>3, <1>4, <1>5 DEF StartUartCheck, Point, StartUartLogging, StartUartPopen, StartUartSet
<1>6. CASE StartUartLogging(t)
  BY <1>2, <1>3, <1>4, <1>6 DEF StartUartCheck, Point, StartUartLogging, StartUartPopen, StartUartSet
<1>7. CASE StartUartPopen(t)
  BY <1>2, <1>3, <1>4, <1>7 DEF StartUartCheck, Point, StartUartLogging, StartUartPopen, StartUartSet
<1>8. CASE StartUartSet(t)
  BY <1>2, <1>3, <1>4, <1>8 DEF StartUartCheck, Point, StartUartLogging, StartUartPopen, StartUartSet
<1> QED
  BY <1>5, <1>6, <1>7, <1>8

\* endUartPiping.
LEMMA EndMoves ==
    ASSUME Controlled, NEW t \in Thread
    PROVE  /\ EndUartCheck(t) =>
                /\ at[t] = "eu_check" /\ proc[t] \in {"endUart", "startTty"}
                /\ vic' = [vic EXCEPT ![t] = targetObj]
                /\ Still /\ UNCHANGED <<serial, tgt, log>>
                /\ IF isUartPiped THEN at'[t] = "eu_kill" /\ proc'[t] = proc[t]
                   ELSE FromEnd(t)
           /\ EndUartKill(t) =>
                /\ at[t] = "eu_kill" /\ proc[t] \in {"endUart", "startTty"}
                /\ at'[t] = "eu_clear" /\ proc'[t] = proc[t]
                /\ socatState' = IF uartSocatProc[vic[t]] = None THEN socatState
                                 ELSE [socatState EXCEPT ![uartSocatProc[vic[t]]] = "killed"]
                /\ UNCHANGED <<Flags, Captured, Logging, uartSocatProc, socatOf, tty>>
           /\ EndUartClear(t) =>
                /\ at[t] = "eu_clear" /\ proc[t] \in {"endUart", "startTty"}
                /\ isUartPiped' = FALSE /\ FromEnd(t)
                /\ UNCHANGED <<isTtyLogging, targetObj, Captured, Logging, Piping, tty>>
<1> USE DEF At, EndUart, Still, Flags, Captured, Logging, Piping, settings, devices, loggers, socats
<1>1. TypeOK /\ Flow(t) /\ Planned(t)
  BY DEF Controlled
<1>2. ASSUME at[t] \in EndUart
      PROVE  Busy(t) /\ proc[t] \in {"endUart", "startTty"}
  BY <1>1, <1>2 DEF Flow, Busy
<1>3. ASSUME at[t] \in EndUart, Return(t, "endUart")
      PROVE  FromEnd(t)
  BY <1>1, <1>2, <1>3, Goes DEF FromEnd
<1>4. ASSUME NEW q \in Point, at[t] \in EndUart, Goto(t, q)
      PROVE  at'[t] = q /\ proc'[t] = proc[t]
  BY <1>1, <1>2, <1>4 DEF Goto, TypeOK
<1>5. CASE EndUartCheck(t)
  BY <1>2, <1>3, <1>4, <1>5 DEF EndUartCheck, EndUartKill, EndUartClear, Point
<1>6. CASE EndUartKill(t)
  BY <1>2, <1>3, <1>4, <1>6 DEF EndUartCheck, EndUartKill, EndUartClear, Point
<1>7. CASE EndUartClear(t)
  BY <1>2, <1>3, <1>4, <1>7 DEF EndUartCheck, EndUartKill, EndUartClear, Point
<1> QED
  BY <1>5, <1>6, <1>7

\* startTtyLogging.
LEMMA TtyMoves ==
    ASSUME Controlled, NEW t \in Thread
    PROVE  /\ StartTtyCheck(t) =>
                /\ at[t] = "sl_check" /\ proc[t] = "startTty" /\ job[t] # "finish"
                /\ tgt' = [tgt EXCEPT ![t] = targetObj]
                /\ Still /\ UNCHANGED <<serial, vic, log>>
                /\ IF isTtyLogging THEN FromStart(t)
                   ELSE at'[t] = "sl_piped" /\ proc'[t] = "startTty"
           /\ StartTtyPiped(t) =>
                /\ at[t] = "sl_piped" /\ proc[t] = "startTty" /\ job[t] # "finish"
                /\ Still /\ UNCHANGED Captured
                /\ proc'[t] = "startTty"
                /\ at'[t] = IF isUartPiped THEN "eu_check" ELSE "sl_create"
           /\ StartTtyCreate(t) =>
                /\ at[t] = "sl_create" /\ proc[t] = "startTty" /\ job[t] # "finish"
                /\ at'[t] = "sl_start" /\ proc'[t] = "startTty"
                /\ ttyLogger' = serial[t]
                /\ loggerState' = [loggerState EXCEPT ![serial[t]] = "new"]
                /\ loggerOf' = [loggerOf EXCEPT ![serial[t]] =
                                    IF tty[tgt[t]] = "none" THEN None ELSE tgt[t]]
                /\ UNCHANGED <<Flags, Captured, Piping, loggerStop, tty>>
           /\ StartTtyStart(t) =>
                /\ at[t] = "sl_start" /\ proc[t] = "startTty" /\ job[t] # "finish"
                /\ at'[t] = "sl_set" /\ proc'[t] = "startTty"
                /\ loggerState' = [loggerState EXCEPT ![serial[t]] = "check"]
                /\ UNCHANGED <<Flags, Captured, Piping, ttyLogger, loggerOf, loggerStop, tty>>
           /\ StartTtySet(t) =>
                /\ at[t] = "sl_set" /\ proc[t] = "startTty" /\ job[t] # "finish"
                /\ isTtyLogging' = TRUE /\ FromStart(t)
                /\ UNCHANGED <<isUartPiped, targetObj, Captured, Logging, Piping, tty>>
<1> USE DEF At, StartTty, Still, Flags, Captured, Logging, Piping, settings, devices, loggers, socats
<1>1. TypeOK /\ Flow(t) /\ Planned(t)
  BY DEF Controlled
<1>2. ASSUME at[t] \in StartTty
      PROVE  Busy(t) /\ proc[t] = "startTty" /\ job[t] # "finish"
  BY <1>1, <1>2 DEF Flow, Planned, Busy
<1>3. ASSUME at[t] \in StartTty, Return(t, "startTty")
      PROVE  FromStart(t)
  BY <1>1, <1>2, <1>3, Goes DEF FromStart
<1>4. ASSUME NEW q \in Point, at[t] \in StartTty, Goto(t, q)
      PROVE  at'[t] = q /\ proc'[t] = "startTty"
  BY <1>1, <1>2, <1>4 DEF Goto, TypeOK
<1> USE DEF StartTtyCheck, StartTtyPiped, StartTtyCreate, StartTtyStart, StartTtySet, Point
<1>5. CASE StartTtyCheck(t)
  BY <1>2, <1>3, <1>4, <1>5
<1>6. CASE StartTtyPiped(t)
  BY <1>2, <1>3, <1>4, <1>6
<1>7. CASE StartTtyCreate(t)
  BY <1>2, <1>3, <1>4, <1>7
<1>8. CASE StartTtyStart(t)
  BY <1>2, <1>3, <1>4, <1>8
<1>9. CASE StartTtySet(t)
  BY <1>2, <1>3, <1>4, <1>9
<1> HIDE DEF StartTtyCheck, StartTtyPiped, StartTtyCreate, StartTtyStart, StartTtySet, Point
<1> QED
  BY <1>5, <1>6, <1>7, <1>8, <1>9

\* stopTtyLogging and TtyLogger.stop.
LEMMA StopMoves ==
    ASSUME Controlled, NEW t \in Thread
    PROVE  /\ StopTtyCheck(t) =>
                /\ at[t] = "st_check" /\ proc[t] \in {"stopTty", "startUart"}
                /\ Still /\ UNCHANGED Captured
                /\ IF isTtyLogging THEN at'[t] = "st_stop" /\ proc'[t] = proc[t]
                   ELSE FromStop(t)
           /\ StopTtyStop(t) =>
                /\ at[t] = "st_stop" /\ proc[t] \in {"stopTty", "startUart"}
                /\ at'[t] = "st_wait" /\ proc'[t] = proc[t]
                /\ log' = [log EXCEPT ![t] = ttyLogger]
                /\ loggerStop' = [loggerStop EXCEPT ![ttyLogger] = TRUE]
                /\ UNCHANGED <<Flags, serial, tgt, vic, Piping, ttyLogger, loggerState, loggerOf, tty>>
           /\ StopTtyWait(t) =>
                /\ at[t] = "st_wait" /\ proc[t] \in {"stopTty", "startUart"}
                /\ at'[t] = "st_clear" /\ proc'[t] = proc[t]
                /\ loggerState[log[t]] = "finished"
                /\ Still /\ UNCHANGED Captured
           /\ StopTtyClear(t) =>
                /\ at[t] = "st_clear" /\ proc[t] \in {"stopTty", "startUart"}
                /\ isTtyLogging' = FALSE /\ FromStop(t)
                /\ UNCHANGED <<isUartPiped, targetObj, Captured, Logging, Piping, tty>>
<1> USE DEF At, StopTty, Still, Flags, Captured, Logging, Piping, settings, devices, loggers, socats
<1>1. TypeOK /\ Flow(t) /\ Planned(t)
  BY DEF Controlled
<1>2. ASSUME at[t] \in StopTty
      PROVE  Busy(t) /\ proc[t] \in {"stopTty", "startUart"}
  BY <1>1, <1>2 DEF Flow, Busy
<1>3. ASSUME at[t] \in StopTty, Return(t, "stopTty")
      PROVE  FromStop(t)
  BY <1>1, <1>2, <1>3, Goes DEF FromStop
<1>4. ASSUME NEW q \in Point, at[t] \in StopTty, Goto(t, q)
      PROVE  at'[t] = q /\ proc'[t] = proc[t]
  BY <1>1, <1>2, <1>4 DEF Goto, TypeOK
<1> USE DEF StopTtyCheck, StopTtyStop, StopTtyWait, StopTtyClear, Point
<1>5. CASE StopTtyCheck(t)
  BY <1>2, <1>3, <1>4, <1>5
<1>6. CASE StopTtyStop(t)
  BY <1>2, <1>3, <1>4, <1>6
<1>7. CASE StopTtyWait(t)
  BY <1>2, <1>3, <1>4, <1>7
<1>8. CASE StopTtyClear(t)
  BY <1>2, <1>3, <1>4, <1>8
<1> HIDE DEF StopTtyCheck, StopTtyStop, StopTtyWait, StopTtyClear, Point
<1> QED
  BY <1>5, <1>6, <1>7, <1>8

\* The other functions of a reset and of the end of a session.
LEMMA ResetMoves ==
    ASSUME Controlled, NEW t \in Thread
    PROVE  /\ TearDown(t) =>
                /\ at[t] = "tearDown" /\ job[t] = "reset"
                /\ \/ Exit("lost")
                   \/ /\ at'[t] = "renew" /\ proc'[t] = "renew"
                      /\ tty' = [tty EXCEPT ![targetObj] = "dead"]
                      /\ UNCHANGED <<Flags, Captured, Logging, Piping>>
           /\ Renew(t) =>
                /\ at[t] = "renew" /\ job[t] = "reset"
                /\ at'[t] = "spawn" /\ proc'[t] = "spawn"
                /\ targetObj' = serial[t]
                /\ UNCHANGED <<isUartPiped, isTtyLogging, Captured, Logging, Piping, tty>>
           /\ Spawn(t) =>
                /\ at[t] = "spawn" /\ job[t] = "reset"
                /\ at'[t] = "boot" /\ proc'[t] = "boot"
                /\ tty' = [tty EXCEPT ![targetObj] = "up"]
                /\ UNCHANGED <<Flags, Captured, Logging, Piping>>
           /\ \A p \in {"boot", "commands", "shutdown"} : Drive(t, p) =>
                /\ at[t] = p /\ job[t] = (IF p = "shutdown" THEN "finish" ELSE "reset")
                /\ \/ Exit("lost")
                   \/ /\ IF p = "boot"
                         THEN \/ at'[t] = "su_check" /\ proc'[t] = "startUart"
                              \/ at'[t] = "sl_check" /\ proc'[t] = "startTty"
                         ELSE at'[t] = "idle"
                      /\ Still /\ UNCHANGED Captured /\ tty[targetObj] = "up"
<1> USE DEF At, Still, Flags, Captured, Logging, Piping, settings, devices, loggers, socats
<1>1. TypeOK /\ Flow(t) /\ Planned(t)
  BY DEF Controlled
<1>2. ASSUME NEW p, at[t] = p, p \in Alone \cup {"commands"}
      PROVE  /\ Busy(t) /\ proc[t] = p
             /\ job[t] = (IF p = "shutdown" THEN "finish" ELSE "reset")
  BY <1>1, <1>2 DEF Flow, Planned, Busy, Alone
<1>5. ASSUME TearDown(t)
      PROVE  /\ at[t] = "tearDown" /\ job[t] = "reset"
             /\ Return(t, "tearDown") => at'[t] = "renew" /\ proc'[t] = "renew"
  <2>1. at[t] = "tearDown"
    BY <1>5 DEF TearDown
  <2>2. Busy(t) /\ proc[t] = "tearDown" /\ job[t] = "reset"
    BY <1>2, <2>1 DEF Alone
  <2> QED
    BY <1>1, <2>1, <2>2, Goes
<1>6. ASSUME Renew(t)
      PROVE  /\ at[t] = "renew" /\ job[t] = "reset"
             /\ Return(t, "renew") => at'[t] = "spawn" /\ proc'[t] = "spawn"
  <2>1. at[t] = "renew"
    BY <1>6 DEF Renew
  <2>2. Busy(t) /\ proc[t] = "renew" /\ job[t] = "reset"
    BY <1>2, <2>1 DEF Alone
  <2> QED
    BY <1>1, <2>1, <2>2, Goes
<1>7. ASSUME Spawn(t)
      PROVE  /\ at[t] = "spawn" /\ job[t] = "reset"
             /\ Return(t, "spawn") => at'[t] = "boot" /\ proc'[t] = "boot"
  <2>1. at[t] = "spawn"
    BY <1>7 DEF Spawn
  <2>2. Busy(t) /\ proc[t] = "spawn" /\ job[t] = "reset"
    BY <1>2, <2>1 DEF Alone
  <2> QED
    BY <1>1, <2>1, <2>2, Goes
<1>8. ASSUME NEW p \in {"boot", "commands", "shutdown"}, Drive(t, p)
      PROVE  /\ at[t] = p /\ job[t] = (IF p = "shutdown" THEN "finish" ELSE "reset")
             /\ \/ Exit("lost")
                \/ /\ IF p = "boot"
                      THEN \/ at'[t] = "su_check" /\ proc'[t] = "startUart"
                           \/ at'[t] = "sl_check" /\ proc'[t] = "startTty"
                      ELSE at'[t] = "idle"
                   /\ Still /\ UNCHANGED Captured /\ tty[targetObj] = "up"
  <2>1. at[t] = p /\ p \in Alone \cup {"commands"}
    BY <1>8 DEF Drive, Alone
  <2>2. Busy(t) /\ proc[t] = p /\ job[t] = (IF p = "shutdown" THEN "finish" ELSE "reset")
    BY <1>2, <2>1
  <2>3. Exit("lost") \/ (/\ tty[targetObj] = "up" /\ Return(t, p)
                         /\ Still /\ UNCHANGED Captured)
    BY <1>8 DEF Drive
  <2>4. Return(t, p) => IF p = "boot"
                        THEN \/ at'[t] = "su_check" /\ proc'[t] = "startUart"
                             \/ at'[t] = "sl_check" /\ proc'[t] = "startTty"
                        ELSE at'[t] = "idle"
    BY <1>1, <2>2, Goes
  <2> QED
    BY <2>1, <2>2, <2>3, <2>4
<1> QED
  BY <1>5, <1>6, <1>7, <1>8 DEF TearDown, Renew, Spawn

------------------------------------------------------------------------------
(* Alone: what a job finds that runs beside no other                       *)

\* Only exited changes, or nothing.
LEMMA SameOwned ==
    ASSUME Owned, UNCHANGED <<user, threads, settings, devices>>
    PROVE  Booted' /\ Solo' /\ Lones' /\ Held'
<1>1. /\ UNCHANGED <<phase, cmds, requests, raced, job, proc, at, serial, tgt, vic, log>>
      /\ UNCHANGED <<isUartPiped, isTtyLogging, targetObj, ttyLogger>>
      /\ UNCHANGED <<tty, loggerState, loggerOf, loggerStop>>
      /\ UNCHANGED <<uartSocatProc, socatState, socatOf>>
  BY DEF user, threads, settings, devices, loggers, socats
<1>2. Booted' /\ Solo'
  BY <1>1 DEF Owned, Booted, Solo, Lone, Busy
<1>3. NoListener' = NoListener /\ NoLogger' = NoLogger
  BY <1>1 DEF NoListener, NoLogger, CleanSocat, CleanLogger
<1>4. Lones'
  BY <1>1, <1>3 DEF Owned, Lones, Lone, Busy, Points, UartPoint, TtyPoint, DrivePoint
<1>5. Held'
  <2>1. \A s \in Ids : CleanSocat(s)' => KeptSocat(s)'
    BY <1>1 DEF Owned, Held, CleanSocat, KeptSocat, SocatPoint
  <2>2. \A l \in Ids : CleanLogger(l)' => KeptLogger(l)'
    BY <1>1 DEF Owned, Held, CleanLogger, KeptLogger, LoggerPoint
  <2> QED
    BY <1>3, <2>1, <2>2 DEF Owned, Held
<1> QED
  BY <1>2, <1>4, <1>5

\* The process of the current target exists, but between Renew and Spawn.
LEMMA BootedStep ==
    ASSUME Controlled, Booted, NEW t \in Thread, Step(t)
    PROVE  Booted'
<1>1. targetObj \in Ids /\ serial[t] \in Ids /\ tty \in [Ids -> {"none", "up", "dead"}]
  BY DEF Controlled, TypeOK
<1>2. \A u \in Thread : u # t => at'[u] = at[u]
  BY Frame DEF Controlled
<1>3. job[t] = "reset" => t = "watchdog"
  BY Frame DEF Controlled, Planned, Busy, Thread
<1> USE DEF Still, Flags, settings, devices, Exit, threads
<1>4. ASSUME UNCHANGED <<tty, targetObj>>, at[t] # "spawn"
      PROVE  Booted'
  BY <1>2, <1>4 DEF Booted, Thread
<1>5. ASSUME NEW why, Exit(why)
      PROVE  Booted'
  BY <1>5 DEF Booted
<1>6. CASE StartUartCheck(t) \/ StartUartLogging(t) \/ StartUartPopen(t) \/ StartUartSet(t)
  BY <1>4, <1>5, <1>6, UartMoves
<1>7. CASE EndUartCheck(t) \/ EndUartKill(t) \/ EndUartClear(t)
  BY <1>4, <1>7, EndMoves
<1>8. CASE StartTtyCheck(t) \/ StartTtyPiped(t) \/ StartTtyCreate(t) \/ StartTtyStart(t) \/ StartTtySet(t)
  BY <1>4, <1>8, TtyMoves
<1>9. CASE StopTtyCheck(t) \/ StopTtyStop(t) \/ StopTtyWait(t) \/ StopTtyClear(t)
  BY <1>4, <1>9, StopMoves
<1>10. CASE TearDown(t)
  <2>1. \/ Exit("lost")
        \/ tty' = [tty EXCEPT ![targetObj] = "dead"] /\ targetObj' = targetObj
    BY <1>10, ResetMoves
  <2> QED
    BY <1>1, <1>5, <2>1 DEF Booted
<1>11. CASE Renew(t)
  BY <1>3, <1>11, ResetMoves DEF Booted
<1>12. CASE Spawn(t)
  <2>1. tty' = [tty EXCEPT ![targetObj] = "up"] /\ targetObj' = targetObj
    BY <1>12, ResetMoves
  <2> QED
    BY <1>1, <2>1 DEF Booted
<1>13. CASE \E p \in {"boot", "commands", "shutdown"} : Drive(t, p)
  BY <1>4, <1>5, <1>13, ResetMoves
<1> QED
  BY <1>6, <1>7, <1>8, <1>9, <1>10, <1>11, <1>12, <1>13 DEF Step

\* Nobody starts a job in a step of a thread that is inside one.
LEMMA SoloStep ==
    ASSUME Controlled, Solo, NEW t \in Thread, Step(t)
    PROVE  /\ Solo'
           /\ Busy(t)
           /\ \A u \in Thread : Lone(u)' => Lone(u) /\ u = t
           /\ Lone(t) => \A u \in Thread : u # t => ~Busy(u) /\ ~Busy(u)'
<1>1. /\ Busy(t) /\ UNCHANGED <<raced, serial>>
      /\ \A u \in Thread : Busy(u)' => Busy(u)
  BY Frame, NumberMoves DEF Controlled, Busy
<1>2. \A u \in Thread : Lone(u)' => Lone(u)
  BY <1>1 DEF Lone
<1> QED
  BY <1>1, <1>2 DEF Solo

\* While t is alone the others are at no point.
LEMMA ToPoints ==
    ASSUME NEW t \in Thread, NEW u \in Thread, ~Busy(u)
    PROVE  Points(u)
BY DEF Busy, Points, UartPoint, TtyPoint, DrivePoint, StartTty, EndUart, StopTty, Alone

\* endUartPiping ends the listener it finds, if it runs alone ...
LEMMA KillEnds ==
    ASSUME Owned, NEW t \in Thread, Lone(t), EndUartKill(t)
    PROVE  NoListener'
<1>1. vic[t] = targetObj /\ UNCHANGED raced
  BY EndMoves DEF Owned, Lones, Points, UartPoint, EndUartKill, user
<1>2. socatState' = IF uartSocatProc[vic[t]] = None THEN socatState
                    ELSE [socatState EXCEPT ![uartSocatProc[vic[t]]] = "killed"]
  BY DEF EndUartKill
<1>3. SUFFICES ASSUME NEW s \in Ids, CleanSocat(s)'
               PROVE  FALSE
  BY DEF NoListener
<1>4. s # None /\ socatState \in [Ids -> {"none", "listening", "killed"}]
  BY ConfigAssumption DEF Ids, None, Owned, Controlled, TypeOK
<1>5. CleanSocat(s)
  BY <1>1, <1>2, <1>3, <1>4 DEF CleanSocat
<1>6. uartSocatProc[targetObj] = s
  BY <1>5 DEF Owned, Held, KeptSocat
<1> QED
  BY <1>1, <1>2, <1>3, <1>4, <1>6 DEF CleanSocat

\* ... and TtyLogger.stop returns when the thread it waited for is finished.
LEMMA WaitEnds ==
    ASSUME Owned, NEW t \in Thread, Lone(t), StopTtyWait(t)
    PROVE  NoLogger'
<1>1. /\ log[t] = ttyLogger /\ loggerState[log[t]] = "finished"
      /\ UNCHANGED <<raced, loggerState>>
  BY StopMoves DEF Owned, Lones, Points, TtyPoint, StopTtyWait, user, devices, loggers
<1>2. \A l \in Ids : CleanLogger(l) => ttyLogger = l
  BY DEF Owned, Held, KeptLogger
<1> QED
  BY <1>1, <1>2 DEF NoLogger, CleanLogger, Live

\* A job that is alone finds at every point what it left at the one before.
LEMMA PointsStep ==
    ASSUME Owned, NEW t \in Thread, Step(t), Lone(t)
    PROVE  Points(t)'
<1>1. Controlled /\ Points(t) /\ TypeOK
  BY DEF Owned, Lones, Controlled
<1>2. job'[t] = (IF at'[t] = "idle" THEN "none" ELSE job[t]) /\ t \in Thread
  BY <1>1, Frame
<1> USE DEF StartUart, StartTty, EndUart, StopTty, Alone, Still, Flags, Captured, Logging,
            FromEnd, FromStop, FromStart
<1> DEFINE P == /\ UartPoint(t)' /\ TtyPoint(t)' /\ DrivePoint(t)'
<1> SUFFICES P
  BY DEF Points
<1>3. ASSUME NEW why, Exit(why)
      PROVE  P
  <2>1. UNCHANGED <<user, threads, settings, devices>>
    BY <1>3 DEF Exit
  <2>2. Lones' /\ Lone(t)'
    BY <2>1, SameOwned DEF user, threads, Lone, Busy
  <2> QED
    BY <2>2 DEF Lones, Points
<1>4. CASE StartUartCheck(t)
  BY <1>1, <1>2, <1>4, UartMoves DEF UartPoint, TtyPoint, DrivePoint, Points, TypeOK
<1>5. CASE StartUartLogging(t)
  BY <1>1, <1>2, <1>5, UartMoves DEF UartPoint, TtyPoint, DrivePoint, Points
<1>6. CASE StartUartPopen(t)
  BY <1>1, <1>2, <1>3, <1>6, UartMoves DEF UartPoint, TtyPoint, DrivePoint, Points
<1>7. CASE StartUartSet(t)
  BY <1>1, <1>2, <1>7, UartMoves DEF UartPoint, TtyPoint, DrivePoint, Points
<1>8. CASE EndUartCheck(t)
  BY <1>1, <1>2, <1>8, EndMoves DEF UartPoint, TtyPoint, DrivePoint, Points, TypeOK
<1>9. CASE EndUartKill(t)
  BY <1>1, <1>2, <1>9, EndMoves, KillEnds DEF UartPoint, TtyPoint, DrivePoint, Points
<1>10. CASE EndUartClear(t)
  BY <1>1, <1>2, <1>10, EndMoves DEF UartPoint, TtyPoint, DrivePoint, Points
<1>11. CASE StartTtyCheck(t)
  BY <1>1, <1>2, <1>11, TtyMoves DEF UartPoint, TtyPoint, DrivePoint, Points, TypeOK
<1>12. CASE StartTtyPiped(t)
  BY <1>1, <1>2, <1>12, TtyMoves DEF UartPoint, TtyPoint, DrivePoint, Points
<1>13. CASE StartTtyCreate(t)
  BY <1>1, <1>2, <1>13, TtyMoves DEF UartPoint, TtyPoint, DrivePoint, Points
<1>14. CASE StartTtyStart(t)
  BY <1>1, <1>2, <1>14, TtyMoves DEF UartPoint, TtyPoint, DrivePoint, Points
<1>15. CASE StartTtySet(t)
  BY <1>1, <1>2, <1>15, TtyMoves DEF UartPoint, TtyPoint, DrivePoint, Points
<1>16. CASE StopTtyCheck(t)
  BY <1>1, <1>2, <1>16, StopMoves DEF UartPoint, TtyPoint, DrivePoint, Points
<1>17. CASE StopTtyStop(t)
  <2>1. at'[t] = "st_wait" /\ proc'[t] = proc[t] /\ at[t] = "st_stop" /\ job'[t] = job[t]
    BY <1>1, <1>2, <1>17, StopMoves
  <2>2. log'[t] = ttyLogger /\ UNCHANGED <<Flags, serial, tgt, vic, ttyLogger>>
    BY <1>1, <1>17, StopMoves DEF TypeOK
  <2> QED
    BY <1>1, <2>1, <2>2 DEF UartPoint, TtyPoint, DrivePoint, Points
<1>18. CASE StopTtyWait(t)
  BY <1>1, <1>2, <1>18, StopMoves, WaitEnds DEF UartPoint, TtyPoint, DrivePoint, Points
<1>19. CASE StopTtyClear(t)
  BY <1>1, <1>2, <1>19, StopMoves DEF UartPoint, TtyPoint, DrivePoint, Points
<1>20. CASE TearDown(t)
  BY <1>1, <1>2, <1>3, <1>20, ResetMoves DEF UartPoint, TtyPoint, DrivePoint, Points
<1>21. CASE Renew(t)
  BY <1>1, <1>2, <1>21, ResetMoves DEF UartPoint, TtyPoint, DrivePoint, Points
<1>22. CASE Spawn(t)
  BY <1>1, <1>2, <1>22, ResetMoves DEF UartPoint, TtyPoint, DrivePoint, Points
<1>23. CASE \E p \in {"boot", "commands", "shutdown"} : Drive(t, p)
  BY <1>1, <1>2, <1>3, <1>23, ResetMoves DEF UartPoint, TtyPoint, DrivePoint, Points
<1> QED
  BY <1>4, <1>5, <1>6, <1>7, <1>8, <1>9, <1>10, <1>11, <1>12, <1>13, <1>14, <1>15, <1>16, <1>17, <1>18, <1>19, <1>20, <1>21, <1>22, <1>23 DEF Step

\* So does every other job that is alone.
LEMMA LonesStep ==
    ASSUME Owned, NEW t \in Thread, Step(t)
    PROVE  Lones'
BY PointsStep, SoloStep DEF Owned, Lones

------------------------------------------------------------------------------
(* Safe: what a job that ran alone started                                 *)

\* The setting is on for a listener, or its own job is about to set it.
LEMMA SocatOn ==
    ASSUME Owned, NEW t \in Thread, Busy(t), NEW s \in Ids, CleanSocat(s)
    PROVE  isUartPiped \/ (at[t] = "su_set" /\ serial[t] = s /\ Lone(t))
<1>1. SUFFICES ASSUME ~isUartPiped
               PROVE  at[t] = "su_set" /\ serial[t] = s /\ Lone(t)
  OBVIOUS
<1>2. PICK u \in Thread : at[u] = "su_set" /\ serial[u] = s
  BY <1>1 DEF Owned, Held, KeptSocat
<1>3. Lone(u)
  BY <1>2 DEF Lone, Busy, CleanSocat
<1>4. u = t
  BY <1>3 DEF Owned, Solo
<1> QED
  BY <1>2, <1>3, <1>4

\* The same of a logger and isTtyLogging.
LEMMA LoggerOn ==
    ASSUME Owned, NEW t \in Thread, Busy(t), NEW l \in Ids, CleanLogger(l)
    PROVE  isTtyLogging \/ (at[t] \in {"sl_start", "sl_set"} /\ serial[t] = l /\ Lone(t))
<1>1. SUFFICES ASSUME ~isTtyLogging
               PROVE  at[t] \in {"sl_start", "sl_set"} /\ serial[t] = l /\ Lone(t)
  OBVIOUS
<1>2. PICK u \in Thread : at[u] \in {"sl_start", "sl_set"} /\ serial[u] = l
  BY <1>1 DEF Owned, Held, KeptLogger
<1>3. Lone(u)
  BY <1>2 DEF Lone, Busy, CleanLogger
<1>4. u = t
  BY <1>3 DEF Owned, Solo
<1> QED
  BY <1>2, <1>3, <1>4

\* No step takes the settings away from a listener without killing it.
LEMMA SocatKept ==
    ASSUME Owned, NEW t \in Thread, Step(t), NEW s \in Ids, CleanSocat(s), CleanSocat(s)'
    PROVE  KeptSocat(s)'
<1>1. /\ Controlled /\ TypeOK /\ KeptSocat(s) /\ SocatPoint(s, t)
      /\ Busy(t)
  BY SoloStep DEF Owned, Controlled, Held, KeptSocat
<1>2. /\ UNCHANGED <<phase, serial>>
      /\ job'[t] = IF at'[t] = "idle" THEN "none" ELSE job[t]
      /\ \A u \in Thread : u # t => at'[u] = at[u] /\ proc'[u] = proc[u] /\ job'[u] = job[u]
  BY <1>1, Frame, NumberMoves
<1>3. isUartPiped \/ at[t] = "su_set"
  BY <1>1, SocatOn
<1>4. phase \in {"ending", "ended"} /\ t = "main" => at[t] \in {"eu_check", "eu_kill"} /\ job[t] = "finish"
  BY <1>1 DEF KeptSocat, Controlled, Planned
<1> DEFINE Safe == /\ SocatPoint(s, t)'
                   /\ UNCHANGED <<targetObj, uartSocatProc, socatOf>>
                   /\ isUartPiped' \/ (at'[t] = "su_set" /\ serial'[t] = s)
                   /\ at[t] \in {"eu_check", "eu_kill"} /\ job[t] = "finish" =>
                        at'[t] \in {"eu_check", "eu_kill"}
                   /\ \A u \in Thread : u # t => vic'[u] = vic[u]
<1>5. ASSUME Safe
      PROVE  KeptSocat(s)'
  <2>1. \A u \in Thread : SocatPoint(s, u)'
    BY <1>1, <1>2, <1>5 DEF KeptSocat, SocatPoint
  <2>2. phase \in {"ending", "ended"} => at'["main"] \in {"eu_check", "eu_kill"}
    <3>1. CASE t = "main"
      BY <1>4, <1>5, <3>1
    <3>2. CASE t # "main"
      BY <1>1, <1>2, <3>2 DEF KeptSocat, Thread
    <3> QED
      BY <3>1, <3>2
  <2>3. socatOf'[s] = targetObj' /\ uartSocatProc'[targetObj'] = s
    BY <1>1, <1>5 DEF KeptSocat
  <2>4. isUartPiped' \/ \E u \in Thread : at'[u] = "su_set" /\ serial'[u] = s
    BY <1>5
  <2> QED
    BY <1>2, <2>1, <2>2, <2>3, <2>4 DEF KeptSocat
<1> SUFFICES Safe
  BY <1>5
<1> USE DEF StartUart, StartTty, EndUart, StopTty, Alone, Still, Flags, Captured, Piping,
            FromEnd, FromStop, FromStart
<1>6. ASSUME NEW why, Exit(why)
      PROVE  Safe
  BY <1>1, <1>3, <1>6 DEF Exit, user, threads, settings, devices, socats, SocatPoint
<1>7. CASE StartUartCheck(t)
  BY <1>1, <1>2, <1>3, <1>7, UartMoves DEF SocatPoint, TypeOK
<1>8. CASE StartUartLogging(t) \/ StartUartPopen(t)
  BY <1>1, <1>8, UartMoves DEF SocatPoint
<1>9. CASE StartUartSet(t)
  BY <1>1, <1>2, <1>9, UartMoves DEF SocatPoint
<1>10. CASE EndUartCheck(t)
  <2>1. /\ at[t] = "eu_check" /\ isUartPiped
        /\ at'[t] = "eu_kill" /\ proc'[t] = proc[t] /\ job'[t] = job[t]
        /\ vic' = [vic EXCEPT ![t] = targetObj]
        /\ UNCHANGED <<isUartPiped, targetObj, Piping>>
    BY <1>1, <1>2, <1>3, <1>10, EndMoves
  <2>2. vic'[t] = targetObj /\ \A u \in Thread : u # t => vic'[u] = vic[u]
    BY <1>1, <2>1 DEF TypeOK
  <2> QED
    BY <1>1, <1>2, <2>1, <2>2 DEF SocatPoint
<1>11. CASE EndUartKill(t)
  <2>1. /\ vic[t] = targetObj /\ uartSocatProc[targetObj] = s
        /\ socatState' = IF uartSocatProc[vic[t]] = None THEN socatState
                         ELSE [socatState EXCEPT ![uartSocatProc[vic[t]]] = "killed"]
    BY <1>1, <1>11, EndMoves DEF SocatPoint, KeptSocat
  <2>2. s # None
    BY ConfigAssumption DEF Ids, None
  <2> QED
    BY <1>1, <2>1, <2>2 DEF CleanSocat, TypeOK
<1>12. CASE EndUartClear(t)
  BY <1>1, <1>12, EndMoves DEF SocatPoint
<1>13. CASE StartTtyCheck(t)
  BY <1>1, <1>2, <1>3, <1>13, TtyMoves DEF SocatPoint
<1>14. CASE StartTtyPiped(t) \/ StartTtyCreate(t)
  BY <1>1, <1>2, <1>3, <1>14, TtyMoves DEF SocatPoint
<1>15. CASE StartTtyStart(t) \/ StartTtySet(t)
  BY <1>1, <1>2, <1>3, <1>15, TtyMoves DEF SocatPoint
<1>16. CASE StopTtyCheck(t)
  BY <1>1, <1>2, <1>3, <1>16, StopMoves DEF SocatPoint
<1>17. CASE StopTtyStop(t) \/ StopTtyWait(t)
  BY <1>1, <1>2, <1>3, <1>17, StopMoves DEF SocatPoint
<1>18. CASE StopTtyClear(t)
  BY <1>1, <1>2, <1>3, <1>18, StopMoves DEF SocatPoint
<1>19. CASE TearDown(t) \/ Renew(t) \/ Spawn(t)
  BY <1>1, <1>19, ResetMoves DEF SocatPoint
<1>20. CASE \E p \in {"boot", "commands", "shutdown"} : Drive(t, p)
  BY <1>1, <1>2, <1>3, <1>6, <1>20, ResetMoves DEF SocatPoint
<1> QED
  BY <1>7, <1>8, <1>9, <1>10, <1>11, <1>12, <1>13, <1>14, <1>15, <1>16, <1>17, <1>18, <1>19, <1>20 DEF Step

\* No step takes isTtyLogging away from a logger that was not joined.
LEMMA LoggerKept ==
    ASSUME Owned, NEW t \in Thread, Step(t), NEW l \in Ids, CleanLogger(l), CleanLogger(l)'
    PROVE  KeptLogger(l)'
<1>1. /\ Controlled /\ TypeOK /\ KeptLogger(l) /\ LoggerPoint(l, t)
      /\ Busy(t)
  BY SoloStep DEF Owned, Controlled, Held, KeptLogger
<1>2. /\ UNCHANGED <<phase, serial>>
      /\ job'[t] = IF at'[t] = "idle" THEN "none" ELSE job[t]
      /\ \A u \in Thread : u # t => at'[u] = at[u] /\ proc'[u] = proc[u] /\ job'[u] = job[u]
  BY <1>1, Frame, NumberMoves
<1>3. isTtyLogging \/ (at[t] \in {"sl_start", "sl_set"} /\ serial[t] = l)
  BY <1>1, LoggerOn
<1>4. phase \in {"ending", "ended"} /\ t = "main" =>
        at[t] \in EndUart \cup {"st_check", "st_stop", "st_wait"} /\ job[t] = "finish"
  BY <1>1 DEF KeptLogger, Controlled, Planned
<1> DEFINE Safe == /\ LoggerPoint(l, t)'
                   /\ UNCHANGED ttyLogger
                   /\ isTtyLogging' \/ (at'[t] \in {"sl_start", "sl_set"} /\ serial'[t] = l)
                   /\ at[t] \in EndUart \cup {"st_check", "st_stop", "st_wait"} /\ job[t] = "finish" =>
                        at'[t] \in EndUart \cup {"st_check", "st_stop", "st_wait"}
                   /\ \A u \in Thread : u # t => log'[u] = log[u]
<1>5. ASSUME Safe
      PROVE  KeptLogger(l)'
  <2>1. \A u \in Thread : LoggerPoint(l, u)'
    BY <1>1, <1>2, <1>5 DEF KeptLogger, LoggerPoint
  <2>2. phase \in {"ending", "ended"} => at'["main"] \in EndUart \cup {"st_check", "st_stop", "st_wait"}
    <3>1. CASE t = "main"
      BY <1>4, <1>5, <3>1
    <3>2. CASE t # "main"
      BY <1>1, <1>2, <3>2 DEF KeptLogger, Thread
    <3> QED
      BY <3>1, <3>2
  <2>3. ttyLogger' = l
    BY <1>1, <1>5 DEF KeptLogger
  <2>4. isTtyLogging' \/ \E u \in Thread : at'[u] \in {"sl_start", "sl_set"} /\ serial'[u] = l
    BY <1>5
  <2> QED
    BY <1>2, <2>1, <2>2, <2>3, <2>4 DEF KeptLogger
<1> SUFFICES Safe
  BY <1>5
<1> USE DEF StartUart, StartTty, EndUart, StopTty, Alone, Still, Flags, Captured, Logging,
            FromEnd, FromStop, FromStart
<1>6. ASSUME NEW why, Exit(why)
      PROVE  Safe
  BY <1>1, <1>3, <1>6 DEF Exit, user, threads, settings, devices, loggers, LoggerPoint
<1>7. CASE StartUartCheck(t)
  BY <1>1, <1>2, <1>3, <1>7, UartMoves DEF LoggerPoint
<1>8. CASE StartUartLogging(t) \/ StartUartPopen(t)
  BY <1>1, <1>2, <1>3, <1>6, <1>8, UartMoves DEF LoggerPoint
<1>9. CASE StartUartSet(t)
  BY <1>1, <1>2, <1>3, <1>9, UartMoves DEF LoggerPoint
<1>10. CASE EndUartCheck(t)
  BY <1>1, <1>2, <1>3, <1>10, EndMoves DEF LoggerPoint
<1>11. CASE EndUartKill(t)
  BY <1>1, <1>2, <1>3, <1>11, EndMoves DEF LoggerPoint
<1>12. CASE EndUartClear(t)
  BY <1>1, <1>2, <1>3, <1>12, EndMoves DEF LoggerPoint
<1>13. CASE StartTtyCheck(t)
  BY <1>1, <1>2, <1>3, <1>13, TtyMoves DEF LoggerPoint
<1>14. CASE StartTtyPiped(t) \/ StartTtyCreate(t)
  BY <1>1, <1>2, <1>3, <1>14, TtyMoves DEF LoggerPoint
<1>15. CASE StartTtyStart(t)
  BY <1>1, <1>2, <1>3, <1>15, TtyMoves DEF LoggerPoint
<1>21. CASE StartTtySet(t)
  BY <1>1, <1>2, <1>3, <1>21, TtyMoves DEF LoggerPoint
<1>16. CASE StopTtyCheck(t)
  BY <1>1, <1>2, <1>3, <1>16, StopMoves DEF LoggerPoint
<1>17. CASE StopTtyStop(t)
  <2>1. ttyLogger = l
    BY <1>1 DEF KeptLogger
  <2>2. /\ at[t] = "st_stop" /\ at'[t] = "st_wait" /\ proc'[t] = proc[t] /\ job'[t] = job[t]
        /\ UNCHANGED <<isTtyLogging, ttyLogger>>
        /\ log' = [log EXCEPT ![t] = ttyLogger]
    BY <1>1, <1>2, <1>17, StopMoves
  <2>3. log'[t] = l /\ \A u \in Thread : u # t => log'[u] = log[u]
    BY <1>1, <2>1, <2>2 DEF TypeOK
  <2> QED
    BY <1>1, <1>2, <1>3, <2>2, <2>3 DEF LoggerPoint
<1>22. CASE StopTtyWait(t)
  <2>1. loggerState[l] = "finished" /\ loggerState' = loggerState
    BY <1>1, <1>22, StopMoves DEF LoggerPoint
  <2> QED
    BY <2>1 DEF CleanLogger, Live
<1>18. CASE StopTtyClear(t)
  BY <1>1, <1>18, StopMoves DEF LoggerPoint
<1>19. CASE TearDown(t) \/ Renew(t) \/ Spawn(t)
  BY <1>1, <1>19, ResetMoves DEF LoggerPoint
<1>20. CASE \E p \in {"boot", "commands", "shutdown"} : Drive(t, p)
  BY <1>1, <1>2, <1>3, <1>6, <1>20, ResetMoves DEF LoggerPoint
<1> QED
  BY <1>7, <1>8, <1>9, <1>10, <1>11, <1>12, <1>13, <1>14, <1>15, <1>16, <1>17, <1>18, <1>19, <1>20, <1>21, <1>22 DEF Step

\* Which steps touch a listener or a logger.
LEMMA DeviceMoves ==
    ASSUME Controlled, NEW t \in Thread, Step(t)
    PROVE  /\ \/ UNCHANGED socatState
              \/ EndUartKill(t)
              \/ StartUartPopen(t) /\ ~Exit("piping")
           /\ \/ UNCHANGED loggerState
              \/ StartTtyCreate(t) \/ StartTtyStart(t)
<1> USE DEF devices, loggers, socats, Exit, Logging, Piping, Still
<1>1. CASE StartUartCheck(t) \/ StartUartLogging(t) \/ StartUartPopen(t) \/ StartUartSet(t)
  BY <1>1 DEF StartUartCheck, StartUartLogging, StartUartPopen, StartUartSet
<1>2. CASE EndUartCheck(t) \/ EndUartKill(t) \/ EndUartClear(t)
  BY <1>2 DEF EndUartCheck, EndUartKill, EndUartClear
<1>3. CASE StartTtyCheck(t) \/ StartTtyPiped(t) \/ StartTtyCreate(t) \/ StartTtyStart(t) \/ StartTtySet(t)
  BY <1>3 DEF StartTtyCheck, StartTtyPiped, StartTtyCreate, StartTtyStart, StartTtySet
<1>4. CASE StopTtyCheck(t) \/ StopTtyStop(t) \/ StopTtyWait(t) \/ StopTtyClear(t)
  BY <1>4 DEF StopTtyCheck, StopTtyStop, StopTtyWait, StopTtyClear
<1>5. CASE TearDown(t) \/ Renew(t) \/ Spawn(t) \/ \E p \in {"boot", "commands", "shutdown"} : Drive(t, p)
  BY <1>5 DEF TearDown, Renew, Spawn, Drive
<1> QED
  BY <1>1, <1>2, <1>3, <1>4, <1>5 DEF Step

\* A job that is alone and not at the end of a session.
LEMMA LonePhase ==
    ASSUME Owned, NEW t \in Thread, Busy(t), job[t] # "finish"
    PROVE  phase \notin {"ending", "ended"}
BY DEF Owned, Controlled, Planned, Turns, Thread

\* A listener of a job that is alone is started while there is no other owner.
LEMMA SocatNew ==
    ASSUME Owned, NEW t \in Thread, Step(t), NEW s \in Ids, ~CleanSocat(s), CleanSocat(s)'
    PROVE  KeptSocat(s)' /\ NoLogger'
<1>1. /\ Controlled /\ TypeOK /\ Busy(t)
      /\ UNCHANGED <<phase, raced, serial>>
      /\ job'[t] = IF at'[t] = "idle" THEN "none" ELSE job[t]
      /\ \A u \in Thread : u # t => at'[u] = at[u] /\ job'[u] = job[u]
  BY SoloStep, Frame, NumberMoves DEF Owned, Controlled
<1>2. socatState'[s] = "listening" /\ socatState[s] # "listening" /\ s \notin raced
  BY <1>1 DEF CleanSocat
<1>3. ~EndUartKill(t)
  <2>1. EndUartKill(t) => socatState'[s] \in {socatState[s], "killed"}
    BY <1>1 DEF EndUartKill, TypeOK
  <2> QED
    BY <1>2, <2>1
<1>4. StartUartPopen(t) /\ ~Exit("piping")
  BY <1>1, <1>2, <1>3, DeviceMoves
<1>5. /\ at[t] = "su_popen" /\ at'[t] = "su_set" /\ proc'[t] = "startUart" /\ job[t] # "finish"
      /\ socatState' = [socatState EXCEPT ![serial[t]] = "listening"]
      /\ socatOf' = [socatOf EXCEPT ![serial[t]] = tgt[t]]
      /\ uartSocatProc' = [uartSocatProc EXCEPT ![tgt[t]] = serial[t]]
      /\ UNCHANGED <<Flags, Logging>>
  BY <1>1, <1>4, UartMoves
<1>6. serial[t] = s
  BY <1>1, <1>2, <1>5 DEF TypeOK
<1>7. Lone(t)
  BY <1>1, <1>2, <1>6 DEF Lone
<1>8. ~isUartPiped /\ ~isTtyLogging /\ tgt[t] = targetObj
  BY <1>5, <1>7 DEF Owned, Lones, Points, UartPoint
<1>9. \A u \in Thread : u # t => at[u] = "idle" /\ job[u] = "none"
  BY <1>1, <1>7 DEF Owned, Solo, Busy, Controlled, Turns
<1>10. NoLogger'
  <2>1. NoLogger
    BY <1>1, <1>5, <1>8, LoggerOn DEF NoLogger
  <2> QED
    BY <1>1, <1>5, <2>1 DEF NoLogger, CleanLogger, Logging
<1>11. \A u \in Thread : SocatPoint(s, u)'
  <2>1. SocatPoint(s, t)'
    BY <1>1, <1>5, <1>6 DEF SocatPoint, StopTty
  <2> QED
    BY <1>1, <1>9, <2>1 DEF SocatPoint, StopTty
<1>12. socatOf'[s] = targetObj' /\ uartSocatProc'[targetObj'] = s
  <2>1. targetObj' = targetObj /\ targetObj \in Ids
    BY <1>1, <1>5 DEF Flags, TypeOK
  <2> QED
    BY <1>1, <1>5, <1>6, <1>8, <2>1 DEF TypeOK
<1>13. phase' \notin {"ending", "ended"}
  BY <1>1, <1>5, LonePhase
<1>14. at'[t] = "su_set" /\ serial'[t] = s
  BY <1>1, <1>5, <1>6
<1>15. targetObj' = targetObj
  BY <1>5 DEF Flags
<1> QED
  BY <1>10, <1>11, <1>12, <1>13, <1>14, <1>15 DEF KeptSocat

\* And so is a logger.
LEMMA LoggerNew ==
    ASSUME Owned, NEW t \in Thread, Step(t), NEW l \in Ids, ~CleanLogger(l), CleanLogger(l)'
    PROVE  KeptLogger(l)' /\ NoListener'
<1>1. /\ Controlled /\ TypeOK /\ Busy(t)
      /\ UNCHANGED <<phase, raced, serial>>
      /\ job'[t] = IF at'[t] = "idle" THEN "none" ELSE job[t]
      /\ \A u \in Thread : u # t => at'[u] = at[u] /\ job'[u] = job[u]
  BY SoloStep, Frame, NumberMoves DEF Owned, Controlled
<1>2. loggerState'[l] \in Live /\ loggerState[l] \notin Live /\ l \notin raced
  BY <1>1 DEF CleanLogger
<1>3. StartTtyCreate(t) \/ StartTtyStart(t)
  BY <1>1, <1>2, DeviceMoves
<1>4. /\ at[t] \in {"sl_create", "sl_start"} /\ at'[t] \in {"sl_start", "sl_set"}
      /\ proc'[t] = "startTty" /\ job[t] # "finish"
      /\ at[t] = "sl_create" => ttyLogger' = serial[t]
      /\ at[t] = "sl_start" => ttyLogger' = ttyLogger
      /\ \/ loggerState' = [loggerState EXCEPT ![serial[t]] = "new"]
         \/ loggerState' = [loggerState EXCEPT ![serial[t]] = "check"]
      /\ UNCHANGED <<Flags, Piping>>
  BY <1>1, <1>3, TtyMoves
<1>5. serial[t] = l
  BY <1>1, <1>2, <1>4 DEF TypeOK
<1>6. Lone(t)
  BY <1>1, <1>2, <1>5 DEF Lone
<1>7. ~isUartPiped /\ ~isTtyLogging /\ ttyLogger' = l
  BY <1>4, <1>5, <1>6 DEF Owned, Lones, Points, TtyPoint, StartTty
<1>8. \A u \in Thread : u # t => at[u] = "idle" /\ job[u] = "none"
  BY <1>1, <1>6 DEF Owned, Solo, Busy, Controlled, Turns
<1>9. NoListener'
  <2>1. NoListener
    BY <1>1, <1>4, <1>7, SocatOn DEF NoListener
  <2> QED
    BY <1>1, <1>4, <2>1 DEF NoListener, CleanSocat, Piping
<1>10. \A u \in Thread : LoggerPoint(l, u)'
  <2>1. LoggerPoint(l, t)'
    BY <1>1, <1>4, <1>5 DEF LoggerPoint, EndUart
  <2> QED
    BY <1>1, <1>8, <2>1 DEF LoggerPoint, EndUart
<1>11. phase' \notin {"ending", "ended"}
  BY <1>1, <1>4, LonePhase
<1>12. at'[t] \in {"sl_start", "sl_set"} /\ serial'[t] = l
  BY <1>1, <1>4, <1>5
<1> QED
  BY <1>7, <1>9, <1>10, <1>11, <1>12 DEF KeptLogger

\* What a job that ran alone started stays one owner.
LEMMA HeldStep ==
    ASSUME Owned, NEW t \in Thread, Step(t)
    PROVE  Held'
<1>1. \A s \in Ids : CleanSocat(s)' => KeptSocat(s)'
  BY SocatKept, SocatNew
<1>2. \A l \in Ids : CleanLogger(l)' => KeptLogger(l)'
  BY LoggerKept, LoggerNew
<1>3. NoListener' \/ NoLogger'
  <2>1. CASE \E s \in Ids : ~CleanSocat(s) /\ CleanSocat(s)'
    BY <2>1, SocatNew
  <2>2. CASE \E l \in Ids : ~CleanLogger(l) /\ CleanLogger(l)'
    BY <2>2, LoggerNew
  <2>3. CASE /\ \A s \in Ids : CleanSocat(s)' => CleanSocat(s)
             /\ \A l \in Ids : CleanLogger(l)' => CleanLogger(l)
    BY <2>3 DEF Owned, Held, NoListener, NoLogger
  <2> QED
    BY <2>1, <2>2, <2>3
<1> QED
  BY <1>1, <1>2, <1>3 DEF Held

\* The whole of it, for a step inside a job.
LEMMA OwnedStep ==
    ASSUME Owned, NEW t \in Thread, Step(t)
    PROVE  Owned'
BY ControlStep, NumberedStep, BootedStep, SoloStep, LonesStep, HeldStep DEF Owned

------------------------------------------------------------------------------
(* A job begins                                                            *)

\* What Begin changes, and what the three callers of it have in common.
Begins(t, j, p, n) ==
    /\ Begin(t, j, p, n)
    /\ UNCHANGED <<tgt, vic, log, settings, devices>>
    /\ IF p = "stopTty" THEN j = "pipe" ELSE p = "endUart" /\ j \in {"unpipe", "reset", "finish"}
    /\ IF t = "main" THEN j = "finish" /\ phase' = "ending" /\ Beside(t) = {} /\ phase = "closing"
       ELSE /\ phase' = phase
            /\ IF t = "shell" THEN j # "finish" /\ j # "reset" /\ phase = "shell"
               ELSE j = "reset" /\ phase \in {"shell", "closing"}

\* The control of the thread whose job begins.
LEMMA BeginMoves ==
    ASSUME Controlled, NEW t \in Thread, NEW j, NEW p, NEW n, Begins(t, j, p, n)
    PROVE  /\ ~Busy(t)
           /\ at'[t] = (IF p = "stopTty" THEN "st_check" ELSE "eu_check")
           /\ proc'[t] = p /\ job'[t] = j /\ serial'[t] = n
           /\ \A u \in Thread : u # t =>
                /\ at'[u] = at[u] /\ proc'[u] = proc[u]
                /\ job'[u] = job[u] /\ serial'[u] = serial[u]
           /\ raced \subseteq raced'
           /\ (\A u \in Thread : u # t => ~Busy(u)) => raced' = raced
           /\ (\E u \in Thread : u # t /\ Busy(u)) =>
                n \in raced' /\ \A u \in Thread : u # t /\ Busy(u) => serial[u] \in raced'
           /\ \A m \in raced' : m \in raced \/ m = n \/ \E u \in Thread : Busy(u) /\ m = serial[u]
<1>1. /\ job[t] = "none"
      /\ job' = [job EXCEPT ![t] = j] /\ proc' = [proc EXCEPT ![t] = p]
      /\ at' = [at EXCEPT ![t] = Entry(p)] /\ serial' = [serial EXCEPT ![t] = n]
      /\ raced' = IF Beside(t) = {} THEN raced
                  ELSE raced \cup {n} \cup {serial[u] : u \in Beside(t)}
      /\ p \in {"stopTty", "endUart"}
  BY DEF Begins, Begin
<1>2. Entry(p) = IF p = "stopTty" THEN "st_check" ELSE "eu_check"
  BY <1>1 DEF Entry
<1>3. /\ at'[t] = (IF p = "stopTty" THEN "st_check" ELSE "eu_check")
      /\ proc'[t] = p /\ job'[t] = j /\ serial'[t] = n
      /\ \A u \in Thread : u # t =>
                /\ at'[u] = at[u] /\ proc'[u] = proc[u]
                /\ job'[u] = job[u] /\ serial'[u] = serial[u]
  BY <1>1, <1>2 DEF Controlled, TypeOK
<1>4. ~Busy(t) /\ \A u \in Thread : u \in Beside(t) <=> u # t /\ Busy(u)
  BY <1>1 DEF Controlled, Turns, Beside
<1>5. Beside(t) \subseteq Thread
  BY DEF Beside
<1>6. /\ raced \subseteq raced'
      /\ \A m \in raced' : m \in raced \/ m = n \/ \E u \in Thread : Busy(u) /\ m = serial[u]
  BY <1>1, <1>4, <1>5
<1>7. (\A u \in Thread : u # t => ~Busy(u)) => raced' = raced
  BY <1>1, <1>4, <1>5
<1>8. (\E u \in Thread : u # t /\ Busy(u)) =>
                n \in raced' /\ \A u \in Thread : u # t /\ Busy(u) => serial[u] \in raced'
  BY <1>1, <1>4, <1>5
<1> QED
  BY <1>3, <1>4, <1>6, <1>7, <1>8

\* A job that begins keeps the control of all three.
LEMMA BeginControl ==
    ASSUME Controlled, TypeOK', NEW t \in Thread, NEW j, NEW p, NEW n, Begins(t, j, p, n)
    PROVE  Controlled'
<1> DEFINE Rest == /\ at'[t] # "idle" /\ ~Busy(t) /\ job'[t] = j /\ j # "none"
                   /\ at'[t] = (IF p = "stopTty" THEN "st_check" ELSE "eu_check")
                   /\ proc'[t] = p
                   /\ \A u \in Thread : u # t => at'[u] = at[u] /\ proc'[u] = proc[u] /\ job'[u] = job[u]
<1>1. Rest
  BY BeginMoves DEF Begins
<1>2. /\ IF p = "stopTty" THEN j = "pipe" ELSE p = "endUart" /\ j \in {"unpipe", "reset", "finish"}
      /\ IF t = "main" THEN j = "finish" /\ phase' = "ending" /\ phase = "closing"
         ELSE phase' = phase /\ IF t = "shell" THEN j # "finish" /\ j # "reset" /\ phase = "shell"
                                ELSE j = "reset" /\ phase \in {"shell", "closing"}
  BY DEF Begins
<1>3. t = "main" => \A u \in Thread : u # t => ~Busy(u)
  <2>1. t = "main" => Beside(t) = {}
    BY DEF Begins
  <2> QED
    BY <2>1 DEF Beside, Controlled, Turns
<1>4. Flow(t)' /\ Planned(t)'
  BY <1>1, <1>2 DEF Flow, Planned, StartUart, StartTty, EndUart, StopTty, Alone, Thread
<1>5. ASSUME NEW u \in Thread, u # t
      PROVE  Flow(u)' /\ Planned(u)'
  <2>1. Flow(u)'
    BY <1>1, <1>5 DEF Controlled, Flow
  <2>2. Busy(u)' => Busy(u) /\ phase' = phase
    BY <1>1, <1>2, <1>3, <1>5 DEF Busy
  <2>3. Planned(u)'
    BY <1>1, <1>5, <2>2 DEF Controlled, Planned, Busy
  <2> QED
    BY <2>1, <2>3
<1>6. Turns'
  <2>1. \A u \in Thread : job'[u] = "none" <=> ~Busy(u)'
    BY <1>1 DEF Controlled, Turns, Busy
  <2>2. t # "main" => ~Busy("main")
    BY <1>2 DEF Controlled, Turns, Thread
  <2> QED
    BY <1>1, <1>2, <1>3, <2>1, <2>2 DEF Controlled, Turns, Busy, Thread
<1> QED
  BY <1>4, <1>5, <1>6 DEF Controlled

\* A job that begins beside another takes its claim away, and finds what the
\* jobs before it left.
LEMMA BeginSafe ==
    ASSUME Owned, NEW t \in Thread, NEW j, NEW p, NEW n, Begins(t, j, p, n)
    PROVE  Booted' /\ Solo' /\ Lones' /\ Held'
<1>1. /\ ~Busy(t)
      /\ at'[t] = (IF p = "stopTty" THEN "st_check" ELSE "eu_check")
      /\ proc'[t] = p /\ job'[t] = j /\ serial'[t] = n
      /\ \A u \in Thread : u # t =>
           /\ at'[u] = at[u] /\ proc'[u] = proc[u]
           /\ job'[u] = job[u] /\ serial'[u] = serial[u]
      /\ raced \subseteq raced'
      /\ (\E u \in Thread : u # t /\ Busy(u)) =>
                n \in raced' /\ \A u \in Thread : u # t /\ Busy(u) => serial[u] \in raced'
  BY BeginMoves DEF Owned
<1>2. IF p = "stopTty" THEN j = "pipe" ELSE p = "endUart" /\ j \in {"unpipe", "reset", "finish"}
  BY DEF Begins
<1>3. UNCHANGED <<isUartPiped, isTtyLogging, targetObj, ttyLogger, tty, loggerState,
                  uartSocatProc, socatState, socatOf, vic, log>>
  BY DEF Begins, settings, devices, loggers, socats
<1>4. Booted'
  BY <1>1, <1>3 DEF Owned, Booted, Busy, Thread
<1>5. \A u \in Thread : Lone(u)' => u = t /\ \A v \in Thread : v # t => ~Busy(v)
  BY <1>1 DEF Lone, Busy
<1>6. Solo'
  BY <1>1, <1>5 DEF Solo, Busy
<1>7. Points(t)'
  BY <1>1, <1>2 DEF Points, UartPoint, TtyPoint, DrivePoint, StartTty, EndUart, StopTty, Alone
<1>8. Lones'
  BY <1>5, <1>7 DEF Lones
<1>9. /\ \A s \in Ids : CleanSocat(s)' => CleanSocat(s)
      /\ \A l \in Ids : CleanLogger(l)' => CleanLogger(l)
  BY <1>1, <1>3 DEF CleanSocat, CleanLogger
<1>10. phase' \in {"ending", "ended"} => at'["main"] = "eu_check" \/ (phase' = phase /\ at'["main"] = at["main"])
  <2>1. CASE t = "main"
    BY <1>1, <1>2, <2>1 DEF Begins
  <2>2. CASE t # "main"
    BY <1>1, <2>2 DEF Begins, Thread
  <2> QED
    BY <2>1, <2>2
<1>11. ASSUME NEW s \in Ids, CleanSocat(s)'
       PROVE  KeptSocat(s)'
  <2>1. KeptSocat(s)
    BY <1>9, <1>11 DEF Owned, Held
  <2>2. SocatPoint(s, t)'
    BY <1>1, <1>2 DEF SocatPoint, StopTty
  <2>3. \A u \in Thread : SocatPoint(s, u)'
    BY <1>1, <1>3, <2>1, <2>2 DEF KeptSocat, SocatPoint
  <2>4. isUartPiped' \/ \E u \in Thread : at'[u] = "su_set" /\ serial'[u] = s
    BY <1>1, <1>3, <2>1 DEF KeptSocat, Busy
  <2> QED
    BY <1>3, <1>10, <2>1, <2>3, <2>4 DEF KeptSocat
<1>12. ASSUME NEW l \in Ids, CleanLogger(l)'
       PROVE  KeptLogger(l)'
  <2>1. KeptLogger(l)
    BY <1>9, <1>12 DEF Owned, Held
  <2>2. LoggerPoint(l, t)'
    BY <1>1, <1>2 DEF LoggerPoint, EndUart
  <2>3. \A u \in Thread : LoggerPoint(l, u)'
    BY <1>1, <1>3, <2>1, <2>2 DEF KeptLogger, LoggerPoint
  <2>4. isTtyLogging' \/ \E u \in Thread : at'[u] \in {"sl_start", "sl_set"} /\ serial'[u] = l
    BY <1>1, <1>3, <2>1 DEF KeptLogger, Busy
  <2> QED
    BY <1>3, <1>10, <2>1, <2>3, <2>4 DEF KeptLogger, EndUart
<1>13. NoListener' \/ NoLogger'
  BY <1>9 DEF Owned, Held, NoListener, NoLogger
<1> QED
  BY <1>4, <1>6, <1>8, <1>11, <1>12, <1>13 DEF Held

\* The shell gives the next number, the watchdog takes the oldest one, and the
\* end of a session has 0.
LEMMA BeginNumbered ==
    ASSUME Controlled, Numbered, NEW t \in Thread, NEW j, NEW p, NEW n, Begins(t, j, p, n),
           \/ t = "main" /\ n = 0 /\ UNCHANGED <<cmds, requests>>
           \/ t = "shell" /\ n = cmds + 1 /\ cmds < MaxCmds /\ cmds' = cmds + 1 /\ UNCHANGED requests
           \/ /\ t = "watchdog" /\ n \in requests /\ \A m \in requests : n <= m
              /\ UNCHANGED cmds /\ requests' = requests \ {n}
    PROVE  Numbered'
<1>1. /\ ~Busy(t)
      /\ at'[t] = (IF p = "stopTty" THEN "st_check" ELSE "eu_check")
      /\ proc'[t] = p /\ job'[t] = j /\ serial'[t] = n
      /\ \A u \in Thread : u # t =>
           /\ at'[u] = at[u] /\ proc'[u] = proc[u]
           /\ job'[u] = job[u] /\ serial'[u] = serial[u]
      /\ (\A u \in Thread : u # t => ~Busy(u)) => raced' = raced
      /\ \A m \in raced' : m \in raced \/ m = n \/ \E u \in Thread : Busy(u) /\ m = serial[u]
  BY BeginMoves
<1>2. /\ IF p = "stopTty" THEN j = "pipe" ELSE p = "endUart" /\ j \in {"unpipe", "reset", "finish"}
      /\ t = "main" => j = "finish"
      /\ t = "watchdog" => j = "reset"
      /\ UNCHANGED <<isTtyLogging, targetObj, ttyLogger, loggerStop>>
  BY DEF Begins, settings, devices, loggers, Thread
<1>3. /\ cmds \in Nat /\ targetObj \in Nat /\ requests \subseteq Nat
      /\ \A u \in Thread : serial[u] \in Nat
      /\ "main" \in Thread /\ "shell" \in Thread /\ "watchdog" \in Thread
  BY ConfigAssumption DEF Controlled, TypeOK, Ids, Thread
<1>4. n # 0 => ~loggerStop[n] /\ ttyLogger # n
  <2>1. n = 0 \/ (n \in Ids /\ (n = cmds + 1 \/ n \in requests))
    <3>1. requests \subseteq Ids
      BY DEF Controlled, TypeOK
    <3>2. cmds < MaxCmds => cmds + 1 \in Ids
      BY <1>3, ConfigAssumption DEF Ids
    <3> QED
      BY <3>1, <3>2
  <2>2. cmds + 1 > cmds
    BY <1>3
  <2> QED
    BY <2>1, <2>2 DEF Numbered, Unused
<1>5. Unused'
  <2>1. CASE t = "shell"
    <3>1. \A m \in Ids : m > cmds' => m > cmds
      BY <1>3, <2>1, ConfigAssumption DEF Ids
    <3> QED
      BY <1>2, <2>1, <3>1 DEF Numbered, Unused
  <2>2. CASE t # "shell"
    BY <1>2, <2>2 DEF Numbered, Unused
  <2> QED
    BY <2>1, <2>2
<1>6. Fresh(t)'
  <2>1. j \in {"pipe", "unpipe", "reset"} => n # 0
    BY <1>2, <1>3 DEF Begins, Numbered, Counted
  <2>2. j # "launch"
    BY <1>2
  <2> QED
    BY <1>1, <1>2, <1>4, <2>1, <2>2 DEF Fresh
<1>7. ASSUME NEW u \in Thread, u # t
      PROVE  Fresh(u)'
  BY <1>1, <1>2, <1>7 DEF Numbered, Fresh
<1>8. Counted'
  <2>1. CASE t = "main"
    <3>1. \A u \in Thread : u # t => ~Busy(u)
      BY <2>1 DEF Begins, Beside, Controlled, Turns
    <3>2. raced' = raced /\ \A u \in Thread : u # t => ~Busy(u)'
      BY <1>1, <3>1 DEF Busy
    <3> QED
      BY <1>1, <1>2, <1>3, <2>1, <3>2 DEF Numbered, Counted
  <2>2. CASE t = "shell"
    <3>1. ~Busy("main") /\ ~Busy("main")'
      BY <1>1, <1>3, <2>2 DEF Begins, Controlled, Turns, Busy
    <3>2. 0 \notin raced'
      <4>1. \A u \in Thread : Busy(u) => u = "watchdog"
        BY <1>1, <2>2, <3>1 DEF Thread
      <4>2. Busy("watchdog") => serial["watchdog"] # 0
        BY <1>3 DEF Numbered, Counted
      <4>3. n # 0
        BY <1>3, <2>2
      <4> QED
        BY <1>1, <4>1, <4>2, <4>3 DEF Numbered, Counted
    <3>3. /\ cmds' = cmds + 1 /\ requests' = requests /\ targetObj' = targetObj
          /\ serial'["shell"] = cmds + 1
      BY <1>1, <1>2, <2>2
    <3>4. /\ targetObj' <= cmds' /\ targetObj' < cmds'
          /\ \A m \in requests' : targetObj' < m /\ m <= cmds'
          /\ cmds' \notin requests'
      BY <1>3, <3>3 DEF Numbered, Counted
    <3>5. /\ Busy("watchdog")' <=> Busy("watchdog")
          /\ serial'["watchdog"] = serial["watchdog"] /\ proc'["watchdog"] = proc["watchdog"]
      BY <1>1, <1>3, <2>2 DEF Busy
    <3>6. Busy("watchdog")' =>
             /\ 0 < serial["watchdog"] /\ serial["watchdog"] <= cmds' /\ serial["watchdog"] < cmds'
             /\ \A m \in requests' : serial["watchdog"] < m
             /\ IF proc["watchdog"] \in {"endUart", "stopTty", "tearDown", "renew"}
                THEN targetObj < serial["watchdog"]
                ELSE targetObj = serial["watchdog"]
      <4>1. serial["watchdog"] <= cmds => serial["watchdog"] <= cmds + 1 /\ serial["watchdog"] < cmds + 1
        BY <1>3
      <4> QED
        BY <3>3, <3>5, <4>1 DEF Numbered, Counted
    <3> QED
      BY <3>1, <3>2, <3>3, <3>4, <3>5, <3>6 DEF Counted
  <2>3. CASE t = "watchdog"
    <3>1. ~Busy("main") /\ ~Busy("main")'
      BY <1>1, <1>3, <2>3 DEF Begins, Controlled, Turns, Busy
    <3>2. /\ n \in requests /\ \A m \in requests : n <= m
          /\ UNCHANGED <<cmds, targetObj>> /\ requests' = requests \ {n}
          /\ targetObj < n /\ n <= cmds
      BY <1>2, <2>3 DEF Numbered, Counted
    <3>3. n \in Nat /\ n # 0 /\ 0 < n
      BY <1>3, <3>2
    <3>4. Busy("shell") => serial["shell"] = cmds /\ targetObj < cmds /\ cmds \notin requests /\ n < cmds
      BY <1>3, <3>2, <3>3 DEF Numbered, Counted
    <3>5. 0 \notin raced'
      <4>1. \A u \in Thread : Busy(u) => u = "shell"
        BY <1>1, <2>3, <3>1 DEF Thread
      <4>2. Busy("shell") => serial["shell"] # 0
        BY <1>3, <3>4
      <4> QED
        BY <1>1, <3>3, <4>1, <4>2 DEF Numbered, Counted
    <3>6. /\ Busy("shell")' <=> Busy("shell")
          /\ serial'["shell"] = serial["shell"] /\ serial'["watchdog"] = n /\ proc'["watchdog"] = p
      BY <1>1, <1>3, <2>3 DEF Busy
    <3>8. \A m \in requests' : n < m /\ targetObj < m /\ m <= cmds
      BY <1>3, <3>2, <3>3 DEF Numbered, Counted
    <3>9. p = "endUart"
      BY <1>2, <2>3
    <3> QED
      BY <3>1, <3>2, <3>3, <3>4, <3>5, <3>6, <3>8, <3>9 DEF Numbered, Counted
  <2> QED
    BY <2>1, <2>2, <2>3
<1> QED
  BY <1>5, <1>6, <1>7, <1>8 DEF Numbered

------------------------------------------------------------------------------
(* The other steps                                                         *)

\* A step that begins no job: only the phase, the numbers given, a logger's
\* state, a process or a client changes.
LEMMA QuietOwned ==
    ASSUME Owned, TypeOK', UNCHANGED <<raced, threads, settings, loggerOf, loggerStop>>,
           UNCHANGED <<uartSocatProc, socatState, socatOf>>,
           \/ phase' = phase
           \/ phase' = "shell" /\ phase = "launch" /\ ~Busy("main")
           \/ phase' = "closing" /\ phase = "shell" /\ ~Busy("shell")
           \/ phase' = "ended" /\ phase = "ending" /\ ~Busy("main"),
           \A l \in Ids : loggerState'[l] \in Live => loggerState[l] \in Live,
           \A g \in Ids : tty[g] # "none" => tty'[g] # "none",
           \/ UNCHANGED <<cmds, requests>>
           \/ /\ cmds' = cmds + 1 /\ requests' = requests \cup {cmds + 1}
              /\ ~Busy("shell")
    PROVE  Owned'
<1>1. /\ UNCHANGED <<raced, job, proc, at, serial, tgt, vic, log>>
      /\ UNCHANGED <<isUartPiped, isTtyLogging, targetObj, ttyLogger>>
  BY DEF threads, settings
<1>2. Controlled'
  <2>1. \A t \in Thread : Flow(t)'
    BY <1>1 DEF Owned, Controlled, Flow
  <2>2. \A t \in Thread : Planned(t)'
    <3>1. Busy("main")' => phase' = phase
      BY <1>1 DEF Owned, Controlled, Turns, Busy
    <3> QED
      BY <1>1, <3>1 DEF Owned, Controlled, Planned, Busy
  <2>3. Turns'
    BY <1>1 DEF Owned, Controlled, Turns, Busy
  <2> QED
    BY <2>1, <2>2, <2>3 DEF Controlled
<1>3. Numbered'
  <2>1. CASE UNCHANGED <<cmds, requests>>
    BY <1>1, <2>1 DEF Owned, Numbered, Counted, Unused, Fresh, Busy
  <2>2. CASE cmds' = cmds + 1 /\ requests' = requests \cup {cmds + 1} /\ ~Busy("shell")
    <3>1. /\ cmds \in Nat /\ targetObj \in Nat /\ requests \subseteq Nat
          /\ \A u \in Thread : serial[u] \in Nat
          /\ "watchdog" \in Thread
      BY ConfigAssumption DEF Owned, Controlled, TypeOK, Ids, Thread
    <3>2. \A m \in Nat : /\ m > cmds + 1 => m > cmds
                         /\ m <= cmds => m <= cmds + 1 /\ m < cmds + 1
      BY <3>1
    <3>3. cmds + 1 > cmds /\ cmds + 1 <= cmds + 1
      BY <3>1
    <3>4. /\ targetObj <= cmds + 1
          /\ \A m \in requests' : targetObj < m /\ m <= cmds + 1
      BY <2>2, <3>1, <3>2, <3>3 DEF Owned, Numbered, Counted
    <3>5. Busy("watchdog") =>
             /\ serial["watchdog"] <= cmds + 1
             /\ \A m \in requests' : serial["watchdog"] < m
      BY <2>2, <3>1, <3>2, <3>3 DEF Owned, Numbered, Counted
    <3>6. Counted'
      BY <1>1, <2>2, <3>4, <3>5 DEF Owned, Numbered, Counted, Busy
    <3>7. \A m \in Ids : m \in Nat
      BY ConfigAssumption DEF Ids
    <3>8. Unused'
      BY <1>1, <2>2, <3>2, <3>3, <3>7 DEF Owned, Numbered, Unused
    <3>9. \A t \in Thread : Fresh(t)'
      BY <1>1 DEF Owned, Numbered, Fresh
    <3> QED
      BY <3>6, <3>8, <3>9 DEF Numbered
  <2> QED
    BY <2>1, <2>2
<1>4. Booted' /\ Solo'
  <2>1. targetObj \in Ids
    BY DEF Owned, Controlled, TypeOK
  <2> QED
    BY <1>1, <2>1 DEF Owned, Booted, Solo, Lone, Busy
<1>5. /\ \A s \in Ids : CleanSocat(s)' <=> CleanSocat(s)
      /\ \A l \in Ids : CleanLogger(l)' => CleanLogger(l)
  BY <1>1 DEF CleanSocat, CleanLogger
<1>6. Lones'
  <2>1. (NoListener => NoListener') /\ (NoLogger => NoLogger')
    BY <1>5 DEF NoListener, NoLogger
  <2> QED
    BY <1>1, <2>1 DEF Owned, Lones, Lone, Busy, Points, UartPoint, TtyPoint, DrivePoint
<1>7. Held'
  <2>1. phase' \in {"ending", "ended"} => phase \in {"ending", "ended"}
    OBVIOUS
  <2>2. \A s \in Ids : CleanSocat(s)' => KeptSocat(s)'
    BY <1>1, <1>5, <2>1 DEF Owned, Held, KeptSocat, SocatPoint
  <2>3. \A l \in Ids : CleanLogger(l)' => KeptLogger(l)'
    BY <1>1, <1>5, <2>1 DEF Owned, Held, KeptLogger, LoggerPoint
  <2>4. NoListener' \/ NoLogger'
    BY <1>5 DEF Owned, Held, NoListener, NoLogger
  <2> QED
    BY <2>2, <2>3, <2>4 DEF Held
<1> QED
  BY <1>2, <1>3, <1>4, <1>6, <1>7 DEF Owned

\* The whole of it, for the begin of a job.
LEMMA BeginOwned ==
    ASSUME Owned, TypeOK', NEW t \in Thread, NEW j, NEW p, NEW n, Begins(t, j, p, n),
           \/ t = "main" /\ n = 0 /\ UNCHANGED <<cmds, requests>>
           \/ t = "shell" /\ n = cmds + 1 /\ cmds < MaxCmds /\ cmds' = cmds + 1 /\ UNCHANGED requests
           \/ /\ t = "watchdog" /\ n \in requests /\ \A m \in requests : n <= m
              /\ UNCHANGED cmds /\ requests' = requests \ {n}
    PROVE  Owned'
BY BeginControl, BeginNumbered, BeginSafe DEF Owned

\* The three callers of Begin.
LEMMA JobBegins ==
    ASSUME Controlled
    PROVE  /\ EndCyberPhys => Begins("main", "finish", "endUart", 0) /\ UNCHANGED <<cmds, requests>>
           /\ DoPipeStart => /\ Begins("shell", "pipe", "stopTty", cmds + 1)
                             /\ cmds < MaxCmds /\ cmds' = cmds + 1 /\ UNCHANGED requests
           /\ DoPipeStop => /\ Begins("shell", "unpipe", "endUart", cmds + 1)
                            /\ cmds < MaxCmds /\ cmds' = cmds + 1 /\ UNCHANGED requests
           /\ ResetTarget => \E n \in requests :
                /\ Begins("watchdog", "reset", "endUart", n)
                /\ \A m \in requests : n <= m
                /\ UNCHANGED cmds /\ requests' = requests \ {n}
<1>1. EndCyberPhys => Begins("main", "finish", "endUart", 0) /\ UNCHANGED <<cmds, requests>>
  <2> SUFFICES ASSUME EndCyberPhys
               PROVE  Begins("main", "finish", "endUart", 0) /\ UNCHANGED <<cmds, requests>>
    OBVIOUS
  <2>1. job["watchdog"] = "none" /\ phase = "closing"
    BY DEF EndCyberPhys
  <2>2. Beside("main") = {}
    BY <2>1 DEF Beside, Controlled, Turns, Thread
  <2> QED
    BY <2>1, <2>2 DEF EndCyberPhys, Begins
<1>2. DoPipeStart => /\ Begins("shell", "pipe", "stopTty", cmds + 1)
                     /\ cmds < MaxCmds /\ cmds' = cmds + 1 /\ UNCHANGED requests
  BY DEF DoPipeStart, Prompt, Begins
<1>3. DoPipeStop => /\ Begins("shell", "unpipe", "endUart", cmds + 1)
                    /\ cmds < MaxCmds /\ cmds' = cmds + 1 /\ UNCHANGED requests
  BY DEF DoPipeStop, Prompt, Begins
<1>4. ResetTarget => \E n \in requests :
                /\ Begins("watchdog", "reset", "endUart", n)
                /\ \A m \in requests : n <= m
                /\ UNCHANGED cmds /\ requests' = requests \ {n}
  BY DEF ResetTarget, Begins
<1> QED
  BY <1>1, <1>2, <1>3, <1>4

\* The whole of it, for the steps outside the jobs.
LEMMA OwnedRest ==
    ASSUME Owned,
           \/ MainStep \/ DoPipeStart \/ DoPipeStop \/ DoRestart \/ DoExit
           \/ ResetTarget
           \/ \E l \in Ids : LogStep(l)
           \/ \E g \in Ids : ProcessDies(g)
           \/ \E s \in Ids : ClientConnects(s) \/ ClientLeaves(s)
    PROVE  Owned'
<1>1. Controlled /\ TypeOK /\ TypeOK'
  BY RestType DEF Owned, Controlled
<1>2. "main" \in Thread /\ "shell" \in Thread /\ "watchdog" \in Thread
  BY DEF Thread
<1>3. CASE OpenShell \/ Ended \/ DoExit \/ DoRestart
  <2>1. /\ UNCHANGED <<raced, threads, settings, devices>>
        /\ \/ UNCHANGED <<cmds, requests>>
           \/ cmds' = cmds + 1 /\ requests' = requests \cup {cmds + 1} /\ job["shell"] = "none"
        /\ \/ phase' = phase
           \/ phase' = "shell" /\ phase = "launch" /\ job["main"] = "none"
           \/ phase' = "closing" /\ phase = "shell" /\ job["shell"] = "none"
           \/ phase' = "ended" /\ phase = "ending" /\ job["main"] = "none"
    BY <1>3 DEF OpenShell, Ended, DoExit, DoRestart, Prompt
  <2>2. \A t \in Thread : job[t] = "none" => ~Busy(t)
    BY <1>1 DEF Controlled, Turns
  <2>3. UNCHANGED <<tty, loggerState, loggerOf, loggerStop, uartSocatProc, socatState, socatOf>>
    BY <2>1 DEF devices, loggers, socats
  <2> QED
    BY <1>1, <1>2, <2>1, <2>2, <2>3, QuietOwned
<1>4. CASE EndCyberPhys \/ DoPipeStart \/ DoPipeStop
  BY <1>1, <1>2, <1>4, JobBegins, BeginOwned
<1>5. CASE ResetTarget
  <2>1. PICK n \in requests : /\ Begins("watchdog", "reset", "endUart", n)
                              /\ \A m \in requests : n <= m
                              /\ UNCHANGED cmds /\ requests' = requests \ {n}
    BY <1>1, <1>5, JobBegins
  <2> QED
    BY <1>1, <1>2, <2>1, BeginOwned
<1>6. CASE \E l \in Ids : LogStep(l)
  <2>1. PICK l \in Ids, state \in {"check", "read", "finished"} :
            loggerState[l] \in Live /\ LoggerGoes(l, state)
    BY <1>6 DEF LogStep, LoggerCheck, LoggerRead, LoggerFails, Live
  <2>2. /\ UNCHANGED <<phase, cmds, requests, raced, threads, settings, tty, loggerOf, loggerStop>>
        /\ UNCHANGED <<uartSocatProc, socatState, socatOf>>
        /\ loggerState' = [loggerState EXCEPT ![l] = state]
    BY <2>1 DEF LoggerGoes, user, socats
  <2>3. \A k \in Ids : loggerState'[k] \in Live => loggerState[k] \in Live
    BY <1>1, <2>1, <2>2 DEF TypeOK
  <2> QED
    BY <1>1, <2>2, <2>3, QuietOwned
<1>7. CASE \E g \in Ids : \/ ProcessDies(g) \/ ClientConnects(g) \/ ClientLeaves(g)
  <2>1. PICK g \in Ids : tty' = [tty EXCEPT ![g] = "dead"] \/ tty' = tty
    BY <1>7 DEF ProcessDies, ClientConnects, ClientLeaves
  <2>2. /\ UNCHANGED <<phase, cmds, requests, raced, threads, settings>>
        /\ UNCHANGED <<loggerState, loggerOf, loggerStop, uartSocatProc, socatState, socatOf>>
    BY <1>7 DEF ProcessDies, ClientConnects, ClientLeaves, user, loggers, socats
  <2>3. \A i \in Ids : tty[i] # "none" => tty'[i] # "none"
    BY <1>1, <2>1 DEF TypeOK
  <2> QED
    BY <1>1, <2>2, <2>3, QuietOwned
<1> QED
  BY <1>3, <1>4, <1>5, <1>6, <1>7 DEF MainStep

\* The first inductive invariant.
LEMMA OwnedInvariant == Spec => []Owned
<1>1. Init => Owned
  <2> SUFFICES ASSUME Init
               PROVE  Owned
    OBVIOUS
  <2>1. TypeOK /\ "main" \in Thread /\ 0 \in Ids
    BY InitType, ConfigAssumption DEF Thread, Ids
  <2>2. /\ Entry(Handover) = IF PipeTheUart THEN "su_check" ELSE "sl_check"
        /\ Handover = IF PipeTheUart THEN "startUart" ELSE "startTty"
    BY DEF Handover, Entry
  <2>3. /\ at["main"] \in {"su_check", "sl_check"}
        /\ proc["main"] = IF at["main"] = "su_check" THEN "startUart" ELSE "startTty"
        /\ job["main"] = "launch" /\ phase = "launch"
        /\ \A t \in Thread : t # "main" => at[t] = "idle" /\ job[t] = "none" /\ proc[t] = "done"
        /\ \A t \in Thread : serial[t] = 0
    BY <2>1, <2>2 DEF Init
  <2>4. Controlled
    <3>1. \A t \in Thread : Flow(t) /\ Planned(t)
      BY <2>1, <2>3 DEF Flow, Planned, Busy, StartUart, StartTty, EndUart, StopTty, Alone, Thread
    <3>2. Turns
      BY <2>1, <2>3 DEF Turns, Busy, Thread
    <3> QED
      BY <2>1, <3>1, <3>2 DEF Controlled
  <2>5. Numbered
    <3>1. Counted
      BY <2>1, <2>3 DEF Init, Counted, Busy, Thread
    <3>2. Unused
      <4>1. \A n \in Ids : n > 0 => n # 0
        BY ConfigAssumption DEF Ids
      <4> QED
        BY <4>1 DEF Init, Unused
    <3>3. \A t \in Thread : Fresh(t)
      BY <2>1, <2>3 DEF Init, Fresh, StopTty
    <3> QED
      BY <3>1, <3>2, <3>3 DEF Numbered
  <2>6. Booted /\ Solo
    BY <2>1, <2>3 DEF Init, Booted, Solo, Lone, Busy
  <2>7. Lones
    BY <2>1, <2>3 DEF Init, Lones, Points, UartPoint, TtyPoint, DrivePoint, StartTty, EndUart, StopTty, Alone
  <2>8. Held
    BY DEF Init, Held, NoListener, NoLogger, CleanSocat, CleanLogger, Live
  <2> QED
    BY <2>4, <2>5, <2>6, <2>7, <2>8 DEF Owned
<1>2. Owned /\ [Next]_vars => Owned'
  <2>1. ASSUME Owned, UNCHANGED vars
        PROVE  Owned'
    <3>1. /\ UNCHANGED <<phase, cmds, requests, raced, threads, settings>>
          /\ UNCHANGED <<tty, loggerState, loggerOf, loggerStop, uartSocatProc, socatState, socatOf>>
      BY <2>1 DEF vars, user, devices, loggers, socats
    <3>2. TypeOK'
      BY <2>1 DEF Owned, Controlled, vars, user, threads, settings, loggers, socats, devices, TypeOK
    <3> QED
      BY <2>1, <3>1, <3>2, QuietOwned
  <2>2. ASSUME Owned, Act
        PROVE  Owned'
    BY <2>2, OwnedStep, OwnedRest DEF Act
  <2> QED
    BY <2>1, <2>2 DEF Next, Stopped
<1> QED
  BY <1>1, <1>2, PTL DEF Spec

\* Two loggers, two listeners or a logger and a listener of jobs that ran
\* alone never hold one terminal, whatever other jobs race for the settings:
\* startUartPiping and startTtyLogging stop the other owner first, and nobody
\* gets past their checks while such an owner is there.
THEOREM HandedOverOnceCorrect == Spec => []HandedOverOnce
<1>1. Owned => HandedOverOnce
  <2> SUFFICES ASSUME Owned, NEW g \in Ids
               PROVE  LET loggersOf == LiveLoggers(g) \ raced
                          socatsOf  == LiveSocats(g) \ raced IN
                      /\ loggersOf = {} \/ socatsOf = {}
                      /\ \A l, m \in loggersOf : l = m
                      /\ \A r, s \in socatsOf : r = s
    BY DEF HandedOverOnce
  <2>1. \A l \in LiveLoggers(g) \ raced : l \in Ids /\ CleanLogger(l) /\ ttyLogger = l
    BY DEF LiveLoggers, CleanLogger, Live, Owned, Held, KeptLogger
  <2>2. \A s \in LiveSocats(g) \ raced : s \in Ids /\ CleanSocat(s) /\ uartSocatProc[targetObj] = s
    BY DEF LiveSocats, CleanSocat, Owned, Held, KeptSocat
  <2>3. (LiveLoggers(g) \ raced = {}) \/ (LiveSocats(g) \ raced = {})
    BY <2>1, <2>2 DEF Owned, Held, NoListener, NoLogger
  <2> QED
    BY <2>1, <2>2, <2>3
<1> QED
  BY <1>1, OwnedInvariant, PTL

\* resetTarget and endCyberPhys tear down, boot and shut down a target only
\* when neither a logger nor a listener holds its terminal, but for one of a
\* job that ran beside another.
THEOREM DrivesAloneCorrect == Spec => []DrivesAlone
<1>1. Owned => DrivesAlone
  <2> SUFFICES ASSUME Owned, NEW t \in Thread, at[t] \in {"tearDown", "boot", "shutdown"}
               PROVE  LiveLoggers(targetObj) \cup LiveSocats(targetObj) \subseteq raced
    BY DEF DrivesAlone
  <2>1. job[t] \in {"reset", "finish"}
    BY DEF Owned, Controlled, Flow, Planned, Busy, Alone
  <2>2. NoListener
    BY <2>1 DEF NoListener, Owned, Held, KeptSocat, SocatPoint
  <2>3. NoLogger
    BY <2>1 DEF NoLogger, Owned, Held, KeptLogger, LoggerPoint, EndUart
  <2> QED
    BY <2>2, <2>3 DEF NoListener, NoLogger, CleanSocat, CleanLogger, LiveLoggers, LiveSocats, Live
<1> QED
  BY <1>1, OwnedInvariant, PTL

------------------------------------------------------------------------------
(* The settings tell the truth                                             *)

\* The jobs that raced are older than the last reset.
Healed == \A n \in raced : n < targetObj

\* Between two jobs one setting is on; after the end of the session none is.
Decided ==
    (\A t \in Thread : at[t] \in {"idle", "commands"}) =>
        IF phase \in {"ending", "ended"} THEN ~isUartPiped /\ ~isTtyLogging
        ELSE isUartPiped # isTtyLogging

\* The listener stored in the current target listens on it ...
ListenerUp == /\ uartSocatProc[targetObj] \in Ids
              /\ socatState[uartSocatProc[targetObj]] = "listening"
              /\ socatOf[uartSocatProc[targetObj]] = targetObj
Listens ==
    (isUartPiped \/ \E t \in Thread : at[t] = "su_set")
        /\ (\A t \in Thread : at[t] # "eu_clear") => ListenerUp

\* ... and the stored logger drains it, until it is told to stop or the
\* process dies.
LoggerUp == /\ ~loggerStop[ttyLogger]
            /\ loggerState[ttyLogger] \in Live \/ tty[targetObj] = "dead"
Drains ==
    (isTtyLogging \/ \E t \in Thread : at[t] \in {"sl_start", "sl_set"}) =>
        /\ loggerOf[ttyLogger] = targetObj
        /\ (\A t \in Thread : at[t] \notin {"st_wait", "st_clear"}) => LoggerUp

Told == Healed => Decided /\ Listens /\ Drains /\ ~(isUartPiped /\ isTtyLogging)

PipingInductive == Owned /\ Told /\ PipingExitsInRacesOnly

\* The same when only t can be inside a job.
DecidedBy(t) ==
    at[t] \in {"idle", "commands"} =>
        IF phase \in {"ending", "ended"} THEN ~isUartPiped /\ ~isTtyLogging
        ELSE isUartPiped # isTtyLogging
ListensBy(t) == (isUartPiped \/ at[t] = "su_set") /\ at[t] # "eu_clear" => ListenerUp
DrainsBy(t)  ==
    isTtyLogging \/ at[t] \in {"sl_start", "sl_set"} =>
        /\ loggerOf[ttyLogger] = targetObj
        /\ at[t] \notin {"st_wait", "st_clear"} => LoggerUp
ToldBy(t) == /\ DecidedBy(t) /\ ListensBy(t) /\ DrainsBy(t)
             /\ ~(isUartPiped /\ isTtyLogging)

\* Then every job under way runs alone.
LEMMA HealedLone ==
    ASSUME Owned, Healed, NEW t \in Thread, Busy(t)
    PROVE  Lone(t) /\ \A u \in Thread : u # t => at[u] = "idle"
<1>1. /\ targetObj \in Nat /\ serial[t] \in Nat /\ cmds \in Nat
  BY ConfigAssumption DEF Owned, Controlled, TypeOK, Ids
<1>2. serial[t] = 0 \/ targetObj <= serial[t]
  BY <1>1 DEF Owned, Numbered, Counted, Thread
<1>3. serial[t] \notin raced
  BY <1>1, <1>2 DEF Healed, Owned, Numbered, Counted
<1> QED
  BY <1>3 DEF Lone, Owned, Solo, Busy

\* With one job under way it is enough to look at that job.
LEMMA ToldOne ==
    ASSUME NEW t \in Thread, \A u \in Thread : u # t => at[u] = "idle"
    PROVE  (Decided /\ Listens /\ Drains /\ ~(isUartPiped /\ isTtyLogging)) <=> ToldBy(t)
<1>1. Decided <=> DecidedBy(t)
  <2>1. (\A u \in Thread : at[u] \in {"idle", "commands"}) <=> at[t] \in {"idle", "commands"}
    OBVIOUS
  <2> QED
    BY <2>1 DEF Decided, DecidedBy
<1>2. Listens <=> ListensBy(t)
  <2>1. /\ (\E u \in Thread : at[u] = "su_set") <=> at[t] = "su_set"
        /\ (\A u \in Thread : at[u] # "eu_clear") <=> at[t] # "eu_clear"
    OBVIOUS
  <2> QED
    BY <2>1 DEF Listens, ListensBy
<1>3. Drains <=> DrainsBy(t)
  <2>1. /\ (\E u \in Thread : at[u] \in {"sl_start", "sl_set"}) <=> at[t] \in {"sl_start", "sl_set"}
        /\ (\A u \in Thread : at[u] \notin {"st_wait", "st_clear"}) <=> at[t] \notin {"st_wait", "st_clear"}
    OBVIOUS
  <2> QED
    BY <2>1 DEF Drains, DrainsBy
<1> QED
  BY <1>1, <1>2, <1>3 DEF ToldBy

\* No setting, device or control changes.
LEMMA ToldTransfers ==
    ASSUME NEW t \in Thread, \A u \in Thread : u # t => at'[u] = "idle", ToldBy(t)'
    PROVE  Told'
BY DEF Told, ToldBy, Decided, DecidedBy, Listens, ListensBy, Drains, DrainsBy

\* A step that changes no setting and no device.
LEMMA QuietTold ==
    ASSUME NEW t \in Thread, ToldBy(t), Still, UNCHANGED phase, DecidedBy(t)',
           at[t] \notin {"eu_clear", "st_wait", "st_clear"},
           at'[t] \notin {"su_set", "sl_start", "sl_set"}
    PROVE  ToldBy(t)'
BY DEF ToldBy, ListensBy, ListenerUp, DrainsBy, LoggerUp, Still, Flags, Logging, Piping

\* A job that is alone keeps the settings truthful.
LEMMA ToldByStep ==
    ASSUME Owned, NEW t \in Thread, Step(t), ~Renew(t), Lone(t), ToldBy(t)
    PROVE  ToldBy(t)'
<1>1. /\ Controlled /\ TypeOK /\ Points(t) /\ Busy(t) /\ Fresh(t)
      /\ UNCHANGED phase
      /\ serial[t] \in Ids /\ targetObj \in Ids
  BY SoloStep, Frame DEF Owned, Lones, Controlled, Numbered, TypeOK
<1>2. job[t] # "finish" => phase \notin {"ending", "ended"}
  BY <1>1, LonePhase
<1>3. at[t] # "spawn" => tty[targetObj] # "none"
  <2>1. t = "watchdog" \/ at["watchdog"] = "idle"
    BY DEF Owned, Solo, Busy, Thread
  <2> QED
    BY <2>1 DEF Owned, Booted
<1> USE DEF StartUart, StartTty, EndUart, StopTty, Alone, Still, Flags, Logging, Piping,
            FromEnd, FromStop, FromStart
<1>4. ASSUME NEW why, Exit(why)
      PROVE  ToldBy(t)'
  BY <1>4 DEF Exit, user, threads, settings, devices, loggers, socats, ToldBy, DecidedBy, ListensBy,
     ListenerUp, DrainsBy, LoggerUp
<1>5. CASE StartUartCheck(t) \/ StartUartLogging(t)
  <2>1. /\ at[t] \in {"su_check", "su_logging"} /\ job[t] # "finish" /\ Still
        /\ \/ at'[t] \in {"su_logging", "su_popen", "st_check"}
           \/ isUartPiped /\ at'[t] \in {"commands", "idle"}
    BY <1>1, <1>5, UartMoves
  <2>2. DecidedBy(t)'
    BY <1>1, <1>2, <2>1 DEF ToldBy, DecidedBy
  <2> QED
    BY <1>1, <2>1, <2>2, QuietTold
<1>6. CASE StartUartPopen(t)
  <2>1. CASE Exit("piping")
    BY <1>4, <2>1
  <2>2. CASE ~Exit("piping")
    <3>1. /\ at[t] = "su_popen" /\ at'[t] = "su_set"
          /\ socatState' = [socatState EXCEPT ![serial[t]] = "listening"]
          /\ socatOf' = [socatOf EXCEPT ![serial[t]] = tgt[t]]
          /\ uartSocatProc' = [uartSocatProc EXCEPT ![tgt[t]] = serial[t]]
          /\ UNCHANGED <<Flags, Logging, tty>>
      BY <1>1, <1>6, <2>2, UartMoves
    <3>2. tgt[t] = targetObj /\ ~isTtyLogging /\ ~isUartPiped
      BY <1>1, <3>1 DEF Points, UartPoint
    <3>3. ListenerUp'
      BY <1>1, <3>1, <3>2 DEF TypeOK, ListenerUp
    <3> QED
      BY <3>1, <3>2, <3>3 DEF ToldBy, DecidedBy, ListensBy, DrainsBy
  <2> QED
    BY <2>1, <2>2
<1>7. CASE StartUartSet(t)
  <2>1. ~isTtyLogging
    BY <1>1, <1>7, UartMoves DEF Points, UartPoint
  <2> QED
    <3>1. /\ at[t] = "su_set" /\ at'[t] \in {"commands", "idle"} /\ job[t] # "finish"
          /\ isUartPiped' /\ UNCHANGED <<isTtyLogging, targetObj, Piping>>
      BY <1>1, <1>7, UartMoves
    <3>2. ListenerUp'
      BY <3>1 DEF ToldBy, ListensBy, ListenerUp
    <3> QED
      BY <1>1, <1>2, <2>1, <3>1, <3>2 DEF ToldBy, DecidedBy, ListensBy, DrainsBy
<1>8. CASE EndUartCheck(t)
  BY <1>1, <1>8, EndMoves DEF ToldBy, DecidedBy, ListensBy, ListenerUp, DrainsBy, LoggerUp
<1>9. CASE EndUartKill(t)
  BY <1>1, <1>9, EndMoves DEF ToldBy, DecidedBy, ListensBy, DrainsBy, LoggerUp
<1>10. CASE EndUartClear(t)
  BY <1>1, <1>10, EndMoves DEF ToldBy, DecidedBy, ListensBy, DrainsBy, LoggerUp
<1>11. CASE StartTtyCheck(t) \/ StartTtyPiped(t)
  <2>1. /\ at[t] \in {"sl_check", "sl_piped"} /\ job[t] # "finish" /\ Still
        /\ \/ at'[t] \in {"sl_piped", "eu_check", "sl_create"}
           \/ isTtyLogging /\ at'[t] \in {"commands", "idle"}
    BY <1>1, <1>11, TtyMoves
  <2>2. DecidedBy(t)'
    BY <1>1, <1>2, <2>1 DEF ToldBy, DecidedBy
  <2> QED
    BY <1>1, <2>1, <2>2, QuietTold
<1>12. CASE StartTtyCreate(t)
  <2>1. /\ at[t] = "sl_create" /\ at'[t] = "sl_start" /\ ttyLogger' = serial[t]
        /\ proc[t] = "startTty" /\ job[t] # "finish"
        /\ loggerState' = [loggerState EXCEPT ![serial[t]] = "new"]
        /\ loggerOf' = [loggerOf EXCEPT ![serial[t]] =
                            IF tty[tgt[t]] = "none" THEN None ELSE tgt[t]]
        /\ UNCHANGED <<Flags, Piping, loggerStop, tty>>
    BY <1>1, <1>12, TtyMoves
  <2>2. tgt[t] = targetObj /\ ~isTtyLogging /\ ~isUartPiped /\ tty[targetObj] # "none"
    BY <1>1, <1>3, <2>1 DEF Points, TtyPoint
  <2>3. ~loggerStop[serial[t]]
    <3>1. job[t] \in {"launch", "pipe", "unpipe", "reset"}
      BY <1>1, <2>1 DEF Controlled, Planned, Thread
    <3> QED
      BY <1>1, <2>1, <3>1 DEF Fresh
  <2>4. loggerOf'[ttyLogger'] = targetObj /\ LoggerUp'
    BY <1>1, <2>1, <2>2, <2>3 DEF TypeOK, LoggerUp, Live
  <2> QED
    BY <2>1, <2>2, <2>4 DEF ToldBy, DecidedBy, ListensBy, DrainsBy
<1>13. CASE StartTtyStart(t)
  <2>1. /\ at[t] = "sl_start" /\ at'[t] = "sl_set"
        /\ loggerState' = [loggerState EXCEPT ![serial[t]] = "check"]
        /\ UNCHANGED <<Flags, Piping, ttyLogger, loggerOf, loggerStop, tty>>
    BY <1>1, <1>13, TtyMoves
  <2>2. ttyLogger = serial[t] /\ ~isUartPiped
    BY <1>1, <2>1 DEF Points, TtyPoint
  <2>3. LoggerUp'
    BY <1>1, <2>1, <2>2 DEF ToldBy, DrainsBy, LoggerUp, TypeOK, Live
  <2> QED
    BY <2>1, <2>2, <2>3 DEF ToldBy, DecidedBy, ListensBy, DrainsBy
<1>14. CASE StartTtySet(t)
  <2>1. ~isUartPiped
    BY <1>1, <1>14, TtyMoves DEF Points, TtyPoint
  <2> QED
    <3>1. /\ at[t] = "sl_set" /\ at'[t] \in {"commands", "idle"} /\ job[t] # "finish"
          /\ isTtyLogging' /\ UNCHANGED <<isUartPiped, targetObj, Logging, tty>>
      BY <1>1, <1>14, TtyMoves
    <3>2. loggerOf'[ttyLogger'] = targetObj' /\ LoggerUp'
      BY <1>1, <3>1 DEF ToldBy, DrainsBy, LoggerUp
    <3> QED
      BY <1>1, <1>2, <2>1, <3>1, <3>2 DEF ToldBy, DecidedBy, ListensBy, DrainsBy
<1>15. CASE StopTtyCheck(t)
  BY <1>1, <1>15, StopMoves DEF ToldBy, DecidedBy, ListensBy, ListenerUp, DrainsBy, LoggerUp
<1>16. CASE StopTtyStop(t) \/ StopTtyWait(t)
  BY <1>1, <1>16, StopMoves DEF ToldBy, DecidedBy, ListensBy, ListenerUp, DrainsBy
<1>17. CASE StopTtyClear(t)
  BY <1>1, <1>17, StopMoves DEF ToldBy, DecidedBy, ListensBy, ListenerUp, DrainsBy
<1>18. CASE TearDown(t) \/ Spawn(t)
  <2>1. at[t] \in Alone => ~isUartPiped /\ ~isTtyLogging
    BY <1>1 DEF Points, DrivePoint
  <2> QED
    BY <1>1, <1>4, <1>18, <2>1, ResetMoves DEF ToldBy, DecidedBy, ListensBy, DrainsBy
<1>19. CASE \E p \in {"boot", "commands", "shutdown"} : Drive(t, p)
  <2>1. at[t] \in Alone => ~isUartPiped /\ ~isTtyLogging
    BY <1>1 DEF Points, DrivePoint
  <2>2. job[t] = "finish" => phase \in {"ending", "ended"}
    BY <1>1 DEF Controlled, Planned, Turns, Thread
  <2> QED
    BY <1>1, <1>2, <1>4, <1>19, <2>1, <2>2, ResetMoves DEF ToldBy, DecidedBy, ListensBy,
       ListenerUp, DrainsBy, LoggerUp
<1> QED
  BY <1>5, <1>6, <1>7, <1>8, <1>9, <1>10, <1>11, <1>12, <1>13, <1>14, <1>15, <1>16, <1>17, <1>18, <1>19 DEF Step

\* The settings stay truthful in a step inside a job ...
LEMMA ToldStep ==
    ASSUME Owned, Told, NEW t \in Thread, Step(t)
    PROVE  Told'
<1>1. SUFFICES ASSUME Healed'
               PROVE  Told'
  BY DEF Told
<1>2. /\ Controlled /\ Busy(t) /\ UNCHANGED <<raced, serial>>
      /\ \A u \in Thread : Busy(u)' => Busy(u)
  BY SoloStep, Frame, NumberMoves DEF Owned, Controlled, Busy
<1>3. CASE Renew(t)
  <2>1. /\ at[t] = "renew" /\ at'[t] = "spawn" /\ targetObj' = serial[t]
        /\ UNCHANGED <<isUartPiped, isTtyLogging>>
    BY <1>2, <1>3, ResetMoves
  <2>2. serial[t] \in Nat
    BY ConfigAssumption DEF Owned, Controlled, TypeOK, Ids
  <2>3. serial[t] \notin raced
    BY <1>1, <1>2, <2>1, <2>2 DEF Healed
  <2>4. Lone(t)
    BY <1>2, <2>3 DEF Lone
  <2>5. ~isUartPiped /\ ~isTtyLogging
    BY <2>1, <2>4 DEF Owned, Lones, Points, DrivePoint, Alone
  <2>6. \A u \in Thread : u # t => at'[u] = "idle"
    BY <1>2, <2>4 DEF Owned, Solo, Busy
  <2>7. ToldBy(t)'
    BY <2>1, <2>5 DEF ToldBy, DecidedBy, ListensBy, DrainsBy
  <2> QED
    BY <2>6, <2>7, ToldTransfers
<1>4. CASE ~Renew(t)
  <2>1. Healed
    BY <1>1, <1>2, <1>4, NumberMoves DEF Healed
  <2>2. Lone(t) /\ \A u \in Thread : u # t => at[u] = "idle"
    BY <1>2, <2>1, HealedLone
  <2>3. ToldBy(t)
    BY <2>1, <2>2, ToldOne DEF Told
  <2>4. ToldBy(t)'
    BY <1>4, <2>2, <2>3, ToldByStep
  <2>5. \A u \in Thread : u # t => at'[u] = "idle"
    BY <1>2, <2>2 DEF Busy
  <2> QED
    BY <2>4, <2>5, ToldTransfers
<1> QED
  BY <1>3, <1>4

\* A job begins: when the jobs that raced are all healed, it is alone.
LEMMA BeginTold ==
    ASSUME Owned, Told, NEW t \in Thread, NEW j, NEW p, NEW n, Begins(t, j, p, n),
           t = "main" \/ targetObj < n, n \in Nat
    PROVE  Told'
<1>1. SUFFICES ASSUME Healed'
               PROVE  Told'
  BY DEF Told
<1>2. /\ ~Busy(t)
      /\ at'[t] \in {"st_check", "eu_check"}
      /\ \A u \in Thread : u # t => at'[u] = at[u]
      /\ raced \subseteq raced'
      /\ (\E u \in Thread : u # t /\ Busy(u)) => n \in raced'
  BY BeginMoves DEF Owned
<1>3. UNCHANGED <<isUartPiped, isTtyLogging, targetObj, ttyLogger, tty, loggerState, loggerOf,
                  loggerStop, uartSocatProc, socatState, socatOf>>
  BY DEF Begins, settings, devices, loggers, socats
<1>4. \A u \in Thread : u # t => at[u] = "idle"
  <2>1. CASE t = "main"
    BY <2>1 DEF Begins, Beside, Owned, Controlled, Turns, Busy
  <2>2. CASE t # "main"
    <3>1. targetObj \in Nat
      BY ConfigAssumption DEF Owned, Controlled, TypeOK, Ids
    <3>2. n \notin raced'
      BY <1>1, <1>3, <2>2, <3>1 DEF Healed
    <3> QED
      BY <1>2, <3>2 DEF Busy
  <2> QED
    BY <2>1, <2>2
<1>5. Healed
  BY <1>1, <1>2, <1>3 DEF Healed
<1>6. ToldBy(t)
  BY <1>4, <1>5, ToldOne DEF Told
<1>7. ToldBy(t)'
  BY <1>2, <1>3, <1>6 DEF ToldBy, DecidedBy, ListensBy, ListenerUp, DrainsBy, LoggerUp, Busy
<1> QED
  BY <1>2, <1>4, <1>7, ToldTransfers

\* ... and in the steps outside the jobs.
LEMMA ToldRest ==
    ASSUME Owned, Told,
           \/ MainStep \/ DoPipeStart \/ DoPipeStop \/ DoRestart \/ DoExit
           \/ ResetTarget
           \/ \E l \in Ids : LogStep(l)
           \/ \E g \in Ids : ProcessDies(g)
           \/ \E s \in Ids : ClientConnects(s) \/ ClientLeaves(s)
    PROVE  Told'
<1>1. Controlled /\ TypeOK /\ targetObj \in Nat /\ cmds \in Nat /\ requests \subseteq Nat
  BY ConfigAssumption DEF Owned, Controlled, TypeOK, Ids
<1>2. "main" \in Thread /\ "shell" \in Thread /\ "watchdog" \in Thread
  BY DEF Thread
<1>3. CASE OpenShell \/ Ended \/ DoExit \/ DoRestart
  <2>1. /\ UNCHANGED <<raced, threads, settings, devices>>
        /\ \/ phase' = phase
           \/ phase \in {"launch", "shell"} /\ phase' \in {"shell", "closing"}
           \/ phase = "ending" /\ phase' = "ended"
    BY <1>3 DEF OpenShell, Ended, DoExit, DoRestart, Prompt
  <2>2. UNCHANGED <<at, isUartPiped, isTtyLogging, targetObj, ttyLogger, tty, loggerState, loggerOf,
                    loggerStop, uartSocatProc, socatState, socatOf, raced>>
    BY <2>1 DEF threads, settings, devices, loggers, socats
  <2>3. Listens' <=> Listens
    BY <2>2 DEF Listens, ListenerUp
  <2>4. Drains' <=> Drains
    BY <2>2 DEF Drains, LoggerUp
  <2>5. Decided => Decided'
    BY <2>1, <2>2 DEF Decided
  <2> QED
    BY <2>2, <2>3, <2>4, <2>5 DEF Told, Healed
<1>4. CASE EndCyberPhys
  BY <1>1, <1>2, <1>4, JobBegins, BeginTold
<1>5. CASE DoPipeStart \/ DoPipeStop
  <2>1. cmds + 1 \in Nat /\ targetObj < cmds + 1
    BY <1>1 DEF Owned, Numbered, Counted
  <2> QED
    BY <1>1, <1>2, <1>5, <2>1, JobBegins, BeginTold
<1>6. CASE ResetTarget
  <2>1. PICK n \in requests : Begins("watchdog", "reset", "endUart", n)
    BY <1>1, <1>6, JobBegins
  <2>2. targetObj < n /\ n \in Nat
    BY <1>1 DEF Owned, Numbered, Counted
  <2> QED
    BY <1>2, <2>1, <2>2, BeginTold
<1>7. CASE \E l \in Ids : LogStep(l)
  <2>1. PICK l \in Ids : LogStep(l)
    BY <1>7
  <2>2. /\ UNCHANGED <<phase, raced, at, isUartPiped, isTtyLogging, targetObj, ttyLogger>>
        /\ UNCHANGED <<tty, loggerOf, loggerStop, uartSocatProc, socatState, socatOf>>
        /\ \A k \in Ids : k # l => loggerState'[k] = loggerState[k]
    BY <1>1, <2>1 DEF LogStep, LoggerCheck, LoggerRead, LoggerFails, LoggerGoes, user, threads,
       settings, socats, TypeOK
  <2>3. \/ loggerStop[l]
        \/ loggerState'[l] \in Live
        \/ loggerOf[l] # None => tty[loggerOf[l]] = "dead"
    BY <1>1, <2>1 DEF LogStep, LoggerCheck, LoggerRead, LoggerFails, LoggerGoes, TypeOK, Live
  <2>4. targetObj # None
    BY ConfigAssumption DEF Owned, Controlled, TypeOK, Ids, None
  <2>5. Drains => Drains'
    <3>1. loggerOf[ttyLogger] = targetObj /\ LoggerUp => LoggerUp'
      BY <1>1, <2>2, <2>3, <2>4 DEF LoggerUp, TypeOK
    <3> QED
      BY <2>2, <3>1 DEF Drains
  <2>6. (Decided => Decided') /\ (Listens => Listens')
    BY <2>2 DEF Decided, Listens, ListenerUp
  <2> QED
    BY <2>2, <2>5, <2>6 DEF Told, Healed
<1>8. CASE \E g \in Ids : ProcessDies(g) \/ ClientConnects(g) \/ ClientLeaves(g)
  <2>1. PICK g \in Ids : tty' = [tty EXCEPT ![g] = "dead"] \/ tty' = tty
    BY <1>8 DEF ProcessDies, ClientConnects, ClientLeaves
  <2>2. /\ UNCHANGED <<phase, raced, at, isUartPiped, isTtyLogging, targetObj, ttyLogger>>
        /\ UNCHANGED <<loggerState, loggerOf, loggerStop>>
        /\ UNCHANGED <<uartSocatProc, socatState, socatOf>>
    BY <1>8 DEF ProcessDies, ClientConnects, ClientLeaves, user, threads, settings, loggers, socats
  <2>3. tty[targetObj] = "dead" => tty'[targetObj] = "dead"
    BY <1>1, <2>1 DEF TypeOK
  <2>4. Drains => Drains'
    BY <2>2, <2>3 DEF Drains, LoggerUp
  <2>5. (Decided => Decided') /\ (Listens => Listens')
    BY <2>2 DEF Decided, Listens, ListenerUp
  <2> QED
    BY <2>2, <2>4, <2>5 DEF Told, Healed
<1> QED
  BY <1>3, <1>4, <1>5, <1>6, <1>7, <1>8 DEF MainStep

\* A startUartPiping that runs alone finds the process of the target it
\* captured.
LEMMA ExitStep ==
    ASSUME Owned, exited = "no", Act
    PROVE  PipingExitsInRacesOnly'
<1>1. ASSUME NEW t \in Thread, StartUartPopen(t), Exit("piping"), tty[tgt[t]] = "none"
      PROVE  PipingExitsInRacesOnly'
  <2>1. at[t] = "su_popen" /\ UNCHANGED <<at, serial, raced>>
    BY <1>1 DEF StartUartPopen, At, Exit, user, threads
  <2>2. serial[t] \in raced
    <3>1. SUFFICES ASSUME serial[t] \notin raced
                   PROVE  FALSE
      OBVIOUS
    <3>2. Lone(t)
      BY <2>1, <3>1 DEF Lone, Busy
    <3>3. tgt[t] = targetObj
      BY <2>1, <3>2 DEF Owned, Lones, Points, UartPoint
    <3>4. at["watchdog"] # "spawn"
      BY <2>1, <3>2 DEF Owned, Solo, Busy, Thread
    <3> QED
      BY <1>1, <3>3, <3>4 DEF Owned, Booted
  <2> QED
    BY <2>1, <2>2 DEF PipingExitsInRacesOnly
<1>2. ASSUME NEW t \in Thread, Step(t)
      PROVE  \/ exited' \in {exited, "lost"}
             \/ StartUartPopen(t) /\ Exit("piping") /\ tty[tgt[t]] = "none"
  BY <1>2 DEF Step, StartUartCheck, StartUartLogging, StartUartPopen, StartUartSet, EndUartCheck,
     EndUartKill, EndUartClear, StartTtyCheck, StartTtyPiped, StartTtyCreate, StartTtyStart,
     StartTtySet, StopTtyCheck, StopTtyStop, StopTtyWait, StopTtyClear, TearDown, Renew, Spawn,
     Drive, Exit
<1>3. ASSUME ~\E t \in Thread : Step(t)
      PROVE  UNCHANGED exited
  BY <1>3 DEF Act, MainStep, OpenShell, EndCyberPhys, Ended, DoPipeStart, DoPipeStop, DoRestart,
     DoExit, ResetTarget, LogStep, LoggerCheck, LoggerRead, LoggerFails, LoggerGoes, ProcessDies,
     ClientConnects, ClientLeaves
<1>4. exited' \in {"no", "lost"} => PipingExitsInRacesOnly'
  BY DEF PipingExitsInRacesOnly
<1> QED
  BY <1>1, <1>2, <1>3, <1>4

\* The second inductive invariant.
LEMMA PipingInvariant == Spec => []PipingInductive
<1>1. Init => Told /\ PipingExitsInRacesOnly
  <2> SUFFICES ASSUME Init
               PROVE  Told /\ PipingExitsInRacesOnly
    OBVIOUS
  <2>1. /\ Entry(Handover) = IF PipeTheUart THEN "su_check" ELSE "sl_check"
        /\ Handover = IF PipeTheUart THEN "startUart" ELSE "startTty"
    BY DEF Handover, Entry
  <2>2. "main" \in Thread
    BY DEF Thread
  <2>3. /\ at["main"] \in {"su_check", "sl_check"}
        /\ \A t \in Thread : t # "main" => at[t] = "idle"
    BY <2>1, <2>2 DEF Init
  <2>4. ToldBy("main") /\ PipingExitsInRacesOnly
    BY <2>3 DEF Init, ToldBy, DecidedBy, ListensBy, DrainsBy, PipingExitsInRacesOnly
  <2> QED
    BY <2>2, <2>3, <2>4, ToldOne DEF Told
<1>2. Owned /\ Told /\ PipingExitsInRacesOnly /\ [Next]_vars => (Told /\ PipingExitsInRacesOnly)'
  <2> SUFFICES ASSUME Owned, Told, PipingExitsInRacesOnly, [Next]_vars
               PROVE  (Told /\ PipingExitsInRacesOnly)'
    OBVIOUS
  <2>1. CASE UNCHANGED vars
    <3>1. UNCHANGED <<phase, raced, at, serial, isUartPiped, isTtyLogging, targetObj, ttyLogger, tty,
                      loggerState, loggerOf, loggerStop, uartSocatProc, socatState, socatOf, exited>>
      BY <2>1 DEF vars, user, threads, settings, devices, loggers, socats
    <3>2. (Decided' <=> Decided) /\ (Listens' <=> Listens) /\ (Drains' <=> Drains)
      BY <3>1 DEF Decided, Listens, ListenerUp, Drains, LoggerUp
    <3>3. PipingExitsInRacesOnly'
      BY <3>1 DEF PipingExitsInRacesOnly
    <3> QED
      BY <3>1, <3>2, <3>3 DEF Told, Healed
  <2>2. CASE exited = "no" /\ Act
    <3>1. Told'
      BY <2>2, ToldStep, ToldRest DEF Act
    <3>2. PipingExitsInRacesOnly'
      BY <2>2, ExitStep
    <3> QED
      BY <3>1, <3>2
  <2> QED
    BY <2>1, <2>2 DEF Next, Stopped
<1> QED
  BY <1>1, <1>2, OwnedInvariant, PTL DEF Spec, PipingInductive

\* Whatever commands are given and whenever resets run beside them: between
\* two jobs exactly one of isUartPiped and isTtyLogging is set and the
\* listener or the logger it speaks of serves the current target, from the
\* first reset on that is newer than every job that raced; nobody but what
\* such jobs left holds a terminal when the session ends; and startUartPiping
\* reaches the handler that ends the tool only in such a job.
THEOREM PipingCorrect == Spec => []PipingInv
<1>1. PipingInductive => SettingsTellTruth
  <2> SUFFICES ASSUME PipingInductive, phase \in {"shell", "closing"},
                      \A t \in Thread : job[t] = "none", \A n \in raced : n < targetObj
               PROVE  /\ isUartPiped # isTtyLogging
                      /\ isUartPiped => uartSocatProc[targetObj] \in LiveSocats(targetObj)
                      /\ isTtyLogging => \/ ttyLogger \in LiveLoggers(targetObj)
                                         \/ tty[targetObj] = "dead"
    BY DEF SettingsTellTruth
  <2>1. Owned /\ TypeOK /\ \A t \in Thread : at[t] = "idle"
    BY DEF PipingInductive, Owned, Controlled, Turns, Busy
  <2>2. Decided /\ Listens /\ Drains
    BY DEF PipingInductive, Told, Healed
  <2>3. isUartPiped # isTtyLogging
    BY <2>1, <2>2 DEF Decided
  <2>4. isUartPiped => uartSocatProc[targetObj] \in LiveSocats(targetObj)
    BY <2>1, <2>2 DEF Listens, ListenerUp, LiveSocats
  <2>5. ASSUME isTtyLogging
        PROVE  ttyLogger \in LiveLoggers(targetObj) \/ tty[targetObj] = "dead"
    BY <2>1, <2>2, <2>5 DEF Drains, LoggerUp, LiveLoggers, Live, TypeOK
  <2> QED
    BY <2>3, <2>4, <2>5
<1>2. PipingInductive => NothingLeft
  <2> SUFFICES ASSUME PipingInductive, phase = "ended"
               PROVE  NoListener /\ NoLogger
    BY DEF NothingLeft, LiveLoggers, LiveSocats, NoListener, NoLogger, CleanSocat, CleanLogger, Live
  <2>1. Owned /\ at["main"] = "idle"
    BY DEF PipingInductive, Owned, Controlled, Turns, Busy, Thread
  <2> QED
    BY <2>1 DEF Owned, Held, NoListener, NoLogger, KeptSocat, KeptLogger, EndUart
<1>3. PipingInductive => PipingInv
  BY <1>1, <1>2 DEF PipingInductive, Owned, Controlled, PipingInv
<1> QED
  BY <1>3, PipingInvariant, PTL
==============================================================================
