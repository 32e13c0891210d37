--------------------------- MODULE TargetLifecycle ---------------------------
(***************************************************************************)
(* The commands of commonTarget and the ways they end a session.           *)
(*                                                                         *)
(* A target (debian on qemu, in a fett mode, with its user created) is     *)
(* driven through its TTY or an SSH connection.  Every command may be      *)
(* answered, time out or find the connection closed, and what follows is a *)
(* mutual recursion: runCommand interrupts or terminates, terminateAndExit *)
(* shuts down, shutdown switches the user, switchUser opens SSH            *)
(* connections, all of them run commands.  A few flags of the object are   *)
(* there to end it.  The session is the one of runFettApps with the        *)
(* deployment test of fett/unix/ssh.py, then endBesspin:                   *)
(*   send the tarball over netcat, unpack it, become the user, open SSH,   *)
(*   send a file over scp, run a command, close SSH, become root, shut     *)
(*   down.                                                                 *)
(* Sending over netcat has a second thread, which runs a command too.      *)
(*                                                                         *)
(* A thread is its call stack, the top first.  terminateAndExit does not   *)
(* return, so it replaces the stack.                                       *)
(***************************************************************************)
EXTENDS Naturals, Sequences

CONSTANTS
    LimitResend,     \* limitResendAttempts (3)
    LimitSsh,        \* sshLimitRetries (3)
    Interrupts       \* retryCount of keyboardInterrupt (3)

ASSUME LimitsAssumption ==
    {LimitResend, LimitSsh, Interrupts} \subseteq Nat \ {0}

VARIABLES
    stack,                  \* thread -> its frames
    ret,                    \* thread -> what the last call returned
    isCurrentUserRoot, isSshConn, isSshRootEnabled,
    sshRetries, resendAttempts,
    attemptShutdownFailed, keyboardInterruptTriggered,
    terminateTargetStarted, targetTearDownCalled,
    tty,                    \* what the TTY's process shows
    ssh,                    \* what the SSH process shows
    poweroffs,              \* times poweroff was sent
    exited                  \* exitBesspin was called

calls    == <<stack, ret>>
attempts == <<sshRetries, resendAttempts>>
ending   == <<attemptShutdownFailed, terminateTargetStarted, targetTearDownCalled>>
conn     == <<isSshConn, ssh>>
vars     == <<calls, attempts, ending, conn, isCurrentUserRoot, isSshRootEnabled,
              keyboardInterruptTriggered, tty, poweroffs, exited>>

\* The thread of the n-th attempt to send over netcat is n.
Listener == 1 .. LimitResend
Thread   == {0} \cup Listener
Main     == 0

Process == {"tty", "ssh"}
Kind == {"plain", "exists", "exit", "password", "break", "poweroff", "quit",
         "sshPrompt", "sshYes", "sshPassword", "sshExit", "nc", "scp", "root", "user", "none"}
At == {"send", "expect", "timedOut", "kb", "kbTry", "kbSpace", "term", "tear", "exit",
       "sd", "sdUser", "sdTerm", "sdPower", "sdDown", "return", "td", "tdKill",
       "su", "suName", "suPass", "suOpen", "suOpened", "os", "osSpawn", "osPass", "osIn",
       "cs", "csKill", "er", "erEcho", "erService", "erDone", "sf", "sfJoin", "sfExists",
       "sfCheck", "sfSum", "sfRetry", "sfGiveUp", "script"}

\* What a frame holds: where it is, what it sends or is about, its exitOnError,
\* issueInterrupt and overrideShutdown, its process, and a counter.
Frame == [at : At, kind : Kind, eoe : BOOLEAN, intr : BOOLEAN, ov : BOOLEAN,
          proc : Process, n : Nat]

TypeOK ==
    /\ stack \in [Thread -> Seq(Frame)]
    /\ \A t \in Thread : Len(stack[t]) <= 9
    /\ ret \in [Thread -> {"ok", "failed", "timeout", "asked"}]
    /\ {isCurrentUserRoot, isSshConn, isSshRootEnabled, attemptShutdownFailed,
        keyboardInterruptTriggered, terminateTargetStarted, targetTearDownCalled,
        exited} \subseteq BOOLEAN
    /\ sshRetries \in 0 .. LimitSsh
    /\ resendAttempts \in 0 .. LimitResend - 1
    /\ tty \in {"root", "user", "login", "rootSecret", "userSecret", "closed"}
    /\ ssh \in {"none", "rootSecret", "userSecret", "root", "user", "closed"}
    /\ poweroffs \in 0 .. 2

F(at) == [at |-> at, kind |-> "none", eoe |-> TRUE, intr |-> TRUE, ov |-> FALSE,
          proc |-> "tty", n |-> 0]
About(at, kind) == [F(at) EXCEPT !.kind = kind]

Init ==
    /\ stack = [t \in Thread |-> IF t = Main THEN <<F("script")>> ELSE <<>>]
    /\ ret = [t \in Thread |-> "ok"]
    /\ isCurrentUserRoot = TRUE
    /\ isSshConn = FALSE
    /\ isSshRootEnabled = FALSE
    /\ sshRetries = 0
    /\ resendAttempts = 0
    /\ attemptShutdownFailed = FALSE
    /\ keyboardInterruptTriggered = FALSE
    /\ terminateTargetStarted = FALSE
    /\ targetTearDownCalled = FALSE
    /\ tty = "root"
    /\ ssh = "none"
    /\ poweroffs = 0
    /\ exited = FALSE

------------------------------------------------------------------------------
(* Calls                                                                   *)

Top(t) == Head(stack[t])
In(t, at) == stack[t] # <<>> /\ Top(t).at = at

Become(t, frames) == stack' = [stack EXCEPT ![t] = frames \o Tail(@)]
Goto(t, at)       == Become(t, <<[Top(t) EXCEPT !.at = at]>>) /\ UNCHANGED ret
\* Call f and go on at `at` when it returns.
Call(t, f, at)    == Become(t, <<f, [Top(t) EXCEPT !.at = at]>>) /\ UNCHANGED ret
Return(t, r)      == Become(t, <<>>) /\ ret' = [ret EXCEPT ![t] = r]
\* self.terminateAndExit(..., overrideShutdown=ov)
Terminate(t, ov)  == /\ stack' = [stack EXCEPT ![t] = <<[F("term") EXCEPT !.ov = ov]>>]
                     /\ UNCHANGED ret

SelfProcess == IF isSshConn THEN "ssh" ELSE "tty"
Screen(p)   == IF p = "ssh" THEN ssh ELSE tty

\* self.runCommand with exitOnError, without, and without an interrupt either.
Command(kind) == [About("send", kind) EXCEPT !.proc = SelfProcess]
Try(kind)     == [Command(kind) EXCEPT !.eoe = FALSE]
TryOnce(kind) == [Try(kind) EXCEPT !.intr = FALSE]
\* self.keyboardInterrupt(exitOnError=True, process=p)
Interrupt(p)  == [F("kb") EXCEPT !.proc = p]

------------------------------------------------------------------------------
(* runCommand: sendToTarget, then expectFromTarget                         *)

Sends(t) ==
    /\ In(t, "send")
    /\ poweroffs' = poweroffs + (IF Top(t).kind = "poweroff" THEN 1 ELSE 0)
    /\ \/ Goto(t, "expect")
       \/ Screen(Top(t).proc) = "closed" /\ Top(t).eoe /\ Terminate(t, FALSE)
    /\ UNCHANGED <<attempts, ending, conn, isCurrentUserRoot, isSshRootEnabled,
                   keyboardInterruptTriggered, tty, exited>>

CurrentUser == IF isCurrentUserRoot THEN "root" ELSE "user"
Secret(u)   == IF u = "root" THEN "rootSecret" ELSE "userSecret"

\* What the process shows after an answer to the command, for each screen it
\* can be answered on: the default endsWith is the prompt of isCurrentUserRoot.
\* Kinds "root" and "user" are the names typed at the login prompt.
Answer(kind, screen) ==
    CASE kind \in {"plain", "exists", "break", "nc"} /\ screen = CurrentUser -> screen
      [] kind = "exit"        /\ screen \in {"root", "user"} -> "login"
      [] kind \in {"root", "user"} /\ screen = "login" -> Secret(kind)
      [] kind \in {"sshPrompt", "sshYes"} /\ screen \in {"rootSecret", "userSecret"} -> screen
      [] kind \in {"password", "sshPassword"} /\ screen = Secret(CurrentUser) -> CurrentUser
      [] kind = "sshExit"     /\ screen \in {"root", "user"} -> "closed"
      [] kind = "poweroff"    /\ screen = "root"   -> "closed"
      [] kind = "quit" -> "closed"
      [] OTHER -> "silent"

Shows(p, screen) == IF p = "ssh" THEN ssh' = screen /\ UNCHANGED tty
                    ELSE tty' = screen /\ UNCHANGED ssh

Answers(t) ==
    /\ In(t, "expect")
    /\ LET f == Top(t)
           a == Answer(f.kind, Screen(f.proc))
       IN /\ Screen(f.proc) # "closed" /\ a # "silent"
          /\ Shows(f.proc, a)
          /\ \/ Return(t, "ok")
             \/ f.kind = "exists" /\ Return(t, "failed")
             \/ f.kind = "sshPrompt" /\ Return(t, "asked")
    /\ UNCHANGED <<attempts, ending, isSshConn, isCurrentUserRoot, isSshRootEnabled,
                   keyboardInterruptTriggered, poweroffs, exited>>

\* A time-out may come whatever the target shows.
TimesOut(t) ==
    /\ In(t, "expect")
    /\ LET f == Top(t)
       IN /\ Screen(f.proc) # "closed"
          /\ \/ f.eoe /\ Terminate(t, f.ov)
             \/ ~f.eoe /\ f.intr /\ Call(t, Interrupt(f.proc), "timedOut")
             \/ ~f.eoe /\ ~f.intr /\ Return(t, "timeout")
    /\ UNCHANGED <<attempts, ending, conn, isCurrentUserRoot, isSshRootEnabled,
                   keyboardInterruptTriggered, tty, poweroffs, exited>>

Resolved(t) ==
    /\ In(t, "timedOut")
    /\ Return(t, "timeout")
    /\ UNCHANGED <<attempts, ending, conn, isCurrentUserRoot, isSshRootEnabled,
                   keyboardInterruptTriggered, tty, poweroffs, exited>>

\* The process ended: expected, one of several outcomes, or an exception,
\* which terminates whatever exitOnError is.
Eof(t) ==
    /\ In(t, "expect")
    /\ LET f == Top(t)
       IN /\ Screen(f.proc) = "closed"
          /\ \/ f.kind \in {"poweroff", "quit", "sshExit"} /\ Return(t, "ok")
             \/ f.kind \in {"sshPrompt", "sshYes"} /\ Return(t, "failed")
             \/ /\ f.kind \notin {"poweroff", "quit", "sshExit", "sshPrompt", "sshYes"}
                /\ Terminate(t, f.ov)
    /\ UNCHANGED <<attempts, ending, conn, isCurrentUserRoot, isSshRootEnabled,
                   keyboardInterruptTriggered, tty, poweroffs, exited>>

------------------------------------------------------------------------------
(* keyboardInterrupt                                                       *)

InterruptStarts(t) ==
    /\ In(t, "kb")
    /\ IF terminateTargetStarted /\ Top(t).proc = SelfProcess
       THEN Return(t, "ok") /\ UNCHANGED keyboardInterruptTriggered
       ELSE IF keyboardInterruptTriggered
       THEN Terminate(t, TRUE) /\ UNCHANGED keyboardInterruptTriggered
       ELSE keyboardInterruptTriggered' = TRUE /\ Goto(t, "kbTry")
    /\ UNCHANGED <<attempts, ending, conn, isCurrentUserRoot, isSshRootEnabled,
                   tty, poweroffs, exited>>

On(f, t) == [f EXCEPT !.proc = Top(t).proc]

\* At most `Interrupts` times ^C, then a space.
InterruptTries(t) ==
    /\ In(t, "kbTry")
    /\ \/ /\ Top(t).n = 0 \/ (ret[t] = "timeout" /\ Top(t).n < Interrupts)
          /\ Become(t, <<On(TryOnce("break"), t), [Top(t) EXCEPT !.n = @ + 1]>>)
          /\ UNCHANGED ret
       \/ /\ Top(t).n > 0 /\ ret[t] = "timeout" /\ Top(t).n = Interrupts
          /\ Call(t, On(Command("plain"), t), "kbSpace")
       \/ /\ Top(t).n > 0 /\ ret[t] # "timeout"
          /\ Goto(t, "kbSpace")
    /\ UNCHANGED <<attempts, ending, conn, isCurrentUserRoot, isSshRootEnabled,
                   keyboardInterruptTriggered, tty, poweroffs, exited>>

\* A changed form of the next definition: the flag is not put down.
InterruptEndsOnly(t) ==
    /\ In(t, "kbSpace")
    /\ Return(t, "ok")
    /\ UNCHANGED <<attempts, ending, conn, isCurrentUserRoot, isSshRootEnabled,
                   keyboardInterruptTriggered, tty, poweroffs, exited>>

InterruptEnds(t) ==
    /\ In(t, "kbSpace")
    /\ keyboardInterruptTriggered' = FALSE
    /\ Return(t, "ok")
    /\ UNCHANGED <<attempts, ending, conn, isCurrentUserRoot, isSshRootEnabled,
                   tty, poweroffs, exited>>

------------------------------------------------------------------------------
(* terminateAndExit, shutdown, terminateTarget, tearDown                   *)

still == <<attempts, conn, isSshRootEnabled, keyboardInterruptTriggered, tty,
           poweroffs>>

TerminateSteps(t) ==
    /\ \/ In(t, "term") /\ ~Top(t).ov /\ Call(t, F("sd"), "tear") /\ UNCHANGED exited
       \/ In(t, "term") /\ Top(t).ov /\ Goto(t, "tear") /\ UNCHANGED exited
       \/ In(t, "tear") /\ Call(t, F("td"), "exit") /\ UNCHANGED exited
       \/ In(t, "exit") /\ exited' = TRUE /\ UNCHANGED calls
    /\ UNCHANGED <<still, ending, isCurrentUserRoot>>

\* A changed form of the next definition: a second shutdown is not noticed.
ShutdownAnyway(t) ==
    /\ In(t, "sd")
    /\ attemptShutdownFailed' = TRUE
    /\ Goto(t, "sdUser")
    /\ UNCHANGED <<still, terminateTargetStarted, targetTearDownCalled,
                   isCurrentUserRoot, exited>>

ShutdownStarts(t) ==
    /\ In(t, "sd")
    /\ attemptShutdownFailed' = TRUE
    /\ IF attemptShutdownFailed THEN Terminate(t, TRUE) ELSE Goto(t, "sdUser")
    /\ UNCHANGED <<still, terminateTargetStarted, targetTearDownCalled,
                   isCurrentUserRoot, exited>>

ShutdownSwitchesUser(t) ==
    /\ In(t, "sdUser")
    /\ IF isCurrentUserRoot THEN Goto(t, "sdTerm") ELSE Call(t, F("su"), "sdTerm")
    /\ UNCHANGED <<still, ending, isCurrentUserRoot, exited>>

\* "only shutdown on tty if possible"
TerminateTargetStarts(t) ==
    /\ In(t, "sdTerm")
    /\ terminateTargetStarted' = TRUE
    /\ IF isSshConn THEN Call(t, F("cs"), "sdPower") ELSE Goto(t, "sdPower")
    /\ UNCHANGED <<still, attemptShutdownFailed, targetTearDownCalled,
                   isCurrentUserRoot, exited>>

\* A changed form of the next definition: the target is not torn down.
PowersOffOnly(t) ==
    /\ \/ In(t, "sdPower") /\ Call(t, Command("poweroff"), "sdDown")
       \/ In(t, "sdDown") /\ Goto(t, "return")
    /\ UNCHANGED <<still, ending, isCurrentUserRoot, exited>>

PowersOff(t) ==
    /\ \/ In(t, "sdPower") /\ Call(t, Command("poweroff"), "sdDown")
       \/ In(t, "sdDown") /\ Call(t, F("td"), "return")
    /\ UNCHANGED <<still, ending, isCurrentUserRoot, exited>>

Returns(t) ==
    /\ In(t, "return")
    /\ Return(t, "ok")
    /\ UNCHANGED <<still, ending, isCurrentUserRoot, exited>>

\* "Do not execute twice"; targetTearDown of qemu quits a process that is alive.
TearDownStarts(t) ==
    /\ In(t, "td")
    /\ targetTearDownCalled' = TRUE
    /\ IF targetTearDownCalled THEN Return(t, "ok")
       ELSE IF Screen(SelfProcess) = "closed" THEN Goto(t, "tdKill")
       ELSE Call(t, Command("quit"), "tdKill")
    /\ UNCHANGED <<still, attemptShutdownFailed, terminateTargetStarted,
                   isCurrentUserRoot, exited>>

TearDownKills(t) ==
    /\ In(t, "tdKill")
    /\ targetTearDownCalled' = TRUE
    /\ Shows(SelfProcess, "closed")
    /\ Return(t, "ok")
    /\ UNCHANGED <<attempts, isSshConn, isSshRootEnabled, keyboardInterruptTriggered,
                   poweroffs, attemptShutdownFailed, terminateTargetStarted,
                   isCurrentUserRoot, exited>>

------------------------------------------------------------------------------
(* switchUser                                                              *)

\* The flag changes before the login, on the TTY; on SSH, between closing the
\* connection and opening the other user's.  kind is the user to log in.
SwitchUserStarts(t) ==
    /\ In(t, "su")
    /\ IF isSshConn
       THEN Call(t, F("cs"), "suOpen") /\ UNCHANGED isCurrentUserRoot
       ELSE /\ isCurrentUserRoot' = ~isCurrentUserRoot
            /\ Become(t, <<Command("exit"),
                           About("suName", IF isCurrentUserRoot THEN "user" ELSE "root")>>)
            /\ UNCHANGED ret
    /\ UNCHANGED <<still, ending, exited>>

SwitchUserLogsIn(t) ==
    /\ \/ In(t, "suName") /\ Call(t, Command(Top(t).kind), "suPass")
       \/ In(t, "suPass") /\ Call(t, Command("password"), "return")
    /\ UNCHANGED <<still, ending, isCurrentUserRoot, exited>>

SwitchUserOpens(t) ==
    /\ In(t, "suOpen")
    /\ isCurrentUserRoot' = ~isCurrentUserRoot
    /\ Call(t, About("os", IF isCurrentUserRoot' THEN "root" ELSE "user"), "suOpened")
    /\ UNCHANGED <<still, ending, exited>>

SwitchUserEnds(t) ==
    /\ In(t, "suOpened")
    /\ IF ret[t] = "ok" THEN Return(t, "ok") ELSE Terminate(t, FALSE)
    /\ UNCHANGED <<still, ending, isCurrentUserRoot, exited>>

------------------------------------------------------------------------------
(* openSshConn, closeSshConn, enableSshOnRoot                              *)

quiet == <<ending, resendAttempts, isCurrentUserRoot, keyboardInterruptTriggered, tty,
           poweroffs, exited>>

OpenStarts(t) ==
    /\ In(t, "os")
    /\ IF sshRetries >= LimitSsh THEN Return(t, "failed")
       ELSE IF Top(t).kind = "root" THEN Call(t, F("er"), "osSpawn")
       ELSE Goto(t, "osSpawn")
    /\ UNCHANGED <<quiet, sshRetries, conn, isSshRootEnabled>>

\* A changed form of the next definition: the retries are not counted.
OpenFailsUncounted(t) ==
    /\ isSshConn' = FALSE
    /\ ssh' = "none"
    /\ UNCHANGED sshRetries
    /\ Goto(t, "os")

\* returnFail: it calls openSshConn again.
OpenFails(t) ==
    /\ isSshConn' = FALSE
    /\ ssh' = "none"
    /\ sshRetries' = sshRetries + 1
    /\ Goto(t, "os")

OpenSpawns(t) ==
    /\ In(t, "osSpawn")
    /\ \/ OpenFails(t)
       \/ /\ isSshConn' = TRUE
          /\ ssh' = Secret(Top(t).kind)
          /\ Call(t, [F("expect") EXCEPT !.kind = "sshPrompt", !.eoe = FALSE,
                                         !.intr = FALSE, !.proc = "ssh"], "osPass")
          /\ UNCHANGED sshRetries
    /\ UNCHANGED <<quiet, isSshRootEnabled>>

\* Ssh may ask first whether to trust a new host; after the "yes" the question
\* is not among the answers waited for.
OpenLogsIn(t) ==
    /\ In(t, "osPass")
    /\ CASE ret[t] = "ok"    -> /\ Call(t, TryOnce("sshPassword"), "osIn")
                               /\ UNCHANGED <<conn, sshRetries>>
         [] ret[t] = "asked" -> /\ Call(t, TryOnce("sshYes"), "osPass")
                               /\ UNCHANGED <<conn, sshRetries>>
         [] OTHER            -> OpenFails(t)
    /\ UNCHANGED <<quiet, isSshRootEnabled>>

\* A changed form of the next definition: the login is not checked.
OpenEndsUnchecked(t) ==
    /\ In(t, "osIn")
    /\ sshRetries' = 0
    /\ Return(t, "ok")
    /\ UNCHANGED <<quiet, isSshRootEnabled, conn>>

OpenEnds(t) ==
    /\ In(t, "osIn")
    /\ IF ret[t] # "ok" THEN OpenFails(t)
       ELSE sshRetries' = 0 /\ Return(t, "ok") /\ UNCHANGED conn
    /\ UNCHANGED <<quiet, isSshRootEnabled>>

CloseStarts(t) ==
    /\ In(t, "cs")
    /\ IF isSshConn /\ ssh # "none" THEN Call(t, TryOnce("sshExit"), "csKill")
       ELSE Goto(t, "csKill")
    /\ UNCHANGED <<quiet, sshRetries, conn, isSshRootEnabled>>

\* killSshConn
Closes(t) ==
    /\ In(t, "csKill")
    /\ isSshConn' = FALSE
    /\ ssh' = "none"
    /\ Return(t, "ok")
    /\ UNCHANGED <<quiet, sshRetries, isSshRootEnabled>>

\* n is 1 when the users were switched.
EnableRootSteps(t) ==
    /\ \/ /\ In(t, "er") /\ isSshRootEnabled
          /\ Return(t, "ok") /\ UNCHANGED isSshRootEnabled
       \/ /\ In(t, "er") /\ ~isSshRootEnabled /\ isCurrentUserRoot
          /\ Goto(t, "erEcho") /\ UNCHANGED isSshRootEnabled
       \/ /\ In(t, "er") /\ ~isSshRootEnabled /\ ~isCurrentUserRoot
          /\ Become(t, <<F("su"), [Top(t) EXCEPT !.at = "erEcho", !.n = 1]>>)
          /\ UNCHANGED <<ret, isSshRootEnabled>>
       \/ /\ In(t, "erEcho")
          /\ Call(t, Command("plain"), "erService") /\ UNCHANGED isSshRootEnabled
       \/ /\ In(t, "erService")
          /\ Call(t, Command("plain"), "erDone") /\ UNCHANGED isSshRootEnabled
       \/ /\ In(t, "erDone")
          /\ isSshRootEnabled' = TRUE
          /\ IF Top(t).n = 1 THEN Call(t, F("su"), "return") ELSE Return(t, "ok")
    /\ UNCHANGED <<quiet, sshRetries, conn>>

------------------------------------------------------------------------------
(* sendFile                                                                *)

rest == <<ending, sshRetries, conn, isCurrentUserRoot, isSshRootEnabled,
          keyboardInterruptTriggered, tty, poweroffs, exited>>

\* returnFalse interrupts unless the file goes over SSH.
ReturnFalse(t, at) ==
    IF isSshConn THEN Goto(t, at) ELSE Call(t, Interrupt(SelfProcess), at)

\* listenOnTarget starts, or scp runs its course.
SendFileStarts(t) ==
    /\ In(t, "sf")
    /\ \/ /\ ~isSshConn
          /\ stack' = [stack EXCEPT ![t] = <<[Top(t) EXCEPT !.at = "sfJoin"]>> \o Tail(@),
                                    ![resendAttempts + 1] = <<Try("nc")>>]
          /\ UNCHANGED ret
       \/ /\ isSshConn
          /\ \/ Goto(t, "sfRetry")
             \/ Call(t, Interrupt(SelfProcess), "sfCheck")
    /\ UNCHANGED <<rest, resendAttempts>>

\* The join expires ten seconds after the listener's command, whose interrupt has
\* started by then but need not be over.
InCommand(l) == \/ Len(stack[l]) = 1 /\ Top(l).at \in {"send", "expect"}
                \/ In(l, "kb")

SendFileJoins(t) ==
    /\ In(t, "sfJoin")
    /\ LET l == resendAttempts + 1
       IN /\ ~InCommand(l)
          /\ IF stack[l] = <<>> THEN Call(t, Try("exists"), "sfExists")
             ELSE ReturnFalse(t, "sfRetry")
    /\ UNCHANGED <<rest, resendAttempts>>

SendFileExists(t) ==
    /\ In(t, "sfExists")
    /\ IF ret[t] = "ok" THEN Goto(t, "sfCheck") ELSE ReturnFalse(t, "sfRetry")
    /\ UNCHANGED <<rest, resendAttempts>>

\* The checksum on the target: it may not be found, differ, or be right.
SendFileChecks(t) ==
    /\ \/ /\ In(t, "sfCheck")
          /\ Call(t, Command("plain"), "sfSum") /\ UNCHANGED resendAttempts
       \/ /\ In(t, "sfSum")
          /\ ReturnFalse(t, "sfGiveUp") /\ UNCHANGED resendAttempts
       \/ /\ In(t, "sfSum")
          /\ ReturnFalse(t, "sfRetry") /\ UNCHANGED resendAttempts
       \/ In(t, "sfSum") /\ resendAttempts' = 0 /\ Return(t, "ok")
       \/ In(t, "sfGiveUp") /\ Terminate(t, FALSE) /\ UNCHANGED resendAttempts
    /\ UNCHANGED rest

\* A changed form of the next definition: one attempt too many.
SendFileRetriesOnceMore(t) ==
    /\ In(t, "sfRetry")
    /\ IF resendAttempts <= LimitResend - 1
       THEN resendAttempts' = resendAttempts + 1 /\ Goto(t, "sf")
       ELSE Terminate(t, FALSE) /\ UNCHANGED resendAttempts
    /\ UNCHANGED rest

SendFileRetries(t) ==
    /\ In(t, "sfRetry")
    /\ IF resendAttempts < LimitResend - 1
       THEN resendAttempts' = resendAttempts + 1 /\ Goto(t, "sf")
       ELSE Terminate(t, FALSE) /\ UNCHANGED resendAttempts
    /\ UNCHANGED rest

------------------------------------------------------------------------------
(* The session                                                             *)

\* The calls of the main thread, in order.
Script == <<F("sf"), Command("plain"), F("su"), About("os", "user"), F("sf"),
            Command("plain"), F("cs"), F("su"), F("sd")>>

Done == In(Main, "script") /\ Top(Main).n = Len(Script)

ScriptGoes ==
    /\ In(Main, "script")
    /\ ~Done
    /\ LET n == Top(Main).n
       IN IF n = 4 /\ ret[Main] # "ok" THEN Terminate(Main, FALSE)
          ELSE /\ Become(Main, <<Script[n + 1], [Top(Main) EXCEPT !.n = n + 1]>>)
               /\ UNCHANGED ret
    /\ UNCHANGED <<rest, resendAttempts>>

\* The thread of a listener ends with its command.
Step(t) ==
    \/ Sends(t) \/ Answers(t) \/ TimesOut(t) \/ Resolved(t) \/ Eof(t)
    \/ InterruptStarts(t) \/ InterruptTries(t) \/ InterruptEnds(t)
    \/ TerminateSteps(t) \/ ShutdownStarts(t) \/ ShutdownSwitchesUser(t)
    \/ TerminateTargetStarts(t) \/ PowersOff(t) \/ Returns(t)
    \/ TearDownStarts(t) \/ TearDownKills(t)
    \/ SwitchUserStarts(t) \/ SwitchUserLogsIn(t) \/ SwitchUserOpens(t)
    \/ SwitchUserEnds(t)
    \/ OpenStarts(t) \/ OpenSpawns(t) \/ OpenLogsIn(t) \/ OpenEnds(t)
    \/ CloseStarts(t) \/ Closes(t) \/ EnableRootSteps(t)
    \/ SendFileStarts(t) \/ SendFileJoins(t) \/ SendFileExists(t)
    \/ SendFileChecks(t) \/ SendFileRetries(t)
    \/ t = Main /\ ScriptGoes

\* The target's process ends, or its SSH connection is dropped.
Closed(p) ==
    /\ Screen(p) \notin {"none", "closed"}
    /\ Shows(p, "closed")
    /\ UNCHANGED <<calls, attempts, ending, isSshConn, isCurrentUserRoot,
                   isSshRootEnabled, keyboardInterruptTriggered, poweroffs, exited>>

Stopped == (Done \/ exited) /\ UNCHANGED vars

Next == \/ ~exited /\ \E t \in Thread : Step(t)
        \/ ~exited /\ ~Done /\ \E p \in Process : Closed(p)
        \/ Stopped

\* Python schedules every thread; each command is answered, times out or finds
\* the end of its process.
Fairness == \A t \in Thread : WF_vars(~exited /\ Step(t))

Spec     == Init /\ [][Next]_vars
FairSpec == Spec /\ Fairness

------------------------------------------------------------------------------
(* Properties                                                              *)

\* Whatever fails, and however often, the session comes to its end or the tool
\* exits: the retries of sendFile, openSshConn and keyboardInterrupt and the
\* recursion through terminateAndExit and shutdown are cut by their counters
\* and flags.
SessionEnds == <>(Done \/ exited)

\* A session that ends in order powered the target off once, from its TTY, and
\* left no connection: also after interrupts and retries.
OrderlyEnd ==
    Done => /\ tty = "closed" /\ ~isSshConn
            /\ targetTearDownCalled /\ poweroffs = 1

\* As "to break any infinite loop" has it, keyboardInterruptTriggered tells
\* that an interrupt is under way: unless the tool is about to exit, the flag
\* is only up while some thread is inside keyboardInterrupt.
Inside(t, ats) == \E i \in DOMAIN stack[t] : stack[t][i].at \in ats
InterruptFlagFresh ==
    keyboardInterruptTriggered =>
        \E t \in Thread : Inside(t, {"kbTry", "kbSpace", "term", "tear", "exit"})

\* poweroff is typed at most once, whichever threads fail in whichever calls,
\* and however often shutdown is entered again from a command of its own.
PowersOffOnce == poweroffs <= 1

\* As the comment on isCurrentUserRoot has it, "This will be the indicator of
\* which user we are logged in as": whenever a command is sent that expects the
\* prompt of the current user, that user is logged in.
FlagTellsUser ==
    \A t \in Thread :
        In(t, "send") /\ Top(t).kind = "plain" =>
            Screen(Top(t).proc) \in {CurrentUser, "closed"}

\* In order, that is so, whatever was interrupted and retried before: while no
\* thread is terminating, the flag tells the user.
FlagTellsUserInOrder ==
    (\A t \in Thread : ~Inside(t, {"term", "tear", "exit"})) => FlagTellsUser

\* What the recursion of common.py relies on: a call stack within its bounds,
\* a fresh interrupt flag, one poweroff, and a flag that tells the user.
CallInv ==
    /\ TypeOK
    /\ InterruptFlagFresh
    /\ PowersOffOnce
    /\ FlagTellsUserInOrder
==============================================================================
