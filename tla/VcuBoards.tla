------------------------------ MODULE VcuBoards ------------------------------
(***************************************************************************)
(* Bringing up several VCU118 boards at once (<cyberPhys> mode).  One      *)
(* thread per target programs its board, starts openocd and gdb, finds the *)
(* UART of the board among those plugged in, loads the image and boots it. *)
(* The threads share                                                       *)
(*   openocdLock        "conservative": programming a board and starting   *)
(*                      openocd and gdb on it are done one target at a     *)
(*                      time.  fpgaStart takes it and gdbProgStart         *)
(*                      releases it, by hand, because a failed start calls *)
(*                      fpgaReload, which takes it again;                  *)
(*   vcu118FlashCounter when the flash is programmed, nobody boots before  *)
(*                      every target was programmed and the user power     *)
(*                      cycled the boards;                                 *)
(*   listVcu118HwTargets, vcu118UartDevices                                *)
(*                      the boards and the UARTs nobody took yet.          *)
(*                                                                         *)
(* Boards are identified with their hardware target and with the serial    *)
(* number of their UART.  A call of fpgaStart made from inside another one *)
(* (through fpgaReload) leaves the point to return to on a stack.          *)
(***************************************************************************)
EXTENDS Naturals, Sequences, FiniteSets

CONSTANTS
    Target,          \* targets; the thread of a target has its name
    Board,           \* boards plugged into the host
    Nobody, NoBoard, \* model values
    Mode,            \* the `vcu118Mode` setting, the same for all targets
    Saved,           \* boards whose UART is in the saved uartDevicesSavedMap
    ProgramOnReset,  \* the `programBitfileOnReset` setting
    BootCheck,       \* bluespec_p3: the boot is checked and tried again
    NetworkCheck,    \* FreeRTOS: the network is checked, and the board reloaded
    StartRetriesMax, \* fpgaStartRetriesMax (3)
    ProgAttempts,    \* _MAX_PROG_ATTEMPTS (3)
    BootAttemptsMax, \* bluespec_p3BootAttemptsMax (5)
    NtkRetriesMax,   \* freertosNtkRetriesMax (3)
    SpawnFails,      \* openocd and gdb may fail to start
    MaxResets        \* bound: resets of all targets together

ASSUME TargetAssumption ==
    /\ IsFiniteSet(Target) /\ Target # {} /\ Nobody \notin Target
    /\ IsFiniteSet(Board) /\ Cardinality(Board) >= Cardinality(Target)
    /\ NoBoard \notin Board
    /\ Saved \subseteq Board

ASSUME SettingsAssumption ==
    /\ Mode \in {"nonPersistent", "flashProgramAndBoot", "flashBoot"}
    /\ {ProgramOnReset, BootCheck, NetworkCheck, SpawnFails} \subseteq BOOLEAN
    /\ {StartRetriesMax, ProgAttempts, BootAttemptsMax, NtkRetriesMax}
         \subseteq Nat \ {0}
    /\ MaxResets \in Nat

VARIABLES
    openocdLock,   \* who holds it
    pc,            \* target -> the point its thread reached
    stack,         \* target -> where the enclosing calls go on
    startRetries,  \* target -> fpgaStartRetriesIdx
    attempts,      \* target -> attempts left in programVcu118
    bootAttempts,  \* target -> bluespec_p3BootAttemptsIdx
    ntkRetries,    \* target -> freertosNtkRetriesIdx
    hwTarget,      \* target -> its board (setting vcu118HwTarget)
    hwPool,        \* listVcu118HwTargets
    uart,          \* target -> the UART it uses (setting vcu118UartDevice)
    uartPool,      \* the devices of vcu118UartDevices nobody took
    uartHwIdMap,   \* UART -> the board it is associated with
    flashCount,    \* vcu118FlashCounter: _count
    flashEvent,    \*                     _event
    banner,        \* target -> "bbl loader" was printed and not read yet
    resets,        \* number of resets so far
    exited         \* logAndExit or terminateAndExit was called

counters == <<startRetries, attempts, bootAttempts, ntkRetries>>
boards   == <<hwTarget, hwPool>>
uarts    == <<uart, uartPool, uartHwIdMap>>
flash    == <<flashCount, flashEvent>>
vars     == <<openocdLock, pc, stack, counters, boards, uarts, flash, banner,
              resets, exited>>

\* The points at which a thread is inside the region openocdLock protects ...
Protected == {"preparing", "programming", "openocd", "uart", "smoke", "search",
              "gdb", "connect"}
\* ... and those at which it waits for the lock.
Acquiring == {"prepare", "program", "start"}

Point == Protected \cup Acquiring \cup
         {"known", "flashed", "waiting", "askUser", "load", "boot", "network",
          "booted"}

Frame == {"search", "boot", "network"}

TypeOK ==
    /\ openocdLock \in Target \cup {Nobody}
    /\ pc \in [Target -> Point]
    /\ stack \in [Target -> Seq(Frame)]
    /\ startRetries \in [Target -> 0 .. StartRetriesMax]
    /\ attempts \in [Target -> 0 .. ProgAttempts - 1]
    /\ bootAttempts \in [Target -> 0 .. BootAttemptsMax - 1]
    /\ ntkRetries \in [Target -> 0 .. NtkRetriesMax]
    /\ hwTarget \in [Target -> Board \cup {NoBoard}]
    /\ hwPool \subseteq Board
    /\ uart \in [Target -> Board \cup {NoBoard}]
    /\ uartPool \subseteq Board
    /\ uartHwIdMap \in [Board -> Board \cup {NoBoard}]
    /\ flashCount \in Nat
    /\ flashEvent \in BOOLEAN
    /\ banner \in [Target -> BOOLEAN]
    /\ resets \in 0 .. MaxResets
    /\ exited \in BOOLEAN

Init ==
    /\ openocdLock = Nobody
    /\ pc = [t \in Target |-> "prepare"]
    /\ stack = [t \in Target |-> <<>>]
    /\ startRetries = [t \in Target |-> 0]
    /\ attempts = [t \in Target |-> ProgAttempts - 1]
    /\ bootAttempts = [t \in Target |-> 0]
    /\ ntkRetries = [t \in Target |-> 0]
    /\ hwTarget = [t \in Target |-> NoBoard]
    /\ hwPool = Board
    /\ uart = [t \in Target |-> NoBoard]
    /\ uartPool = Board
    /\ uartHwIdMap = [b \in Board |-> IF b \in Saved THEN b ELSE NoBoard]
    /\ flashCount = 0
    /\ flashEvent = FALSE
    /\ banner = [t \in Target |-> FALSE]
    /\ resets = 0
    /\ exited = FALSE

------------------------------------------------------------------------------
(* Control                                                                 *)

At(t, p)   == pc[t] = p
Goto(t, p) == pc' = [pc EXCEPT ![t] = p]

\* with openocdLock / openocdLock.acquire(), and the release.
Acquire(t) == openocdLock = Nobody /\ openocdLock' = t
Release    == openocdLock' = Nobody

Exit == /\ exited' = TRUE
        /\ UNCHANGED <<openocdLock, pc, stack, counters, boards, uarts, flash,
                       banner, resets>>

\* A call of fpgaStart returns to the point the enclosing call left on the
\* stack; the outermost one to boot, and from there to activateEthernet.
Return(t) ==
    IF stack[t] = <<>>
    THEN /\ Goto(t, IF NetworkCheck THEN "network" ELSE "booted")
         /\ UNCHANGED stack
    ELSE /\ Goto(t, Head(stack[t]))
         /\ stack' = [stack EXCEPT ![t] = Tail(stack[t])]

\* fpgaReload: tear down, program the board and start it again.  The frame is
\* where the caller goes on; without one it returns what fpgaReload returns.
Reload(t, frames) ==
    /\ Goto(t, "prepare")
    /\ stack' = [stack EXCEPT ![t] = frames \o stack[t]]

------------------------------------------------------------------------------
(* programBitfile: prepareFpgaEnv, programVcu118, waitForTargetsAndUser    *)

PrepareAcquires(t) ==
    /\ At(t, "prepare")
    /\ Acquire(t)
    /\ Goto(t, "preparing")
    /\ UNCHANGED <<stack, counters, boards, uarts, flash, banner, resets, exited>>

\* A target takes a board the first time; later ones keep theirs.  Vivado may
\* fail to list the boards.
Prepares(t) ==
    /\ At(t, "preparing")
    /\ \/ /\ hwTarget[t] = NoBoard
          /\ \E b \in hwPool : /\ hwTarget' = [hwTarget EXCEPT ![t] = b]
                               /\ hwPool' = hwPool \ {b}
          /\ Release
          /\ Goto(t, IF Mode = "nonPersistent" THEN "program" ELSE "known")
          /\ UNCHANGED <<stack, counters, uarts, flash, banner, resets, exited>>
       \/ /\ hwTarget[t] # NoBoard
          /\ Release
          /\ Goto(t, IF Mode = "nonPersistent" THEN "program" ELSE "known")
          /\ UNCHANGED <<stack, counters, boards, uarts, flash, banner, resets, exited>>
       \/ hwTarget[t] = NoBoard /\ Exit

\* checkThatUartIsKnownForFlash; flashBoot programs nothing.
ChecksUartKnown(t) ==
    /\ At(t, "known")
    /\ IF \E u \in Board : uartHwIdMap[u] = hwTarget[t]
       THEN /\ Goto(t, IF Mode = "flashBoot" THEN "start" ELSE "program")
            /\ UNCHANGED <<openocdLock, stack, counters, boards, uarts, flash,
                           banner, resets, exited>>
       ELSE Exit

ProgramAcquires(t) ==
    /\ At(t, "program")
    /\ Acquire(t)
    /\ Goto(t, "programming")
    /\ UNCHANGED <<stack, counters, boards, uarts, flash, banner, resets, exited>>

\* The next call of programVcu118 has its default number of attempts again.
ProgramSucceeds(t) ==
    /\ At(t, "programming")
    /\ Release
    /\ attempts' = [attempts EXCEPT ![t] = ProgAttempts - 1]
    /\ Goto(t, IF Mode = "nonPersistent" THEN "start" ELSE "flashed")
    /\ UNCHANGED <<stack, startRetries, bootAttempts, ntkRetries, boards, uarts,
                   flashCount, flashEvent, banner, resets, exited>>

\* A changed form of the next definition: the attempts are not counted.
ProgramFailsUncounted(t) ==
    /\ At(t, "programming")
    /\ Release
    /\ Goto(t, "program")
    /\ UNCHANGED <<stack, counters, boards, uarts, flash, banner, resets, exited>>

\* programVcu118 calls itself with one attempt less, or exits.
ProgramFails(t) ==
    /\ At(t, "programming")
    /\ IF attempts[t] > 0
       THEN /\ Release
            /\ attempts' = [attempts EXCEPT ![t] = @ - 1]
            /\ Goto(t, "program")
            /\ UNCHANGED <<stack, startRetries, bootAttempts, ntkRetries, boards,
                           uarts, flash, banner, resets, exited>>
       ELSE Exit

\* A changed form of the next definition: the count is compared too early.
CountsTooFew(t) ==
    /\ At(t, "flashed")
    /\ flashCount' = flashCount + 1
    /\ Goto(t, IF flashCount' + 1 = Cardinality(Target) THEN "askUser" ELSE "waiting")
    /\ UNCHANGED <<openocdLock, stack, counters, boards, uarts, flashEvent, banner,
                   resets, exited>>

\* vcu118FlashCounter.incAndCheck
IncAndCheck(t) ==
    /\ At(t, "flashed")
    /\ flashCount' = flashCount + 1
    /\ Goto(t, IF flashCount' = Cardinality(Target) THEN "askUser" ELSE "waiting")
    /\ UNCHANGED <<openocdLock, stack, counters, boards, uarts, flashEvent, banner,
                   resets, exited>>

WaitForEverything(t) ==
    /\ At(t, "waiting")
    /\ flashEvent
    /\ Goto(t, "start")
    /\ UNCHANGED <<openocdLock, stack, counters, boards, uarts, flash, banner,
                   resets, exited>>

\* The user power cycles the boards and presses Enter.
UserIsReady(t) ==
    /\ At(t, "askUser")
    /\ flashEvent' = TRUE
    /\ Goto(t, "start")
    /\ UNCHANGED <<openocdLock, stack, counters, boards, uarts, flashCount, banner,
                   resets, exited>>

------------------------------------------------------------------------------
(* fpgaStart: openocd, then setupUart                                      *)

StartAcquires(t) ==
    /\ At(t, "start")
    /\ Acquire(t)
    /\ Goto(t, "openocd")
    /\ UNCHANGED <<stack, counters, boards, uarts, flash, banner, resets, exited>>

OpenocdStarts(t) ==
    /\ At(t, "openocd")
    /\ Goto(t, "uart")
    /\ UNCHANGED <<openocdLock, stack, counters, boards, uarts, flash, banner,
                   resets, exited>>

\* Starting again is one more use of the retries.
RetryStart(t, frames) ==
    /\ startRetries' = [startRetries EXCEPT ![t] = @ + 1]
    /\ Reload(t, frames)
    /\ UNCHANGED <<attempts, bootAttempts, ntkRetries, boards, uarts, flash,
                   banner, resets, exited>>

\* A changed form of the next definition: the lock is kept over fpgaReload.
OpenocdFailsHolding(t) ==
    /\ At(t, "openocd")
    /\ SpawnFails
    /\ UNCHANGED openocdLock
    /\ startRetries[t] < StartRetriesMax - 1
    /\ RetryStart(t, <<>>)

\* A changed form of the next definition: the index is not increased.
OpenocdFailsUncounted(t) ==
    /\ At(t, "openocd")
    /\ SpawnFails
    /\ Release
    /\ Reload(t, <<>>)
    /\ UNCHANGED <<counters, boards, uarts, flash, banner, resets, exited>>

OpenocdFails(t) ==
    /\ At(t, "openocd")
    /\ SpawnFails
    /\ IF startRetries[t] < StartRetriesMax - 1
       THEN Release /\ RetryStart(t, <<>>)
       ELSE Exit

\* A changed form of the next definition: removeUartDevice is forgotten.
TakeUartKeeps(t, u) ==
    /\ uart' = [uart EXCEPT ![t] = u]
    /\ uartHwIdMap' = [uartHwIdMap EXCEPT ![u] = hwTarget[t]]
    /\ Goto(t, "gdb")
    /\ UNCHANGED <<openocdLock, stack, counters, boards, uartPool, flash, banner,
                   resets, exited>>

TakeUart(t, u) ==
    /\ uart' = [uart EXCEPT ![t] = u]
    /\ uartPool' = uartPool \ {u}
    /\ uartHwIdMap' = [uartHwIdMap EXCEPT ![u] = hwTarget[t]]
    /\ Goto(t, "gdb")
    /\ UNCHANGED <<openocdLock, stack, counters, boards, flash, banner, resets, exited>>

UartKnownFor(t) == {u \in Board : uartHwIdMap[u] = hwTarget[t]}

\* setupUart: a target that has a UART uses it again; the last UART in the
\* pool is taken as it is; otherwise one that is associated with the board.
\* Whichever it is, startUartSession may be unable to open it.
SetsUpUart(t) ==
    /\ At(t, "uart")
    /\ \/ Exit
       \/ /\ uart[t] # NoBoard
          /\ Goto(t, "gdb")
          /\ UNCHANGED <<openocdLock, stack, counters, boards, uarts, flash, banner,
                         resets, exited>>
       \/ /\ uart[t] = NoBoard
          /\ uartPool = {}
          /\ Exit
       \/ /\ uart[t] = NoBoard
          /\ \E u \in uartPool : uartPool = {u} /\ TakeUart(t, u)
       \/ /\ uart[t] = NoBoard
          /\ Cardinality(uartPool) > 1
          /\ \E u \in UartKnownFor(t) :
               IF u \in uartPool THEN TakeUart(t, u) ELSE Exit
       \/ /\ uart[t] = NoBoard
          /\ Cardinality(uartPool) > 1
          /\ UartKnownFor(t) = {}
          /\ Goto(t, "smoke")
          /\ UNCHANGED <<openocdLock, stack, counters, boards, uarts, flash, banner,
                         resets, exited>>

\* findTheRightUartDevice runs a program that prints the board's name ...
SmokeStarts(t) ==
    /\ At(t, "smoke")
    /\ Goto(t, "search")
    /\ UNCHANGED <<openocdLock, stack, counters, boards, uarts, flash, banner,
                   resets, exited>>

\* ... through gdbProgStart(mainProg=False), which may have to reload: the
\* search then goes on in the middle of a call that lost the lock.
SmokeFailsToStart(t) ==
    /\ At(t, "smoke")
    /\ SpawnFails
    /\ IF startRetries[t] < StartRetriesMax
       THEN Release /\ RetryStart(t, <<"search">>)
       ELSE Exit

\* A changed form of the next definition: any UART that is left will do.
SearchTakesAny(t) ==
    /\ At(t, "search")
    /\ \E u \in uartPool : TakeUart(t, u)

\* Only the UART of the target's own board receives the text, if at all.
SearchFinds(t) ==
    /\ At(t, "search")
    /\ hwTarget[t] \in uartPool
    /\ TakeUart(t, hwTarget[t])

SearchFindsNothing(t) == At(t, "search") /\ Exit

------------------------------------------------------------------------------
(* gdbProgStart for the main program, and the boot                         *)

GdbStarts(t) ==
    /\ At(t, "gdb")
    /\ Goto(t, "connect")
    /\ UNCHANGED <<openocdLock, stack, counters, boards, uarts, flash, banner,
                   resets, exited>>

\* The comparison lacks the "- 1" of OpenocdFails.
GdbFails(t) ==
    /\ At(t, "gdb")
    /\ SpawnFails
    /\ IF startRetries[t] < StartRetriesMax
       THEN Release /\ RetryStart(t, <<"boot">>)
       ELSE Exit

\* gdbConnect and softReset; the lock is released before the load.
Connects(t) ==
    /\ At(t, "connect")
    /\ \/ /\ Release
          /\ Goto(t, "load")
          /\ UNCHANGED <<stack, counters, boards, uarts, flash, banner, resets, exited>>
       \/ Exit

\* gdbLoad (nothing to load in the flash modes) and continueGdb: the board
\* boots and prints its banner, or does not.
Loads(t) ==
    /\ At(t, "load")
    /\ \/ /\ banner' \in {[banner EXCEPT ![t] = seen] : seen \in BOOLEAN}
          /\ Goto(t, "boot")
          /\ UNCHANGED <<openocdLock, stack, counters, boards, uarts, flash, resets,
                         exited>>
       \/ Exit

\* fpgaStart waits for "bbl loader" on bluespec_p3 and starts again without it.
ChecksBoot(t) ==
    /\ At(t, "boot")
    /\ IF banner[t] \/ ~BootCheck
       THEN /\ banner' = [banner EXCEPT ![t] = FALSE]
            /\ Return(t)
            /\ UNCHANGED <<openocdLock, counters, boards, uarts, flash, resets, exited>>
       ELSE IF bootAttempts[t] < BootAttemptsMax - 1
       THEN /\ bootAttempts' = [bootAttempts EXCEPT ![t] = @ + 1]
            /\ Goto(t, "start")
            /\ UNCHANGED <<openocdLock, stack, startRetries, attempts, ntkRetries,
                           boards, uarts, flash, banner, resets, exited>>
       ELSE Exit

\* activateEthernet on FreeRTOS: a board without a network is reloaded.
ChecksNetwork(t) ==
    /\ At(t, "network")
    /\ \/ /\ ntkRetries' = [ntkRetries EXCEPT ![t] = @ + 1]
          /\ Goto(t, "booted")
          /\ UNCHANGED <<openocdLock, stack, startRetries, attempts, bootAttempts,
                         boards, uarts, flash, banner, resets, exited>>
       \/ /\ ntkRetries[t] + 1 < NtkRetriesMax
          /\ ntkRetries' = [ntkRetries EXCEPT ![t] = @ + 1]
          /\ Reload(t, <<"network">>)
          /\ UNCHANGED <<openocdLock, startRetries, attempts, bootAttempts, boards,
                         uarts, flash, banner, resets, exited>>
       \/ ntkRetries[t] + 1 >= NtkRetriesMax /\ Exit

\* resetTarget: a new target object (its indices at 0), the same settings.
Resets(t) ==
    /\ At(t, "booted")
    /\ resets < MaxResets
    /\ resets' = resets + 1
    /\ startRetries' = [startRetries EXCEPT ![t] = 0]
    /\ bootAttempts' = [bootAttempts EXCEPT ![t] = 0]
    /\ ntkRetries' = [ntkRetries EXCEPT ![t] = 0]
    /\ Goto(t, IF ProgramOnReset THEN "prepare" ELSE "start")
    /\ UNCHANGED <<openocdLock, stack, attempts, boards, uarts, flash, banner, exited>>

------------------------------------------------------------------------------
Programs(t) == \/ PrepareAcquires(t) \/ Prepares(t) \/ ChecksUartKnown(t)
               \/ ProgramAcquires(t) \/ ProgramSucceeds(t) \/ ProgramFails(t)
               \/ IncAndCheck(t) \/ WaitForEverything(t) \/ UserIsReady(t)

Starts(t) == \/ StartAcquires(t) \/ OpenocdStarts(t) \/ OpenocdFails(t)
             \/ SetsUpUart(t) \/ SmokeStarts(t) \/ SmokeFailsToStart(t)
             \/ SearchFinds(t) \/ SearchFindsNothing(t)
             \/ GdbStarts(t) \/ GdbFails(t) \/ Connects(t) \/ Loads(t)
             \/ ChecksBoot(t) \/ ChecksNetwork(t)

Stopped ==
    /\ exited \/ \A t \in Target : pc[t] = "booted"
    /\ UNCHANGED vars

Next ==
    \/ ~exited /\ \E t \in Target : Programs(t) \/ Starts(t) \/ Resets(t)
    \/ Stopped

Spec == Init /\ [][Next]_vars

\* The threads run, every wait inside an operation has a timeout, and the user
\* presses Enter when asked to.
FairSpec == Spec /\ \A t \in Target : WF_vars(~exited /\ (Programs(t) \/ Starts(t)))

------------------------------------------------------------------------------
(* Properties                                                              *)

\* Two targets never program a board, start openocd, search for a UART or
\* connect gdb at the same time, but for a search that was resumed after a reload
\* (gdbProgStart gave the lock up in the middle of it): the start inside the
\* reload took the target its UART, so that this search can find nothing, leads
\* to the exit and never to a release of a lock that is another target's.
LockProtects ==
    \A t \in Target : pc[t] \in Protected =>
        \/ openocdLock = t
        \/ pc[t] = "search" /\ uart[t] = hwTarget[t] /\ hwTarget[t] \notin uartPool

\* "to avoid deadlocks in case of retries (use of fpgaReload)": a thread that
\* is about to take the lock does not hold it already, whatever path of failed
\* starts and reloads led it there.
NeverSelfLocks ==
    \A t \in Target : pc[t] \notin Protected => openocdLock # t

\* Two targets never drive the same board, and a target's UART is the one of
\* the board it programs: also after searches cut short by other targets, with
\* some associations saved earlier, and for the last UART, taken unseen.
OwnBoardOwnUart ==
    \A t \in Target :
        /\ \A u \in Target \ {t} : hwTarget[t] = hwTarget[u] => hwTarget[t] = NoBoard
        /\ uart[t] \in {hwTarget[t], NoBoard}

\* Nobody starts before every target was programmed and the user power cycled
\* the boards (vcu118FlashCounter), the first time.
StartsAfterPowerCycle ==
    Mode = "flashProgramAndBoot" =>
        \A t \in Target : pc[t] \in {"start", "openocd", "uart", "gdb", "connect",
                                     "load", "boot", "network", "booted"} =>
            flashEvent /\ flashCount >= Cardinality(Target)

\* Every target comes up, again and again after resets, or the tool exits: no
\* retry goes on for ever and nobody waits for ever for the lock, for another
\* target's flash or for the user.
AllComeUp == \A t \in Target : []<>(exited \/ pc[t] = "booted")

==============================================================================
