# BESSPIN Tool Suite: specifications, model checking and proofs

The BESSPIN tool suite (`src/besspin.py`, `src/besspin/`) launches targets (QEMU,
VCU118 boards, AWS F1 instances), runs applications and security evaluations on
them, and keeps a network of three of them alive for the cyber-physical
demonstrator.  The tool itself is a Python program with a few places where threads,
retries and shared settings make it hard to see that it is right; what runs on the
targets and around them are C servers, FreeRTOS applications and Arduino sketches.
This directory holds TLA+ models of those places, the TLC configurations that check
them and TLAPS proofs of every safety property that is checked.

Paths and line numbers are those of the repository; in the Python part `launch.py`
alone is `besspin/cyberPhys/launch.py`, `common.py` is `besspin/target/common.py`.

## 1. Inventory

`PROJECT.json` ("components") lists every part of the repository with its status.
The parts with control worth modelling:

| Part | State it keeps | Operations | Interacts through | Hard because | Correct when |
|---|---|---|---|---|---|
| TTY ownership (`launch.py` 179-270, `TtyLogger`, `target/launch.py` 276-350) | `isUartPiped`, `isTtyLogging`, `ttyLogger`, `uartSocatProc`, the target object | start/stop piping, start/stop logging, reset, end | settings store, pexpect process, `socat` | main, shell and watchdog threads, no lock | one owner per terminal; the tool boots and shuts down alone; flags tell the truth; nothing is left |
| cyberPhys session (`launch.py` 41-122, `interactive.py`, `watchdog.py`, `run.py`) | three bounded queues, the threads, components and their stop events | start, shell commands, heartbeat failure, end | queues, zmq messages | five kinds of threads end each other | no put blocks; the end waits for everyone; an exit ends the session |
| One thread per target (`launch.py` 139-176) | the kwargs dictionary | the five per-target calls | the dictionary shared by the threads | the dictionary is refilled while threads start | calls do not overlap; every target is launched or the tool exits |
| VCU118 boards (`target/fpga.py`, `target/vcu118.py`, `threadControl.py`) | `openocdLock`, flash counter, pools of boards and UARTs, retry counters | program, start, search the UART, connect, boot, reload, reset | lock, counter, settings | a lock taken in one method and released in another; recursion on retries | the lock protects, is never taken twice; everybody comes up or the tool exits |
| Target commands (`common.py`) | the process, `isCurrentUserRoot`, SSH and termination flags, retry counters | runCommand, interrupt, sendFile, switchUser, SSH, shutdown, terminate | pexpect processes, a netcat thread | mutual recursion through error paths | every session ends; flags are not stale; powered off once |
| Infotainment server (`cyberPhys/infotainment-server`) | the state of the music, the position, the local address | buttons, positions, heartbeats, SIGINT | UDP broadcasts heard by everybody | several servers relay the same datagrams; a signal during a blocking read | state and volume agree; the servers agree when it is quiet; a stop ends the loop |
| ECU (`srcFreeRTOS/main_besspin.c`, `Smartcar_Shifter_3xI2C.ino`, `canlib`) | the readings, a mutex, error counters; the sketch's buffers | sample, poll, reset a bus, send, answer, reassemble | I2C, CAN over UDP, shared variables | torn samples, a bus that hangs on either side, start-up order | readings settle; a bus recovers; long messages arrive whole |
| Instrument cluster and speedometer (`cyberPhys/arduino`) | the messages under construction; a count of steps | a record, a blink, a silence; a speed, a reset | serial port, CAN, a motor without feedback | a thread and a loop change one byte; lines are read together | silence heals; the needle is where the sketch believes it to be and settles |
| OTA update server (`cyberPhys/ota-update-server`) | the table of connections, the update under construction | poll, accept, read, upload, verify, SIGTERM | TCP | requests in pieces; one global update for all clients | every client holds one place; an update is whole; everyone is answered |
| FreeRTOS servers of the bug bounty (`fett/freertos`) | the TFTP transfer, the page, the file system's lock, the list of web clients | blocks, updates, GET, POST, STOP | UDP, TCP, one file system | lost and doubled packets; two tasks over one disk; no memory | a file is received whole or not at all; a page is of one version; a STOP ends all |
| Message server with a cache (`cwesEvaluation/informationLeakage`) | the stores, one cached object, its place and its dirty flag | GET, SET, eleven functions | one object evicts the other | several gets per function, partial writes, dirty evictions | the cache cannot be told from a memory |
| Settings store (`misc.py` 152-214) | a dictionary | get, set, per-target set | every thread | `setSettingDict` reads and writes back | no write is lost |
| Director, simulator, pollers (`cyberphyslib/demonstrator`) | state machine, component threads | input, messages, transitions | zmq messages, CAN | timers against messages | every state is left or answered |
| CWE evaluation runs and scoring (`cwesEvaluation`) | test queues, scores | run a test, reset, score | target objects | failures in mid-run, multitasking | every test gets one score |
| CI / instance manager (`ci/awsPseudoCi`) | instances, queue messages | start, poll, terminate | AWS, SQS | repeated and late messages | every instance is terminated |
| Configuration (`base/config.py`) | settings | validate | - | data | - |

Vendored sources, generated and single-purpose CWE test programs (inputs of the
tool), build scripts and user interfaces are left aside.

## 2. Plan

Order: what moves targets and what can hang first, then what runs on the targets.

1. Done and proved: `TargetTty`, `VcuBoards`, `ThreadPerTarget`, `CyberPhysMain`,
   `TargetLifecycle` (the tool); `Infotainment`, `Canlib` with `Ecu`, `InstrumentCluster`, `Speedometer`,
   `UpdateServer` (the demonstrator); `FileTransfer`, `Tftp`, `FettServers` (the FreeRTOS
   application); `Store`, `CachedStore` (the message server).
2. Left, in this order: the FreeRTOS test loop and the multitasking scheduler of the CWE
   runs; the director of the demonstrator with its component pollers.

Abstract specifications: `FileTransfer`, a file taken whole or not at all, which
`Tftp` implements; `Store`, a memory with one step per message, which `CachedStore`
implements.  `FettServers` extends `Tftp`, so the refinement is checked and proved of
the whole application as well.

How the modules meet.  `ThreadPerTarget` is the outer loop of a cyberPhys session
(which thread works on which target).  What such a thread does is in `VcuBoards`
(bringing the board up) and `TargetTty` (handing its terminal over).
`CyberPhysMain` is the part between launch and end; a "handling" component of it is
the watchdog job "reset" of `TargetTty`.  `TargetLifecycle` is the session of one
target in fett mode.  These are checked apart because their shared state is small:
targets share nothing in `TargetTty` (all its settings are per target), and nothing
of the queues is touched by a reset.  `Ecu` extends `Canlib`, the library it and its
peers use.  The infotainment servers, the ECU, the sketches and the update server
meet on the network of the demonstrator only through messages that each module's
environment sends in any order.  The two sketches of `MCDashboard` share
nothing but the simulator and are put in one run for that reason.

## 3. Modules

### TargetTty

One target's terminal and the three threads that move it.  `phase` follows
`startCyberPhys` and `endCyberPhys` (41-136); `job`, `proc` and `at` say what a
thread is doing, in which of the functions `startUartPiping`, `endUartPiping`,
`startTtyLogging`, `stopTtyLogging`, and at which point between two reads or writes
of shared state.  `tgt`, `vic` and `log` are the local variables a thread captured
(they may be stale).  `isUartPiped`, `isTtyLogging`, `targetObj`, `ttyLogger` are
settings; a logger (`loggerState`, `loggerOf`, `loggerStop`) is a `TtyLogger`
thread; `socatState`, `socatOf`, `client` a `socat` with the child it forks per
client.  `resetTarget` is the job "reset": take the terminal back, tear down, make
a new object, boot, hand over, type the network commands.  The error
exits of `resetTarget` and of the piping set `exited` to their cause.

Every job carries the number of the shell command it stems from, so all sets are
finite for a given `MaxCmds`, the only bound.  Nothing makes the shell wait for a reset,
so jobs of the shell and of the watchdog interleave at every point.  `raced` is a
history variable: the numbers of the jobs that ran beside another one.  The
properties speak of the jobs that did not, and of what a reset that runs alone
puts right.

### CyberPhysMain

`main` walks through `startCyberPhys`; `heartbeat`, `interact` and `endInteract`
are the other threads; `component` holds the watchdogs (1..NTargets) and the relay
manager (0), each with a `stopEvt` and what it `received`; the three queues are counters or
short sequences with their real bounds.  `Resumed` is the loop of `Component.run`
taking one more message after `stop_evt`.  What a reset does is in `TargetTty`;
here it takes its time or exits.  The specification is `SessionSpec`.  Left out: contents of heartbeats, the watchdog's
poller (nothing starts it, see (e) in section 6), printing shell commands.

### ThreadPerTarget

`tKwargs[c]` is the one dictionary that call `c` shares among its threads, as in
`launch.py` 139-176; `got` is what a thread unpacked when it was scheduled.  `Calls`
are the five uses; the two that make a single thread have no per-target argument and
are left out.  `targetObj` records which targets `startBesspin` has launched, `place` is where the
main thread is in its loop, and the specification is `CallsSpec`.

### VcuBoards

Each thread has a program counter through `prepareFpgaEnv`, `programBitfile`,
`fpgaStart`, the UART search (`findTheRightUartDevice`, `smoke`), `gdbProgStart`,
loading, booting, the network check, and `fpgaReload`, with a stack of the calls to
return to.  `openocdLock` is taken and released where the code takes and releases
it, including the release in the error paths.  `flashCount` and `flashEvent` are
the `Counter` of `threadControl.py` 45-75.  Not followed: `tftpLock`, `networkLock`
(each held over straight-line code with no second lock inside), console methods.

### TargetLifecycle

`commonTarget` as call stacks: a frame is a position in one of the methods with
its arguments `exitOnError`, `issueInterrupt`, `overrideShutdown` and process.
`Sends`, `Answers`, `TimesOut` and `Eof` are `runCommand` with `sendToTarget` and
`expectFromTarget`; `Interrupt*` are `keyboardInterrupt`; `Terminate*`,
`Shutdown*`, `PowersOff`, `TearDown*` the methods of the same names; likewise
`SwitchUser*`, `Open*`, `Close*`, `EnableRootSteps`, `SendFile*`.  `Open*` includes ssh's
question whether to trust a new host and the "yes" to it (`common.py` 1296-1301).  `Terminate`
replaces the whole stack because `terminateAndExit` does not return.  The target is
`tty` and `ssh`, what the two processes show.  A time-out may come whatever the
target shows, and a process may end at any moment.  A listener (netcat on the
target) is a second thread with a stack of its own.

Assumed configuration: debian on QEMU in a fett mode, user created, no
`openConsole`, not `bluespec_p3`, not `onlySsh`.  The session (`Script`) is
`sendTar`, the deployment test of `fett/unix/ssh.py`, then `endBesspin`; the other
application tests send commands of the kinds it has.  One timing is assumed: the
join on the listener (`timeout+5`, made five seconds after its start, `common.py`
823-826) expires after the listener's command did and its interrupt began.

### Infotainment

Several servers on one broadcast segment.  `st` is `the_state` of each, `inbox` its
socket buffer, `pc` whether it waits in `receive_frame`, has not begun or has ended.
`ServerStep` takes one datagram through the whole handler: the button, position or
heartbeat code with the broadcasts that follow it.  A broadcast reaches each socket
that has room, so relays come back to their sender, overtake one another and are
lost when a buffer is full (`relayLost`).  `Interrupt` is the signal handler at any
point, before `initialize` included.  A float is tagged as in network or host order,
so that a missing conversion shows.

### Canlib, Ecu, MCEcu

`Canlib` is the framing of the C library with its widths: identifiers, the
announcement and the data frames of a long message, reassembly, bytes nobody wrote.
`Ecu` is one car: the Shifter's loop with the interrupt that may fire between its
copies (`clock`, `data`), the I2C bus with a hang of either side (`bus`), and the
tasks `prvMainTask` with the network hook, `prvSensorTask`, `prvInfoTask` and
`prvCanRxTask`, with `data_mutex` and the globals they share.  The scaling keeps its
16 bits.  Time is `quiet`, rounds since the last I2C transaction.  `tmp` is the reading
that `prvSensorTask` broadcasts; the peers send heartbeat requests, other frames and
long messages.

### InstrumentCluster, Speedometer, MCDashboard

`InstrumentCluster` has the main loop in steps (`loop`, `serialEvent`,
`toggle_headlight_state`) and the blinking thread, each of which loads and stores the
byte D1 in two steps.  A record is two halves because `readBytes` may return the
first alone.  `silent` is the time since the last record, in delays of a turn
signal; a delay lasts several rounds of the loop (`EnoughRounds`), each of which sends
the messages.  `RearLights` chooses between the two sketches.  `Speedometer` keeps
the sketch's count (`stepper_position`) next to the needle (`needle`), which stops at
the ends of the gauge while the count goes on; lines that arrive while the motor
turns are joined, as `inputString` is.

### UpdateServer, MCUpdateServer

The poll loop with `poll_list` (`slot`), what `malloc` left in the place that is not
cleared (`found`), the accept, the read of one client, the HTTP requests `PATCH
filename/file/signature` and the loop that takes the rest of an upload.  A request
arrives in one or two pieces, from a client that may still be in the backlog or whose
connection was forgotten.  `session` is a history variable: whose requests built
the update up so far, if nobody else's came in between; `dropped` is another: whose
last request was a PATCH of an unknown path.  `Answered` says of every client that it
is answered, and names the three that may not be: that one, one that was forgotten,
and one in the backlog of a server whose places stay held.

### FileTransfer, Tftp, FettServers, MCFett

`Tftp` is `TFTP_Receive_One_File` with its retries (`srv`, `xRetries`), the clients
on the host, and the packets in flight as two sets: a packet is delivered once or,
at the cost of a fault, again; lost, late, from a stranger.  The buffer is counted in
blocks; a file of exactly its size fills it and ends with a block of no bytes
(`EndsEmpty`), which has room when nothing else has.  `FettServers` puts it
inside the update task and adds `vMain` with its notification bits, the web server
with its list of clients, the lock of the file system and its memory.  The page is
`Pieces` pieces, each with the name of the file it came with, so that a mixture of
two versions shows.  `exitBesspin` sets `ended` and `stopRequested`.  An asset that
cannot be opened or written is logged and vMain goes on, so there may be no page
(`Missing`) or a short one, and an update may be written short: `badDisk` remembers
that the last writing failed.  An `ff_fopen` that fails loses its `FF_FILE`.

### StoreMessages, Store, CachedStore, MCStore

`StoreMessages` has the data (an object is two pieces with or without a NUL between
them), the messages and what each function of `functions/*.c` reads and answers.
`CachedStore` serves one message as a sequence of `store_get()` calls, each a hit or
an eviction, and a closing answer or `store_set()`.  `Store` answers in one step from
a plain memory.  The build is the one with `NO_WEAKNESS`; offsets are 0.  What `sysconfig()`
answers hangs on the object it reads: `Asks` says for each text of the users which of
`SYSTEM_CONFIG` and `USER_CONFIG` the first `:` in it leads to, or that the text is too
long for `id[10]`.  Then, and for the domain -1, for which the id is never written, either
answer or the end of the program (`Overrun`) may come.

### The MC modules

A module whose parts share no variable, or whose parts need different inputs to be
interesting, is checked in scenes: the MC module chooses one at the start and lets
the environment do only what belongs to it: which clients call, which files they
have, whether something fails.  In `MCEcu` and `MCDashboard` the tasks of the other
scenes stand still; they share no variable with the one that is followed, or only the
mutex, which the scene "watch" is for.  In `MCFett` the scene "pages" (a browser beside an
update) leaves out the time-outs of TFTP and the scene "packets" the browsers: a
time-out changes nothing that a browser reads before the transfer is over.

## 4. Runs

Bounds are the constants of each `.cfg`; nothing else is cut off.  A property that is
a conjunction is named with its parts.

| Run | Properties | Bounds, and why they are enough |
|---|---|---|
| `tty_piped` | `HandedOverOnce`; `DrivesAlone`; `PipingInv` = `TypeOK`, `SettingsTellTruth`, `NothingLeft`, `PipingExitsInRacesOnly`; `JobsFinish` | 3 commands: a stop, a start and a reset in any order and beside one another, or two that race and a reset that heals; the proofs lift the bound for the first three |
| `tpt_all` | `CallsInv` = `CallsTypeOK`, `NeverEarlier`, `CallsDoNotOverlap`, `EndsInOrderOnlyWithAllTargets` | 3 targets, as in the demonstrator; the proof lifts it |
| `boards_flash` | `NeverSelfLocks`, `StartsAfterPowerCycle`, `AllComeUp` with the flash | 2 targets, 3 boards; 3 retries of openocd and gdb, the code's values; the UARTs are known, so nobody searches |
| `boards_reset` | `OwnBoardOwnUart`, `LockProtects`, `AllComeUp` with resets, boot retries, reloads and failing smoke tests | 2 targets, 2 boards of which one is known: the other target searches, or takes the last UART unseen, or resumes its search without the lock beside the first one; 1 reset, 1 or 2 retries: a first, a repeated and an exhausted attempt |
| `main_session` | `SessionInv` = `SessionTypeOK`, `PutsNeverBlock`; `ReturnsAlone`; `ExitEndsSession` | 1 target (with 2 the second watchdog fails, see section 6), 3 restarts: more than the inbox of a component that is handling one; the proofs lift both for `SessionInv` and `ReturnsAlone` |
| `life_session` | `CallInv` = `TypeOK`, `InterruptFlagFresh`, `PowersOffOnce`, `FlagTellsUserInOrder`; `OrderlyEnd`; `SessionEnds` | every limit 2 (3 in the code): a first, a repeated and an exhausted attempt of each loop; all limits 3 give the same verdict, and the proofs lift them for `CallInv` and `OrderlyEnd` |
| `infotainment` | `RelayInv` = `TypeOK`, `VolumeConsistent`, `MusicShown`; `QuietMeansAgreement`; `StopEnds` | 2 servers that relay to each other, 3 frames from outside, 2 datagrams to a buffer (so that it overflows), 1 interrupt; volumes 0 to 2 with both ends |
| `ecu` | `EcuInv` = `TypeOK`, `InfoConsistent`, `LongArrives`, `AcksFollowRequests`; `NotificationHeld`; `BusRecovers`; `Settles` | 2 positions of lever and pedals at the ends of their ranges, 1 move, 1 hang of either side, messages of 9, 14 and 15 bytes (a partial frame, an exact one, one byte more), 2 messages |
| `dashboard` | `ClusterInv` = `ClusterTypeOK`, `DarkIsDark`; `SpeedometerInv` = `SpeedometerTypeOK`, `NeedleWhereBelieved`; `SilenceHeals`; `NeedleSettles` | 2 records, each whole or cut in two; speeds 0, 45 and 120, both ends of the scale and one that no quarter divides; 1 "x" |
| `update_server` | `ServerInv` = `TypeOK`, `EveryClientHeld`; `UpdatesAreWhole` = `BuiltUp`, `OnlyWholeFilesRun`; `Answered` | 3 clients for 2 places, one signal; 2 clients that update at once with 6 requests, 3 each |
| `fett` | `ServersInv` = `TypeOK`, `PageIsSigned`, `OneVersion`, `EndsWell`; `WholeOrNothing`; `AckedIsKept`; `TransferEnds`; `StopEnds` | files that fit, are one block too long, are exactly as large as the buffer (and forged), are STOP; 2 faults, so that a loss meets a duplicate; the code's 3 retries; a page of 2 pieces; memory for 2 files and 2 browsers |
| `store` | `CacheInv` = `TypeOK`, `EntriesKeepNames`, `CacheIsOfItsPlace`; `TextsStayHome`; `MemorySpec` | 2 users with 2 objects each, 3 to 5 messages, the most for those that move what the system store holds; the text of one user is the `1:S` of `tests/systemconfig.c`, which `sysconfig()` answers with the other configuration; the proofs lift the bounds |

Deadlock checking is on where the module has a `Stopped` action for the states in which
the program has ended.  It is off in `dashboard`, `ecu`, `fett`, `infotainment`,
`store` and `update_server`: there the environment's bounded inputs run out, and a
sketch or a server that has nothing to do stands still.

What the properties mean for the code is in the comment above each.  In short:

* A job that runs beside no other hands the terminal over once and takes it back; a
  pipe command typed during a reset can leave a second owner that no setting names.
  From the next reset that runs alone on the settings tell the truth about the
  current target again.  Every job ends.
* No queue of a session can block a putter, and the session's end waits for
  everyone, so targets are shut down by one thread alone.
* `openocdLock`, although taken and released in different methods and re-entered on
  retries, is never taken twice by a thread.  It protects what it should but from a
  search that went on without it after gdb failed (section 6), which only exits.
* The recursion of `common.py` always ends, by its flags alone.
* Servers that hear their own relays agree once the segment is quiet, if none of the
  relays was lost; a server that is told to stop does so at the next frame, not
  before.
* The ECU's readings settle on what lever and pedals say, in spite of torn samples,
  needless resets of the bus and missed polls.
* What the cluster shows after a silence is the state of `setup`, whatever half
  record came last; a needle that is sent one speed again and again gets there.
* An update is built from one client's requests if no other client's came between,
  and a file that broke off is never run.
* A TFTP transfer ends with the client's whole file or with nothing; a client of a
  file that fits hears of its last block only when the file is there.  The two tasks
  never leave with the file system's lock.
* Evictions of the cached object are invisible in every answer.

## 5. Fairness

The tool: weak fairness of each thread's own steps.  Python's scheduler runs every
runnable thread; a boot, a command and a read end because each of them has a timeout.
In `TargetLifecycle` that is per thread and not per outcome: nothing says that a
target ever answers.  `CyberPhysMain` adds no fairness for the user, the message bus
or the targets: nobody owes a command, an exit, a delivery or a death.  In `VcuBoards`
the user eventually confirms the power cycle (`askUser` waits for him; without that
nothing can be said about the boot).  Weak fairness is enough for threads waiting for
`openocdLock`: a thread can take it again only as often as its retry counters allow,
so nobody is overtaken for ever.

The servers: weak fairness of the server's process; the network, the clients and the
signals owe nothing.  `UpdateServer` adds that a client which began a request sends
the rest or leaves (weak fairness of `SendRest`): without it the loop of
`process_patch_file` waits for ever, as the code does.

The ECU: weak fairness of every task and of the Shifter.  Strong fairness of
`ReadGearNow` (the lever repeats its CAN message) and of `SensorReceives` (the Wire is
off for 10 ms of a round of 60 ms and more while the ECU polls at its own pace): each
may be missed often, not always.

The sketches: weak fairness of the loop, the thread and the clock, of the motor, and
of a simulator that goes on sending a speed it holds.

The FreeRTOS application: weak fairness of `vMain`, strong fairness of the two tasks,
which have one priority and share the lock of the file system: FreeRTOS switches
between them and hands a mutex that is given back to the task that waits for it.
Time-outs of the TFTP server are steps of its own task.  Nothing is assumed of the
packets.

## 6. Known disagreements

Met while modelling: places where a document, a comment or a name says one thing and
the code does another.  No run is spent on them; each is part of the model it
concerns, and a property that it would break is stated with the exception.

In the tool:

* A pipe command typed during a reset checks and sets the same two settings as the
  reset does (`launch.py:184,185,244`), and either may pass its check before the other
  sets: the terminal then has two owners, one of which no setting names, and it keeps
  it when the session ends.  `HandedOverOnce`, `DrivesAlone` and `NothingLeft` except
  the jobs that raced and nothing else.
* `runThreadPerTarget` says that the kwargs have `targetId=${iTarget}` for each target
  (`launch.py:148`); all threads share the one dictionary that the loop goes on
  filling (`launch.py:163`), so a late thread may work on a later target.
* "The execution of this method is protected by openocdLock" (`vcu118.py:290`): when gdb
  fails in the smoke test the lock is released (`fpga.py:129`) and the search resumes
  without it.  Such a search always ends in an exit (`LockProtectsCorrect`).
* An exception in a shell command ends the shell's thread only
  (`interactive.py:118`), while main is said to wait "until receiving an error or
  termination" (`launch.py:106`).
* All watchdogs publish on one port, so the second one cannot bind it
  (`watchdog.py:26`), where `docs/base/modes.md:140` has one for each target.
* (a) `resetTarget` hands the terminal over (`target/launch.py:343-346`) and
  only then `runCyberPhys` types its commands on it, although the comment of
  `target/launch.py:133`, at the same call in fettProduction, says "Shoud not
  execute any command after piping start".
* (b) `endUartPiping` kills `socat` (`launch.py:206`), but `fork` (line 191) has
  given each connected client a child that survives and keeps the terminal.  `client`
  is that child; no property counts it as an owner.
* (c) `gdbProgStart` compares its retries with `fpgaStartRetriesMax`
  (`fpga.py:130`), `fpgaStart` with the maximum minus one (line 87); the message of
  line 132 can read `4/3`.
* (d) `vcu118FlashCounter` is never reset, so a reload or reset in
  `flashProgramAndBoot` programs the flash and boots without the power cycle that
  `vcu118.py:749` and `docs/base/configuration.md:53` ask for.  `StartsAfterPowerCycle`
  is about the first time for this reason.
* (e) Nothing calls `start_poller` for a watchdog (`watchdog.py:36`,
  `component.py:340`), so a watchdog never polls its target, as
  `docs/base/modes.md:148,156` say it does.  `watchdogHeartbeatQueue` (`run.py:127`)
  is therefore never read and grows as long as the session.
* (f) When an error over SSH terminates the session, `shutdown` switches to root by
  closing the user's connection and opening root's; `enableSshOnRoot` then finds
  `isCurrentUserRoot` already true (`common.py:173,1405`), does not switch the
  TTY, and types its command as the user.  It times out waiting for root's prompt,
  and the tool exits without an orderly power-off.  `FlagTellsUser` of
  `TargetLifecycle` states the comment of `common.py:73`; it holds outside
  termination (`FlagTellsUserInOrder`).
* (g) When the interrupt of a netcat listener outlasts the join of `sendFile`, the
  main thread interrupts too, finds `keyboardInterruptTriggered` set by the
  listener (`common.py:1011`), and exits although a retry was left.
* (h) A restart published before a component subscribed, or after its thread ended, is
  lost without notice (`interactive.py:121`); `sshRetries` is never reset once it has
  reached its limit (`common.py:1266`); a second thread that terminates returns at once
  because `targetTearDownCalled` is set before the work is done (`common.py:1231`).

In the demonstrator:

* `j1939.c:7` speaks of messages of up to 1785 bytes; the rest of a message is kept in a
  byte (`j1939.c:151`), so one of 256 bytes or more is cut short.
* A SIGINT before `initialize` is overwritten by it (`infotainment_server.c:50`), and a
  heartbeat answered before the first own datagram came back carries the address 0
  (line 298).
* A slave side of the I2C bus that hangs before its first transaction stays so
  (`Smartcar_Shifter_3xI2C.ino:193`); `BusRecovers` excludes it as the code does.  The
  network hook notifies a task handle that may still be NULL (`main_besspin.c:503`).
* In the cluster sketches `headlights = 1` leaves the high beams on, against the
  comment of line 35 of the sketch with rear lights.  While records come without a pause nothing brings a reading
  that began in the middle of one back in step; `SilenceHeals` says what a pause does.
* `server_create` clears the places 0..9 of a list of 11 (`server.c:34`): the last keeps what
  `malloc` returned.  `EveryClientHeld` is about the allocations that left it free.
* A SIGTERM runs `server_destroy` wherever the thread is (`cmd/main.c:18`): outside `poll` the
  server goes on without a listening socket, between `poll` and `accept` it uses one that
  is gone.  A caller that hangs up before it is accepted ends the server
  (`server.c:88`).  A PATCH of a path that is none of the three is dropped without an
  answer (`http.c:140-144`), so its client waits for ever.  Clients that hold all places
  and stay keep the backlog waiting, and `poll` returning at once (`server.c:78`).  A client that began a body and stays silent keeps everybody else
  waiting (`ota.c:91`).

In the FreeRTOS application:

* A page that does not fit the transmit buffer stays open when the lock goes, and its rest
  is read without the lock, although `http_server.c:279` says the file is closed
  and `ff_stdio.h:43-54` asks for that.  `OneVersion` is about the replies that end inside
  the critical section.
* `http.c:51,69` call it "fatal if we can't initialize HTTP assets"; the code prints and
  both tasks start with no page or a short one.  `PageIsSigned` therefore allows a short
  or a missing page after a failed writing, and nothing else.
* A file of exactly 65536 bytes "Should be rejected", says `freertos.py:214`; line 216 then
  expects it on the web server, and `tftp_server.c:303` takes it (`EndsEmpty`).
* `ff_fopen` keeps its `FF_FILE` when the file cannot be opened (`ff_stdio.c:106`), and a
  second GET during a reply replaces the first one's handle (`http_server.c:261`): memory
  runs out, `exitBesspin(1)` follows.  Without memory for a new client the structure is
  used all the same (`tcp_server.c:218`; in the model a crash).
* Without a socket for the transfer a file counts as received with no bytes
  (`tftp_server.c:369`); a port that cannot be bound leaves a socket open each time
  (line 614; sockets are not counted).
* The update task looks at the stop flag only after a request (`ota.c:198`): after an
  `exitBesspin(1)` from elsewhere it stays in `recvfrom`, with the end already printed.

In the message server:

* `stores.h:22-23` names two domains, -1 and -2; `find()` looks both up in the system store
  (`cached.c:99`), so a broadcast replaces the object that `login()` and `classify()` read.
  The refinement therefore has one home for both (`PublicHome`).
* A set of less than an object keeps the tail of the old one on a hit and clears it on a
  miss; `Store` leaves the choice open.
* `sysconfig()` means to append `:U` or `:S` by the domain, but both conditions are `>= 0`
  (`sysconfig.c:32,34`): `:S` is never appended, the domain -1 gets an id that nobody wrote,
  and a text with a `:S` of its own, as in `tests/systemconfig.c:25-31`, gets the system's
  answer.  A text of more than 7 bytes, such as the secret, overruns `id[10]` (line 33): in
  the model either answer or the end, and no other harm to the memory.
* `search()` returns what it found with the size 0.  A `classify()` or `mark_private()` to an
  address beyond the store leaves a dirty object without a place, and the program ends
  at the next eviction (`cached.c:157`; `doomed` in `Store`).

## 7. Proofs

Every theorem is for all values of the constants that satisfy the named assumptions
of the module it is about.

`TargetTty_proofs`, for every `MaxCmds` in `Nat`, both values of `PipeTheUart`
(`ConfigAssumption`) and every interleaving of the three threads:

* `TypeCorrect == Spec => []TypeOK`.
* `HandedOverOnceCorrect == Spec => []HandedOverOnce` and `DrivesAloneCorrect == Spec =>
  []DrivesAlone`, by the invariant `Owned`.
* `PipingCorrect == Spec => []PipingInv`, by `PipingInductive`.

None of these is inductive: a state with no listener but `isUartPiped` false and a
thread past its check could start a second one.  `Owned` has these parts.
`Controlled` is the control: which threads can be inside a job at once (main never
beside another), which functions a job goes through, and in which function each point
is.  `Numbered` is about the numbers of the jobs: no two jobs have one, what a job
created has its number, the target object is not newer than the last command.  `Booted`
says where the target object has a process.  `Lones` says what a job that is alone finds at each point of the four functions:
what it left at the point before.  `Held` is about what such jobs started: the settings
name it, at most one such owner is there, and this survives the jobs that race later,
because none of them gets past the check that sees it (`isUartPiped` in
`startUartPiping` and `startTtyLogging`), so none overwrites the setting that names it,
and the first that clears that setting has ended it.  The proof has a lemma per part
(`SocatKept`, `LoggerKept`, `SocatNew`, `LoggerNew`) and, under each, a step per action.

`PipingInv` claims the converse of `Held`: what a setting promises is there.  `Told`
says so while the session is healed (`Healed`: every job that raced is older than the
target object, so every job under way is alone): between jobs one setting is on
(`Decided`), and its listener listens or its logger drains the current target
(`Listens`, `Drains`), with what is about to be true at each point in between.

`Launch_proofs` is about two modules, `ThreadPerTarget` and `VcuBoards`.

`VcuBoards`, for every finite set of targets, every set of at least as many
boards, all modes, settings and limits (`TargetAssumption`, `SettingsAssumption`).
Each property has an inductive invariant of its own, next to the types:

* `TypeCorrect == Spec => [](TypeOK /\ NtkBounded)`.  The type of `ntkRetries` is not
  inductive alone: `activateEthernet` counts up to its limit, so that it stays in
  range rests on the thread leaving for "booted" there (`NtkBounded`).
* `OwnBoardOwnUartCorrect`, by `Owned`.  The hard case is the last UART in the pool,
  which `setupUart` takes without looking.  Every other UART is the one of some
  target; were one of them the board's own, that target would drive the same board,
  and no two do (`TakesOwnUart`).
* `StartsAfterPowerCycleCorrect`, by `Cycled`: the event is set only where the count
  is complete, and all points after it come from it or from one another, the
  returns from nested starts included.
* `NeverSelfLocksCorrect` and `LockProtectsCorrect`, by `Locked` with `Served`: the
  lock is held exactly by the target inside the region, except in a search resumed
  after a reload ("search" is the one frame that leads back into the region without
  its lock).  Such a target has its UART, taken in the start inside, so the pool the
  search looks through cannot have it (`Owned`) and the search ends in an exit, not
  in a release.

`ThreadPerTarget`, for every number of targets (`NTargetsAssumption`):
`CallsCorrect == CallsSpec => []CallsInv`.  `CallsDoNotOverlap` and `NeverEarlier` say nothing
of the loop; the inductive invariant ties the two together: the threads of earlier
calls are over and those of this call are started up to the loop variable
(`Looped`, `Ordered`), the dictionary has moved at least as far as the threads and is
the thread's own when it is started (`Filled`), and the last call has seen the object
of every target it went past (`Seen`), which is why an orderly end means that all
targets were launched.

`CyberPhys_proofs` is about `CyberPhysMain` and `UpdateServer`, one of the servers of
the network that the session keeps alive.

`CyberPhysMain`, for every number of targets and of restarts (`NTargetsAssumption`,
`MaxCmdsAssumption`): `SessionCorrect == SessionSpec => []SessionInv` and
`ReturnsAloneCorrect == SessionSpec => []ReturnsAlone`.
That a queue has room is not inductive, since nothing in it
says who may still put.  The invariant counts instead: what a queue holds and what was
taken from it is what each thread has put by where it is (`PutsCounted`).  The heartbeat
ends only when told, so the item that ends main's wait is the shell's
(`ShellFirst`), and the components are joined in the order of the list (`InTurn`).

`UpdateServer`, for any clients, places and pieces (`ClientAssumption` names what
is not a client): `ServerCorrect == Spec => []ServerInv` and `UpdatesCorrect == Spec =>
[]UpdatesAreWhole`.  The count is not inductive by itself: the invariant `Counted` says
what it is when the stray eleventh descriptor has been given up and after a signal
has closed places that are freed only later; `Seats` that a connected client has one
place and a place one client; `Reported` that what poll reported is of a place that
still holds who it held.  `Building` says whose upload the thread spins in.

`TargetLifecycle_lemmas` and `TargetLifecycle_proofs`, for all limits of the retries
(`LimitsAssumption`), whatever is answered, times out or is closed, and for every
interleaving of main with the listeners of `sendFile`:

* `CallInvHolds == Spec => []CallInv` and `OrderlyEndHolds == Spec => []OrderlyEnd`.

Neither property says where a thread came from, so neither is inductive.  What a
method of `common.py` may rely on follows from who called it, from the place in the
session where that was, and from the flags that earlier calls left.  The invariant `Inv`
has these in parts, each resting on those before it:

* `Stacks`: every stack is one that the methods can build.  `Link` is the call graph
  (which frame may stand on which) and `Rank` orders the methods so that a call always
  has a lower rank than its caller, from which no method is twice in a stack and the
  bound on its length follows (`Shallow`).  The one call that goes up, `terminateAndExit`,
  replaces the stack; such a stack is `Lost`.
* `Errand`: a thread that terminates switches users and closes connections only for its
  own shutdown, and as which user; `sshRetries` is below its limit while SSH opens.
* `Course`: the n-th call of the session leads to the frames of `Belongs(n)` only, and
  finds and leaves `isCurrentUserRoot` and `isSshConn` as the next call expects.
* `Interrupted`: `keyboardInterruptTriggered` has one owner, who gives it back unless the
  tool terminates.
* `Netcat`: the command of a listener still runs only for the current try and only while
  main is inside the transfer that waits for it, so everything after the first call of the
  session has the terminal for itself.  This is where the assumed timing of the join
  (section 3) is used.
* `Ending`: `attemptShutdownFailed`, `terminateTargetStarted` and the poweroffs count one
  shutdown, whichever thread began it and whatever failed inside it.
* `Closing`: what the last call of the session has done when it returns: poweroff sent,
  terminal closed, target torn down.
* `Screens`: the prompt that the terminals show while nothing terminates, which is what
  `FlagTellsUserInOrder` compares the flag with.

The first module defines them and shows, action by action, whether the action moves the
top frame on, calls, returns or terminates, and which places it can leave in a stack; the
second goes through the parts with these lemmas, most of the work being `CourseStep`,
`EndingStep` and `NetcatStep`.

`Demonstrator_proofs` is about four modules, one after the other.

* The instrument cluster, for any records and stray halves of the right types, any
  number of records and any silence (`HalvesAssumption`, `RecordsAssumption`,
  `SilenceAssumption`): `ClusterCorrect == ClusterSpec => []ClusterInv`.  The backlight
  bits are on in what the cluster was sent because they are on in every copy that
  can become what is sent: the messages under construction, `toggle_headlight_state`'s
  two bytes and, once the thread is past its load, its copy of D1 (`MessagesLit`).
* The speedometer, for every set of speeds, every travel of the gauge that a reset
  can cover and any number of "x" commands (`SpeedsAssumption`, `TravelAssumption`):
  `SpeedometerCorrect == SpeedometerSpec => []SpeedometerInv`.  The invariant `Believed`
  adds that a text beginning with "x" has been counted.  The arithmetic is in lemmas: a
  quarter of the way between two places of the scale is on the scale, and 1420 steps
  down reach the stop from anywhere.
* The infotainment servers, for any servers, buttons, dimensions and positions
  (`VolumeAssumption`, `PosAssumption`, `NamesAssumption`, `BoundsAssumption`):
  `InfotainmentCorrect == Spec => []RelayInv` and `RelaysAgree == Spec =>
  []QuietMeansAgreement`.  Agreement at rest says nothing of the frames on the way; the
  invariant `Agree` does: while no relay is lost there is for each dimension one
  position that every listening server either shows, with no relay of it left in
  its socket, or has as the last relay there, whoever sent it; and the last of a
  server's own relays that its socket holds is the position it shows, which is why
  an echo of its own never moves it back.
* The engine control unit, for any positions of lever and pedals, long messages of 9
  to 100 bytes and any thresholds and bounds (`EcuAssumption`): `EcuCorrect == EcuSpec =>
  []EcuInv`.  The invariant says who holds the mutex at each place (`MutexOwned`), that
  the numbers of the requests answered and of those in the queue form one ascending
  row (`RequestsAscend`), and that the last long message is in the queue with no long
  one behind it, or in the buffer with none in the queue (`LongKept`).  That a long
  message survives the wire is a theorem about `Canlib` alone, `LongRoundTrip`, for
  every message of 1 to 255 bytes, the range of the `uint8_t` counters: each byte is
  in exactly one frame (`OneHolder`), and a frame holds the bytes at its place
  (`PieceOf`).  Its length is read from the same counters, which the lemma `PacketsOf`
  shows not to wrap.

`FettServers_proofs` begins with the transfer (`Tftp`), for every set of clients and files,
every number of blocks, retries and faults and every size of the buffer
(`BlocksAssumption`, `LimitsAssumption`, `NamesAssumption`):

* `TransferCorrect == TftpSpec => WholeOrNothing`, the refinement to `FileTransfer`.  The
  inductive invariant `Kept` says that the buffer holds exactly the first blocks of the
  file of the client whose transfer it is (`Receiving`), whatever packets are in
  flight, and between transfers a whole file or nothing (`Between`).
* `AckedCorrect == TftpSpec => AckedIsKept`, and `TftpTypeCorrect`, which needs `Patient`,
  the bound on the retries, as well.

and goes on to the whole application, for every number of browsers, pieces and files in memory: `ServersCorrect == Spec => []ServersInv` and
`TransferInServers == Spec => WholeOrNothing`.  `StepsAreTftp` shows that every step of the
application is one of `Tftp`, a fault or leaves its variables alone, so `Kept` and
`Patient` are inherited.  The rest of the invariant: the lock is with the task that is
between taking it and giving it back (`Owns`); from the verification to the last write
the buffer is a signed update, and the page what was written of it (`Paged`); outside
it the page is the first pieces of one file, all of them unless the last writing failed
(`PageOfOne`); the answer under the lock agrees with the page piece by piece, and what
is left of it is what is left of the page (`Served`); the open files
are among those allocated (`Allocated`); and a task notifies once, when it is over
(`Ending`), from which an end with code 0 follows only on a STOP message.

`CachedStore_proofs`, for any numbers of domains and objects (at least two objects),
any texts, whatever `sysconfig()` makes of them, and any messages (`SizesAssumption`,
`TextsAssumption`, `AsksAssumption`, `MessagesAssumption`): `CacheCorrect == Spec => []CacheInv` and `CacheIsMemory == Spec =>
MemorySpec`, the refinement to `Store`; with `AuthorAssumption` (a text is put into messages
of one domain) also `TextsCorrect == Spec => TextsStayHome`.  The memory is `View`, in which the dirty copy
stands for its place.  The lemmas say that a find finds the place of a domain and an
object and no other (`FindIs`), and that a write-back leaves the view as it is.  The
invariant adds `Serving`: what the gets of a running message have returned is what
the view holds at their places now, although each of them may have evicted the one
before.  So the last step of a function is the one step of `Store`, and all before
it are stutters.  For `TextsStayHome` the invariant is the same: a text new among a
domain's objects comes from the message, of whom it is, or from what the gets have
returned, which by `Serving` is the domain's own or the system object's.

Only model-checked: all liveness (`JobsFinish`, `ExitEndsSession`, `AllComeUp`,
`SessionEnds`, both `StopEnds`, `NotificationHeld`, `BusRecovers`, `Settles`,
`SilenceHeals`, `NeedleSettles`, `Answered`, `TransferEnds`), which needs fairness and so
`ENABLED`.  Every other property of a run is a theorem, under the assumptions
named with it.

## 8. Not modelled

The components with status `not_modelled` in `PROJECT.json`, with the reason at each.
In short: the AWS F1 and QEMU launchers, the builds, the configuration and the entry
point are sequences of calls or validation of data; the director of the demonstrator,
the simulator and its devices rest on libraries and programs outside the repository;
the CWE runs are loops of commands on a target (their protocol is `TargetLifecycle`'s)
and the scoring is data; CI and the instance manager are scripts around AWS; the
ignition scripts, the user interface and the hacking demonstrator are clients
of what is modelled.  Of the message server the flat, fragmented and separate stores
and the other interpreters are left out: they have no cache between a get and its
object.

Within the modelled ones: text of messages, logging, parsing of outputs, lengths of
time-outs (a time-out may always happen), the FreeBSD and busybox branches of
`common.py`, the console and network methods of `vcu118.py`, the TLS of the web
server, the content of the web site other than the page that updates rewrite, the
test programs of the CAN library.  Of `exitBesspin` in the tool only that nothing
happens after it.
