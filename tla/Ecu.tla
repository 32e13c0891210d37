-------------------------------- MODULE Ecu --------------------------------
(***************************************************************************)
(* The engine control unit of the demonstrator: the Arduino that samples  *)
(* pedals and gear lever (arduino/Smartcar_Shifter_3xI2C), the I2C bus, and*)
(* the FreeRTOS tasks of cyberPhys/srcFreeRTOS/main_besspin.c that read it,*)
(* broadcast the readings and answer the heartbeats of the tool.          *)
(*                                                                        *)
(* The Shifter serves three targets alike; this is one of its buses.  Time*)
(* is what the code tells apart: `quiet` counts rounds of the Shifter since*)
(* the last I2C transaction, up to QuietLimit (500 ms).                   *)
(***************************************************************************)
EXTENDS Canlib, FiniteSets

CONSTANTS Inputs,         \* positions of lever and pedals: [gear, throttle, brake]
          Lengths,        \* lengths of the long messages a peer sends
          IIC_RESET_ERROR_THRESHOLD,
          QuietLimit,     \* rounds of the Shifter in max_i2c_trans_delay_ms
          MaxMoves, MaxFaults, MaxMessages

ASSUME EcuAssumption ==
    /\ \A i \in Inputs : i.throttle \in 0 .. 1023 /\ i.brake \in 0 .. 1023 /\ i.gear \in 0 .. 255
    /\ \A n \in Lengths : n \in 9 .. 100
    /\ IIC_RESET_ERROR_THRESHOLD \in Nat \ {0} /\ QuietLimit \in Nat \ {0}
    /\ {MaxMoves, MaxFaults, MaxMessages} \subseteq Nat

VARIABLES
    input, moves,                       \* lever and pedals, how often they moved
    shPc, shifter_gear, data,           \* the Shifter: place in loop(), what it samples
    quiet, seen, clock, off,            \* its view of the bus: see above and CheckBus
    bus, faults,                        \* "ok", or the side that hangs
    mainPc, net, halted,                \* prvMainTask, network up, an assertion stopped all
    snPc, err_cnt, tmp,                 \* prvSensorTask; tmp is what it sent last
    shared, mutex,                      \* the globals gear, throttle, brake; data_mutex
    infoPc,                             \* prvInfoTask
    rxQueue, messages, rxBuf, acks, lastLong  \* prvCanRxTask and its peers

shifterVars == <<shPc, shifter_gear, data, clock, off>>
busVars == <<quiet, seen, bus>>
mainVars == <<mainPc, net, halted>>
sensorVars == <<snPc, err_cnt, tmp>>
rxVars == <<rxQueue, messages, rxBuf, acks, lastLong>>
ecuVars == <<input, moves, shifterVars, busVars, faults, mainVars, sensorVars, shared,
          mutex, infoPc, rxVars>>

(***************************************************************************)
(* Readings.                                                              *)
(***************************************************************************)
THROTTLE_MAX == 926
THROTTLE_MIN == 64
THROTTLE_GAIN == 100
BRAKE_MAX == 510
BRAKE_MIN == 456
BRAKE_GAIN == 100

int16(n) == ((n + 32768) % 65536) - 32768
min(a, b) == IF a > b THEN b ELSE a
max(a, b) == IF a > b THEN a ELSE b

\* A changed form of the next definition: the upper clamp is missing.
ThrottleUnclamped(r) ==
    max(int16((max(int16(r - THROTTLE_MIN), 0) * THROTTLE_GAIN) \div (THROTTLE_MAX - THROTTLE_MIN)), 0)

ThrottleOf(r) ==
    min(max(int16((max(int16(r - THROTTLE_MIN), 0) * THROTTLE_GAIN)
                  \div (THROTTLE_MAX - THROTTLE_MIN)), 0), 100)

BrakeOf(r) ==
    min(max(int16((max(int16(BRAKE_MAX - r), 0) * BRAKE_GAIN)
                  \div (BRAKE_MAX - BRAKE_MIN)), 0), 100)

(* A byte the switch does not know leaves tmp_gear as it was.             *)
GearOf(byte, before) ==
    IF byte = 40 THEN "P" ELSE IF byte = 39 THEN "R" ELSE IF byte = 38 THEN "N"
    ELSE IF byte = 37 THEN "D" ELSE before

Scaled(d, gear) == [gear |-> GearOf(d.gear, gear), throttle |-> ThrottleOf(d.throttle),
                    brake |-> BrakeOf(d.brake)]

(***************************************************************************)
(* The driver, the bus.                                                   *)
(***************************************************************************)
Move(i) ==
    /\ moves < MaxMoves /\ i # input
    /\ input' = i /\ moves' = moves + 1
    /\ UNCHANGED <<shifterVars, busVars, faults, mainVars, sensorVars, shared, mutex,
                   infoPc, rxVars>>

(* Either side can hang; iic0_master_reset frees the one, ending and      *)
(* beginning the Wire the other.                                          *)
Fault(side) ==
    /\ faults < MaxFaults /\ bus = "ok"
    /\ bus' = side /\ faults' = faults + 1
    /\ UNCHANGED <<input, moves, shifterVars, quiet, seen, mainVars, sensorVars, shared,
                   mutex, infoPc, rxVars>>

(***************************************************************************)
(* loop() of the Shifter.  The interrupt that answers a request reads data*)
(* between any two of these steps.                                        *)
(***************************************************************************)
ShifterOnly == UNCHANGED <<input, moves, faults, mainVars, sensorVars, shared, mutex,
                           infoPc, rxVars>>

(* Can0.available() may have nothing yet.                                 *)
ReadGear ==
    /\ shPc = "can"
    /\ shifter_gear' \in {shifter_gear, input.gear}
    /\ shPc' = "brake"
    /\ UNCHANGED <<data, clock, off, busVars>> /\ ShifterOnly

ReadGearNow == ReadGear /\ shifter_gear' = input.gear

(* analogRead of a pedal and the copy of its sample: one after the other  *)
(* for all an interrupt sees.                                             *)
CopyBrake ==
    /\ shPc = "brake"
    /\ data' = [data EXCEPT !.brake = input.brake]
    /\ shPc' = "throttle"
    /\ UNCHANGED <<shifter_gear, clock, off, busVars>> /\ ShifterOnly

CopyThrottle ==
    /\ shPc = "throttle"
    /\ data' = [data EXCEPT !.throttle = input.throttle]
    /\ shPc' = "gear"
    /\ UNCHANGED <<shifter_gear, clock, off, busVars>> /\ ShifterOnly

(* ... and delay(50).                                                     *)
CopyGear ==
    /\ shPc = "gear"
    /\ data' = [data EXCEPT !.gear = shifter_gear]
    /\ quiet' = IF quiet < QuietLimit THEN quiet + 1 ELSE quiet
    /\ shPc' = "check"
    /\ UNCHANGED <<shifter_gear, clock, off, seen, bus>> /\ ShifterOnly

(* millis() is called first, last_transaction_i2c read after it.          *)
CheckBus ==
    /\ shPc = "check"
    /\ IF seen THEN shPc' = "compare" /\ clock' = "read" ELSE shPc' = "can" /\ UNCHANGED clock
    /\ UNCHANGED <<shifter_gear, data, off, busVars>> /\ ShifterOnly

(* A transaction in between makes the unsigned difference zero or huge.   *)
CompareTimes ==
    /\ shPc = "compare"
    /\ clock' = "idle"
    /\ \/ /\ IF clock = "read" THEN quiet >= QuietLimit ELSE clock = "overtaken"
          /\ shPc' = "begin" /\ off' = TRUE
       \/ /\ IF clock = "read" THEN quiet < QuietLimit ELSE clock = "overtaken"
          /\ shPc' = "can" /\ UNCHANGED off
    /\ UNCHANGED <<shifter_gear, data, busVars>> /\ ShifterOnly

\* A changed form of the next definition: the Wire is begun on a bus that still hangs.
BeginHung ==
    /\ shPc = "begin"
    /\ off' = FALSE /\ shPc' = "can"
    /\ UNCHANGED <<shifter_gear, data, clock, busVars>> /\ ShifterOnly

(* Wire.end(), 10 ms, Wire.begin().                                       *)
BeginWire ==
    /\ shPc = "begin"
    /\ off' = FALSE /\ shPc' = "can"
    /\ bus' = IF bus = "slave" THEN "ok" ELSE bus
    /\ UNCHANGED <<shifter_gear, data, clock, quiet, seen>> /\ ShifterOnly

Shifter == \/ ReadGear \/ CopyBrake \/ CopyThrottle \/ CopyGear
           \/ CheckBus \/ CompareTimes \/ BeginWire

(***************************************************************************)
(* prvMainTask and the network hook.                                      *)
(***************************************************************************)
MainOnly == UNCHANGED <<input, moves, shifterVars, busVars, faults, err_cnt, tmp, shared,
                        rxVars>>

MainStarts ==
    /\ ~halted /\ mainPc = "created"
    /\ mainPc' = "delay"
    /\ UNCHANGED <<net, halted, snPc, infoPc, mutex>> /\ MainOnly

\* A changed form of the next definition: a notification that came before the wait is cleared.
MainForgets ==
    /\ ~halted /\ mainPc = "delay"
    /\ mainPc' = "wait" /\ net' = IF net = "notified" THEN "up" ELSE net
    /\ UNCHANGED <<halted, snPc, infoPc, mutex>> /\ MainOnly

MainDelayed ==
    /\ ~halted /\ mainPc = "delay"
    /\ mainPc' = "wait"
    /\ UNCHANGED <<net, halted, snPc, infoPc, mutex>> /\ MainOnly

(* A notification that is pending ends the wait at once; the mutex is     *)
(* created before the tasks that take it.                                 *)
MainNotified ==
    /\ ~halted /\ mainPc = "wait" /\ net = "notified"
    /\ mainPc' = "done"
    /\ mutex' = "free" /\ snPc' = "receive" /\ infoPc' = "take"
    /\ UNCHANGED <<net, halted>> /\ MainOnly

MainTimesOut ==
    /\ ~halted /\ mainPc = "wait" /\ net # "notified"
    /\ mainPc' = "deleted"
    /\ UNCHANGED <<net, halted, snPc, infoPc, mutex>> /\ MainOnly

(* The network comes up once.  xTaskNotify asserts that it has a task: the*)
(* hook has only printed that it has none.                                *)
vApplicationIPNetworkEventHook ==
    /\ ~halted /\ net = "down"
    /\ IF mainPc = "created" THEN halted' = TRUE /\ net' = "up"
       ELSE net' = (IF mainPc = "deleted" THEN "up" ELSE "notified") /\ UNCHANGED halted
    /\ UNCHANGED <<mainPc, snPc, infoPc, mutex>> /\ MainOnly

Main == MainStarts \/ MainDelayed \/ MainNotified \/ MainTimesOut

(***************************************************************************)
(* prvSensorTask.                                                         *)
(***************************************************************************)
SensorOnly == UNCHANGED <<input, moves, shPc, shifter_gear, data, off, faults, mainVars,
                          infoPc, rxVars>>

(* One reading, the three sends; the mutex guards the stores only.        *)
SensorReceives ==
    /\ snPc = "receive" /\ bus = "ok" /\ ~off
    /\ tmp' = Scaled(data, tmp.gear)
    /\ quiet' = 0 /\ seen' = TRUE
    /\ clock' = IF shPc = "compare" THEN "overtaken" ELSE clock
    /\ snPc' = "take"
    /\ UNCHANGED <<bus, err_cnt, shared, mutex>> /\ SensorOnly

\* A changed form of the next definition: the counter starts again, the master is not reset.
SensorErrNoReset ==
    /\ snPc = "receive" /\ (bus # "ok" \/ off)
    /\ err_cnt' = (err_cnt + 1) % IIC_RESET_ERROR_THRESHOLD
    /\ UNCHANGED <<quiet, seen, clock, bus, snPc, tmp, shared, mutex>> /\ SensorOnly

(* A success does not reset err_cnt.                                      *)
SensorErr ==
    /\ snPc = "receive" /\ (bus # "ok" \/ off)
    /\ IF err_cnt + 1 >= IIC_RESET_ERROR_THRESHOLD
       THEN err_cnt' = 0 /\ bus' = (IF bus = "master" THEN "ok" ELSE bus)
       ELSE err_cnt' = err_cnt + 1 /\ UNCHANGED bus
    /\ UNCHANGED <<quiet, seen, clock, snPc, tmp, shared, mutex>> /\ SensorOnly

\* A changed form of the next definition: it does not wait for the mutex.
SensorTakesAnyway ==
    /\ snPc = "take"
    /\ snPc' = "gear" /\ UNCHANGED mutex
    /\ UNCHANGED <<clock, busVars, err_cnt, tmp, shared>> /\ SensorOnly

(* 100 ms without the mutex: the values go out on the network only.       *)
SensorTakes ==
    /\ snPc = "take"
    /\ \/ mutex = "free" /\ mutex' = "sensor" /\ snPc' = "gear"
       \/ mutex = "info" /\ snPc' = "receive" /\ UNCHANGED mutex
    /\ UNCHANGED <<clock, busVars, err_cnt, tmp, shared>> /\ SensorOnly

SensorStoresGear ==
    /\ snPc = "gear"
    /\ shared' = [shared EXCEPT !.gear = tmp.gear]
    /\ snPc' = "rest"
    /\ UNCHANGED <<clock, busVars, err_cnt, tmp, mutex>> /\ SensorOnly

SensorStoresRest ==
    /\ snPc = "rest"
    /\ shared' = [shared EXCEPT !.throttle = tmp.throttle, !.brake = tmp.brake]
    /\ mutex' = "free"
    /\ snPc' = "receive"
    /\ UNCHANGED <<clock, busVars, err_cnt, tmp>> /\ SensorOnly

Sensor == \/ SensorReceives \/ SensorErr
          \/ SensorTakes \/ SensorStoresGear \/ SensorStoresRest

(***************************************************************************)
(* prvInfoTask.  Without the mutex it prints what its locals held before. *)
(***************************************************************************)
InfoOnly == UNCHANGED <<input, moves, shifterVars, busVars, faults, mainVars, sensorVars, shared,
                        rxVars>>

InfoTakes ==
    /\ infoPc = "take"
    /\ \/ mutex = "free" /\ mutex' = "info" /\ infoPc' = "copy"
       \/ mutex = "sensor" /\ infoPc' = "print" /\ UNCHANGED mutex
    /\ InfoOnly

InfoCopies ==
    /\ infoPc = "copy"
    /\ mutex' = "free" /\ infoPc' = "print"
    /\ InfoOnly

InfoPrints ==
    /\ infoPc = "print"
    /\ infoPc' = "take"
    /\ UNCHANGED mutex /\ InfoOnly

Info == InfoTakes \/ InfoCopies \/ InfoPrints

(***************************************************************************)
(* prvCanRxTask and its peers, on Canlib.                                 *)
(***************************************************************************)
RxOnly == UNCHANGED <<input, moves, shifterVars, busVars, faults, mainVars, sensorVars, shared,
                      mutex, infoPc>>

CAN_ID_HEARTBEAT_REQ == CanId(170, 12494647)
CAN_ID_GEAR == CanId(170, 15732736)
Request(n) == <<0, 0, 0, n>>
LongMessage(len, n) == [k \in 1 .. len |-> (k + n) % 256]

PeerPuts(wire) ==
    /\ mainPc = "done" /\ messages < MaxMessages
    /\ rxQueue' = Append(rxQueue, wire)
    /\ messages' = messages + 1
    /\ UNCHANGED <<rxBuf, acks>> /\ RxOnly

PeerSendsRequest ==
    /\ PeerPuts(send_can_message(CAN_ID_HEARTBEAT_REQ, Request(messages + 1)).wire)
    /\ UNCHANGED lastLong

PeerSendsOther ==
    /\ PeerPuts(send_can_message(CAN_ID_GEAR, Request(messages + 1)).wire)
    /\ UNCHANGED lastLong

PeerSendsLong ==
    \E len \in Lengths :
        /\ PeerPuts(send_can_message(PGN_BAM, LongMessage(len, messages)).wire)
        /\ lastLong' = LongMessage(len, messages)

\* A changed form of the next definition: every message is answered.
CanRxAnyId ==
    /\ mainPc = "done" /\ rxQueue # << >>
    /\ rxQueue' = Tail(rxQueue)
    /\ LET r == recv_can_message(Head(rxQueue))
       IN  /\ rxBuf' = IF r.id = CanId(0, PGN_BAM) THEN r.message ELSE rxBuf
           /\ acks' = Append(acks, SubSeq(r.message, 1, 4))
    /\ UNCHANGED <<messages, lastLong>> /\ RxOnly

(* process_j1939: a long message goes to j1939_rx_buf, of a short one the *)
(* first four bytes to request_id.  The answer carries the ID as received.*)
CanRx ==
    /\ mainPc = "done" /\ rxQueue # << >>
    /\ rxQueue' = Tail(rxQueue)
    /\ LET r == recv_can_message(Head(rxQueue))
       IN  /\ rxBuf' = IF r.status = "SUCCESS" /\ r.id = CanId(0, PGN_BAM) THEN r.message ELSE rxBuf
           /\ acks' = IF r.status = "SUCCESS" /\ r.id = CAN_ID_HEARTBEAT_REQ
                      THEN Append(acks, SubSeq(r.message, 1, min(4, Len(r.message))))
                      ELSE acks
    /\ UNCHANGED <<messages, lastLong>> /\ RxOnly

EcuInit ==
    /\ input \in Inputs /\ moves = 0
    /\ shPc = "can" /\ shifter_gear = 40
    /\ data = [gear |-> 0, throttle |-> 0, brake |-> 0]
    /\ quiet = 0 /\ seen = FALSE /\ clock = "idle" /\ off = FALSE
    /\ bus = "ok" /\ faults = 0
    /\ mainPc = "created" /\ net = "down" /\ halted = FALSE
    /\ snPc = "none" /\ err_cnt = 0
    /\ tmp = [gear |-> "junk", throttle |-> 0, brake |-> 0]
    /\ shared = [gear |-> "nul", throttle |-> 0, brake |-> 0]
    /\ mutex = "none"
    /\ infoPc = "none"
    /\ rxQueue = << >> /\ messages = 0 /\ rxBuf = << >> /\ acks = << >> /\ lastLong = << >>

Environment == (\E i \in Inputs : Move(i)) \/ (\E side \in {"slave", "master"} : Fault(side))
Peer == PeerSendsRequest \/ PeerSendsOther \/ PeerSendsLong

EcuNext == \/ Environment \/ Peer \/ Shifter \/ Main \/ vApplicationIPNetworkEventHook
        \/ Sensor \/ Info \/ CanRx

EcuSpec == EcuInit /\ [][EcuNext]_ecuVars

(* The boards run.  The gear lever repeats its message, and the Wire is off*)
(* for 10 of at least 60 ms while the ECU polls at its own pace: neither is*)
(* missed for ever.                                                       *)
EcuFairSpec ==
    /\ EcuSpec
    /\ WF_ecuVars(Shifter) /\ SF_ecuVars(ReadGearNow)
    /\ WF_ecuVars(Main) /\ WF_ecuVars(Sensor) /\ SF_ecuVars(SensorReceives) /\ WF_ecuVars(Info) /\ WF_ecuVars(CanRx)

(***************************************************************************)
(* Properties.                                                            *)
(***************************************************************************)
Percent == 0 .. 100
GearLetter == {"P", "R", "N", "D"}
Values == [gear : GearLetter \union {"junk", "nul"}, throttle : Percent, brake : Percent]

(* Types; the values that go out on the network are percentages and the   *)
(* error counter never passes its threshold.                              *)
EcuTypeOK ==
    /\ input \in Inputs /\ moves \in 0 .. MaxMoves
    /\ shPc \in {"can", "brake", "throttle", "gear", "check", "compare", "begin"}
    /\ quiet \in 0 .. QuietLimit /\ seen \in BOOLEAN /\ off = (shPc = "begin")
    /\ clock \in {"idle", "read", "overtaken"}
    /\ bus \in {"ok", "slave", "master"} /\ faults \in 0 .. MaxFaults
    /\ mainPc \in {"created", "delay", "wait", "done", "deleted"}
    /\ net \in {"down", "up", "notified"} /\ halted \in BOOLEAN
    /\ snPc \in {"none", "receive", "take", "gear", "rest"}
    /\ err_cnt \in 0 .. IIC_RESET_ERROR_THRESHOLD - 1
    /\ tmp \in Values /\ shared \in Values
    /\ mutex \in {"none", "free", "sensor", "info"}
    /\ infoPc \in {"none", "take", "copy", "print"}

(* Gear, throttle and brake on the console belong together: while the info*)
(* task copies them the sensor task is not half through its stores.       *)
InfoConsistent == infoPc = "copy" => snPc \notin {"gear", "rest"}

(* A long message arrives byte by byte as it was sent, whatever came in   *)
(* between, once the queue is empty.                                      *)
LongArrives == (rxQueue = << >>) => rxBuf = lastLong

(* A request is answered once at most, the answers in the order of the    *)
(* requests and each with the number of its request: a long message in    *)
(* between does not change the number.                                    *)
AcksFollowRequests ==
    \A i \in 1 .. Len(acks) : /\ Len(acks[i]) = 4
                              /\ \A j \in 1 .. i - 1 : acks[j][4] < acks[i][4]

(* A network that is up before the main task stops waiting starts the     *)
(* tasks, however early the notification came.                            *)
NotificationHeld == (net = "notified" /\ mainPc # "deleted") ~> (mainPc = "done")

(* A bus that hangs is freed by one side or the other, if the ECU runs and*)
(* has had a reading before: the Shifter looks only at a bus that has     *)
(* worked once.                                                           *)
BusRecovers == (bus # "ok" /\ snPc # "none" /\ seen) ~> (bus = "ok")

(* Once lever and pedals rest and the bus is well, what the ECU broadcasts*)
(* settles on what they say, through torn samples, spurious resets and    *)
(* missed polls.                                                          *)
Settles == <>[](seen => /\ tmp.throttle = ThrottleOf(input.throttle)
                        /\ tmp.brake = BrakeOf(input.brake)
                        /\ tmp.gear = GearOf(input.gear, tmp.gear))

(* Through every interleaving of the tasks: well typed, a consistent set of*)
(* values on the console, long messages whole and answers in order        *)
(* (main_besspin.c:290-610).                                              *)
EcuInv ==
    /\ EcuTypeOK
    /\ InfoConsistent
    /\ LongArrives
    /\ AcksFollowRequests
=============================================================================
