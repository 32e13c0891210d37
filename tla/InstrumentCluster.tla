-------------------------- MODULE InstrumentCluster --------------------------
(***************************************************************************)
(* The sketch that drives the instrument cluster of the demonstrator over  *)
(* CAN (besspin/cyberPhys/arduino/instrument_cluster_controller and its    *)
(* successor with rear lights).  The simulator writes one record at a time *)
(* to the serial port; the main loop copies it into six CAN messages and   *)
(* sends them every 20 ms, and a thread blinks the turn signals.  Both     *)
(* read, change and write the byte D1 of message 0x423, preemptively.      *)
(*                                                                         *)
(* A byte of flags is the set of its bits.  A record is two halves: what   *)
(* lies before gear_state and what follows.  readBytes gives up after 1 ms *)
(* and then returns what is there, so a half can be read alone, and a rest *)
(* is read where a record should begin.  Time passes in steps of one turn  *)
(* signal delay (400 ms); millis() - reset_to_default_counter is `silent`. *)
(***************************************************************************)
EXTENDS Integers, Sequences

CONSTANTS Heads,          \* halves [speed, fuel]: mph, percent
          Tails,          \* halves [gear, lamps, headlights, signals, brake]
          StrayHead,      \* what the bytes of a rest look like read as a head
          StrayTail,      \* and those of a head read as a rest
          RearLights,     \* the sketch with rear lights
          SilenceLimit,   \* reset_to_default_limit in turn signal delays
          MaxRecords      \* records the simulator sends

ASSUME SilenceAssumption == SilenceLimit \in Nat \ {0}
ASSUME RecordsAssumption == MaxRecords \in Nat

VARIABLES tx,             \* the CAN messages under construction
          beamng_vehicle, \* the last record read
          port,           \* halves waiting at the serial port
          rest,           \* the half the simulator has still to write, or << >>
          records,        \* records sent
          loopPc, temp,   \* where the main loop is; toggle_headlight_state's copies
          blinkPc, copy,  \* where the thread is; its copy of D1
          silent,         \* delays since a record was read
          due, ran,       \* the thread's delay is over; rounds of the loop in it
          cluster,        \* the messages the cluster last received
          leds,           \* the lights of the sketch's own pins that are on
          lost            \* a store of the loop undid the last clearing of the signals

clusterVars == <<tx, beamng_vehicle, port, rest, records, loopPc, temp, blinkPc, copy,
                 silent, due, ran, cluster, leds, lost>>

Bits == {"backlight", "high", "left", "right"}
Turn == {"left", "right"}

(* A record read as it was sent or not has fields of these types.  A stray  *)
(* parking brake byte reaches into the other bits of the lamps.             *)
Lamps == {"parking_brake", "abs", "esc", "other"}
HeadHalf == [speed : Int, fuel : Int]
TailHalf == [gear : Int, lamps : SUBSET Lamps, headlights : Int, signals : SUBSET Turn,
             brake : BOOLEAN]
ASSUME HalvesAssumption == Heads \union {StrayHead} \subseteq HeadHalf
                           /\ Tails \union {StrayTail} \subseteq TailHalf

TwoBytes(n) == <<(n % 65536) \div 256, n % 256>>

set_speedometer(t, mph) ==
    IF mph >= 0 THEN [t EXCEPT !.speed = TwoBytes((mph * 2952) \div 100)] ELSE t

set_fuel_level(t, percent) ==
    IF percent \in 0 .. 100
    THEN [t EXCEPT !.fuel = TwoBytes(309 + (457968 * (100 - percent)) \div 100000)]
    ELSE t

Park == 80
(* A gear the cluster cannot show is shown as park, six to eight as fifth.  *)
convert_gear_state_for_mfd(g) ==
    CASE g = 255 -> 82
      [] g = 0 -> 78
      [] g \in 1 .. 5 -> 48 + g
      [] g \in 6 .. 8 -> 53
      [] OTHER -> Park
RearGear(g) == IF g = 10 THEN 11 ELSE convert_gear_state_for_mfd(g)
GearShown(g) == IF RearLights THEN RearGear(g) ELSE convert_gear_state_for_mfd(g)

get_indicator_lamp_states_0x200(t, lamps) == [t EXCEPT !.lamps = lamps]

Quiet == [gear |-> 0, lamps |-> {}, headlights |-> 0, signals |-> {}, brake |-> FALSE]
Memset == [head |-> [speed |-> 0, fuel |-> 0], tail |-> Quiet]

(* The messages setup builds, which silence brings back.                    *)
Default ==
    [speed |-> TwoBytes(0), fuel |-> TwoBytes(309), gear |-> Park, lamps |-> {},
     d1 |-> {"backlight"}, d3 |-> {"backlight"}]

(***************************************************************************)
(* The main loop.                                                          *)
(***************************************************************************)
(* toggle_headlight_state up to its stores: the copies of D1 and D3.        *)
Copies(t, from) == [d1 |-> t.d1, d3 |-> t.d3, from |-> from]

(* The loop goes round many times in a turn signal delay, at least twice.   *)
EnoughRounds == 2
Rounds == IF ran < EnoughRounds THEN ran + 1 ELSE ran

\* A changed form of the next definition: silence leaves the headlights alone.
SilenceKeepsLights ==
    /\ tx' = [get_indicator_lamp_states_0x200(
                 set_fuel_level(set_speedometer(tx, 0), 100), {}) EXCEPT !.gear = Park]
    /\ beamng_vehicle' = [beamng_vehicle EXCEPT !.tail.signals = {}, !.tail.lamps = {}]
    /\ temp' = Copies(tx, "reset") /\ loopPc' = "toggle"
ResetToDefault ==
    /\ tx' = [get_indicator_lamp_states_0x200(
                 set_fuel_level(set_speedometer(tx, 0), 100), {}) EXCEPT !.gear = Park]
    /\ beamng_vehicle' = [beamng_vehicle EXCEPT !.tail.headlights = 0,
                                                !.tail.signals = {}, !.tail.lamps = {}]
    /\ temp' = Copies(tx, "reset") /\ loopPc' = "toggle"

Loop ==
    /\ loopPc = "loop"
    /\ cluster' = tx
    /\ IF silent = SilenceLimit THEN ResetToDefault
       ELSE loopPc' = "serial" /\ UNCHANGED <<tx, beamng_vehicle, temp>>
    /\ UNCHANGED <<port, rest, records, blinkPc, copy, silent, due, ran, leds, lost>>

(* readBytes fills the record from its beginning, whatever the bytes are    *)
Kind(h) == IF "speed" \in DOMAIN h THEN "head" ELSE "tail"
AsHead(h) == IF Kind(h) = "head" THEN h ELSE StrayHead
AsTail(h) == IF Kind(h) = "tail" THEN h ELSE StrayTail
ReadBytes ==
    [head |-> AsHead(port[1]),
     tail |-> IF Len(port) > 1 THEN AsTail(port[2]) ELSE beamng_vehicle.tail]

serialEvent ==
    /\ loopPc = "serial" /\ port # << >>
    /\ beamng_vehicle' = ReadBytes
    /\ port' = SubSeq(port, 3, Len(port))
    /\ tx' = [get_indicator_lamp_states_0x200(
                 set_fuel_level(set_speedometer(tx, ReadBytes.head.speed), ReadBytes.head.fuel),
                 ReadBytes.tail.lamps) EXCEPT !.gear = GearShown(ReadBytes.tail.gear)]
    /\ temp' = Copies(tx, "serial") /\ loopPc' = "toggle"
    /\ UNCHANGED <<rest, records, blinkPc, copy, silent, due, ran, cluster, leds, lost>>

SerialIdle ==
    /\ loopPc = "serial" /\ port = << >>
    /\ loopPc' = "loop" /\ ran' = Rounds
    /\ UNCHANGED <<tx, beamng_vehicle, port, rest, records, temp, blinkPc, copy, silent, due,
                   cluster, leds, lost>>

(* What its stores write: 1 turns the low beams on and leaves the high      *)
(* beams as they are.                                                       *)
toggle_headlight_state(headlights) ==
    CASE headlights = 0 -> [d1 |-> (temp.d1 \ {"high"}) \union {"backlight"},
                            d3 |-> (temp.d3 \ {"low"}) \union {"backlight"}]
      [] headlights = 1 -> [d1 |-> tx.d1, d3 |-> temp.d3 \union {"low"}]
      [] headlights = 2 -> [d1 |-> temp.d1 \union {"high"}, d3 |-> tx.d3]
      [] OTHER -> [d1 |-> tx.d1, d3 |-> tx.d3]

(* The stores, and what the caller does next: the brake lights, and after a *)
(* record the counter.                                                      *)
Toggle ==
    /\ loopPc = "toggle"
    /\ LET w == toggle_headlight_state(beamng_vehicle.tail.headlights)
       IN  /\ tx' = [tx EXCEPT !.d1 = w.d1, !.d3 = w.d3]
           /\ lost' = (lost \/ w.d1 \intersect Turn # tx.d1 \intersect Turn)
    /\ leds' = IF temp.from = "serial" /\ beamng_vehicle.tail.brake
               THEN leds \union {"brake"} ELSE leds \ {"brake"}
    /\ IF temp.from = "serial" THEN silent' = 0 /\ loopPc' = "loop" /\ ran' = Rounds
       ELSE loopPc' = "serial" /\ UNCHANGED <<silent, ran>>
    /\ temp' = Copies(Default, "none")
    /\ UNCHANGED <<beamng_vehicle, port, rest, records, blinkPc, copy, due, cluster>>

(***************************************************************************)
(* The blinking thread: two loads and two stores of D1, a delay after each *)
(* store.                                                                  *)
(***************************************************************************)
\* Changed forms of the next definition: only the left signal is cleared; the
\* backlight goes with the signals.
ClearLeftOnly(b) == (b \ {"left"}) \union {"backlight"}
ClearBacklight(b) == b \ (Turn \union {"backlight"})
Cleared(b) == (b \ Turn) \union {"backlight"}

BlinkLoadDark ==
    /\ blinkPc = "lit" /\ due
    /\ leds' = IF RearLights THEN leds \ Turn ELSE leds
    /\ copy' = tx.d1 /\ blinkPc' = "clearing"
    /\ UNCHANGED <<tx, beamng_vehicle, port, rest, records, loopPc, temp, silent, due, ran,
                   cluster, lost>>
BlinkStoreDark ==
    /\ blinkPc = "clearing"
    /\ tx' = [tx EXCEPT !.d1 = Cleared(copy)]
    /\ lost' = FALSE
    /\ blinkPc' = "dark" /\ due' = FALSE /\ ran' = 0 /\ copy' = {}
    /\ UNCHANGED <<beamng_vehicle, port, rest, records, loopPc, temp, silent, cluster, leds>>
BlinkLoadLit ==
    /\ blinkPc = "dark" /\ due
    /\ leds' = IF RearLights THEN leds \union beamng_vehicle.tail.signals ELSE leds
    /\ copy' = tx.d1 \union beamng_vehicle.tail.signals \union {"backlight"}
    /\ blinkPc' = "setting"
    /\ UNCHANGED <<tx, beamng_vehicle, port, rest, records, loopPc, temp, silent, due, ran,
                   cluster, lost>>
BlinkStoreLit ==
    /\ blinkPc = "setting"
    /\ tx' = [tx EXCEPT !.d1 = copy]
    /\ blinkPc' = "lit" /\ due' = FALSE /\ ran' = 0 /\ copy' = {}
    /\ UNCHANGED <<beamng_vehicle, port, rest, records, loopPc, temp, silent, cluster, leds,
                   lost>>

(***************************************************************************)
(* The simulator, and time.                                                *)
(***************************************************************************)
SendRecord(h, t) ==
    /\ records < MaxRecords /\ rest = << >>
    /\ records' = records + 1
    /\ \/ port' = port \o <<h, t>> /\ UNCHANGED rest
       \/ port' = Append(port, h) /\ rest' = <<t>>
    /\ UNCHANGED <<tx, beamng_vehicle, loopPc, temp, blinkPc, copy, silent, due, ran, cluster,
                   leds, lost>>
SendRest ==
    /\ rest # << >>
    /\ port' = port \o rest /\ rest' = << >>
    /\ UNCHANGED <<tx, beamng_vehicle, records, loopPc, temp, blinkPc, copy, silent, due, ran,
                   cluster, leds, lost>>
Tick ==
    /\ ran = EnoughRounds /\ blinkPc \in {"dark", "lit"} /\ ~due
    /\ due' = TRUE
    /\ silent' = IF silent < SilenceLimit THEN silent + 1 ELSE silent
    /\ UNCHANGED <<tx, beamng_vehicle, port, rest, records, loopPc, temp, blinkPc, copy, ran,
                   cluster, leds, lost>>

(* setup: the record is cleared and the thread, which begins by clearing,   *)
(* is started last; by then the reset counter has long run out.             *)
ClusterInit ==
    /\ tx = Default /\ beamng_vehicle = Memset
    /\ port = << >> /\ rest = << >> /\ records = 0
    /\ loopPc = "loop" /\ temp = Copies(Default, "none")
    /\ blinkPc = "lit" /\ copy = {}
    /\ silent = SilenceLimit /\ due = TRUE /\ ran = 0
    /\ cluster = Default /\ leds = Turn /\ lost = FALSE

MainLoop == Loop \/ serialEvent \/ SerialIdle \/ Toggle
blink_signal == BlinkLoadDark \/ BlinkStoreDark \/ BlinkLoadLit \/ BlinkStoreLit
Simulator == SendRest \/ \E h \in Heads, t \in Tails : SendRecord(h, t)
ClusterNext == MainLoop \/ blink_signal \/ Simulator \/ Tick

ClusterSpec == ClusterInit /\ [][ClusterNext]_clusterVars
ClusterFairness ==
    /\ WF_clusterVars(MainLoop) /\ WF_clusterVars(blink_signal) /\ WF_clusterVars(Tick)

(***************************************************************************)
(* Properties.                                                             *)
(***************************************************************************)
Bytes2 == (0 .. 255) \X (0 .. 255)
Messages(m) ==
    /\ m.speed \in Bytes2 /\ m.fuel \in Bytes2 /\ m.gear \in 0 .. 255 /\ m.lamps \subseteq Lamps
    /\ m.d1 \subseteq Bits /\ m.d3 \subseteq {"backlight", "low"}

(* Every variable keeps its type; the cluster's backlight bits, which the   *)
(* sketch is always to leave on, are on in all it was ever sent.            *)
ClusterTypeOK ==
    /\ Messages(tx) /\ Messages(cluster)
    /\ "backlight" \in cluster.d1 /\ "backlight" \in cluster.d3
    /\ loopPc \in {"loop", "serial", "toggle"} /\ blinkPc \in {"lit", "clearing", "dark", "setting"}
    /\ copy \subseteq Bits /\ leds \subseteq Turn \union {"brake"}
    /\ Len(port) <= 2 * MaxRecords /\ silent \in 0 .. SilenceLimit
    /\ due \in BOOLEAN /\ ran \in 0 .. EnoughRounds /\ lost \in BOOLEAN

(* In the dark half of a blink no turn signal is on, however the thread's   *)
(* and the loop's changes of D1 overlapped, unless the loop wrote back a    *)
(* copy it had taken before the thread's store.                             *)
DarkIsDark == (blinkPc = "dark" /\ ~lost) => tx.d1 \intersect Turn = {}

(* What the cluster sends is well typed, and dark when the blinker is.      *)
ClusterInv ==
    /\ ClusterTypeOK
    /\ DarkIsDark

(* When the simulator falls silent for good the cluster goes back to the    *)
(* state of setup and stays there, whatever was read last (half a record, a *)
(* rest taken for a head) and whatever the thread wrote back; a turn signal *)
(* may stay lit only as long as the loop undoes every clearing of it.       *)
SilenceHeals ==
    (<>[](silent = SilenceLimit)) =>
        <>[](/\ [cluster EXCEPT !.d1 = @ \ Turn] = Default
             /\ lost \/ blinkPc # "dark" \/ tx.d1 = {"backlight"})
=============================================================================
