------------------------ MODULE Demonstrator_proofs ------------------------
(***************************************************************************)
(* The parts of the demonstrator, one after the other: the speedometer, the*)
(* instrument cluster, the infotainment servers and the engine control     *)
(* unit.  Each has its own variables and its own specification; the module *)
(* puts the theorems about the four side by side.                          *)
(***************************************************************************)
EXTENDS InstrumentCluster, Speedometer, Infotainment, Ecu, SequenceTheorems, TLAPS

(***************************************************************************)
(* The count of the steps stands for the needle, for every set of speeds,   *)
(* every length of the gauge and every number of "x" commands.             *)
(***************************************************************************)

(* A text that begins with an "x" has been counted; with the invariant of  *)
(* the runs this one is inductive.                                         *)
TextOK ==
    /\ inputString \in [first : Lines \union {0}, lines : 0 .. 2]
    /\ inputString.first = X => xs > 0

Believed == SpeedometerInv /\ TextOK

(* A speed of the scale is within the steps of the scale (speed_to_steps). *)
LEMMA ScaleOfSpeed ==
    ASSUME NEW mph \in 0 .. 127
    PROVE  speed_to_steps(mph) \in 0 .. steps_at_max_mph
  BY SMT DEF speed_to_steps, steps_at_max_mph

(* A quarter has the sign of the whole and is not longer.                  *)
LEMMA QuarterWithin ==
    ASSUME NEW e \in Int
    PROVE  /\ QuarterOf(e) \in Int
           /\ e >= 0 => 0 <= QuarterOf(e) /\ QuarterOf(e) <= e
           /\ e < 0 => e <= QuarterOf(e) /\ QuarterOf(e) <= 0
  <1>1. CASE e >= 0
    BY <1>1, SMT DEF QuarterOf
  <1>2. CASE e < 0
    BY <1>2, SMT DEF QuarterOf
  <1> QED BY <1>1, <1>2, SMT

(* A quarter of the way from one place of the scale to another is on it.   *)
LEMMA QuarterStaysOnScale ==
    ASSUME NEW from \in 0 .. steps_at_max_mph, NEW to \in 0 .. steps_at_max_mph
    PROVE  /\ QuarterOf(to - from) \in Int
           /\ from + QuarterOf(to - from) \in 0 .. steps_at_max_mph
  <1> DEFINE e == to - from
             q == QuarterOf(e)
  <1>1. /\ from \in Int /\ 0 <= from /\ from <= steps_at_max_mph /\ steps_at_max_mph \in Int
        /\ to \in Int /\ 0 <= to /\ to <= steps_at_max_mph
        /\ e \in Int /\ e = to - from
    BY SMT DEF steps_at_max_mph
  <1> HIDE DEF e
  <1>2. /\ q \in Int
        /\ e >= 0 => 0 <= q /\ q <= e
        /\ e < 0 => e <= q /\ q <= 0
    BY <1>1, QuarterWithin
  <1> HIDE DEF q
  <1>3. q \in Int /\ from + q \in 0 .. steps_at_max_mph
    BY <1>1, <1>2, SMT
  <1> QED BY <1>3 DEF q, e

(* rotate keeps the count on the scale and the needle at the count, when   *)
(* the place it turns to is on the scale.                                  *)
LEMMA RotateKeeps ==
    ASSUME SpeedometerInv, NEW steps \in Int,
           stepper_position + steps \in 0 .. steps_at_max_mph,
           rotate(steps)
    PROVE  /\ stepper_position' \in 0 .. steps_at_max_mph
           /\ needle' \in Stop .. (Travel - 90)
           /\ xs = 0 => needle' = stepper_position'
  BY TravelAssumption, SMT
     DEF SpeedometerInv, SpeedometerTypeOK, NeedleWhereBelieved, rotate, Bound, Stop, steps_at_max_mph

(* MoveTo turns to a place of the scale.                                   *)
LEMMA MoveKeeps ==
    ASSUME SpeedometerInv, NEW mph \in 0 .. 127, MoveTo(mph)
    PROVE  /\ stepper_position' \in 0 .. steps_at_max_mph
           /\ needle' \in Stop .. (Travel - 90)
           /\ xs = 0 => needle' = stepper_position'
  <1>0. stepper_position \in 0 .. steps_at_max_mph
    BY DEF SpeedometerInv, SpeedometerTypeOK
  <1>1. CASE mph = 0
    <2> DEFINE back == IF stepper_position > 0 THEN -stepper_position ELSE 0
    <2>1. rotate(back)
      BY <1>1 DEF MoveTo
    <2>2. back \in Int /\ stepper_position + back \in 0 .. steps_at_max_mph
      BY <1>0, SMT DEF steps_at_max_mph
    <2> QED BY <2>1, <2>2, RotateKeeps
  <1>2. CASE mph # 0
    <2> DEFINE target == speed_to_steps(mph)
    <2>1. rotate(QuarterOf(target - stepper_position))
      BY <1>2 DEF MoveTo, get_current_to_target_error
    <2>2. target \in 0 .. steps_at_max_mph
      BY ScaleOfSpeed
    <2> HIDE DEF target
    <2>3. /\ QuarterOf(target - stepper_position) \in Int
          /\ stepper_position + QuarterOf(target - stepper_position) \in 0 .. steps_at_max_mph
      BY <1>0, <2>2, QuarterStaysOnScale
    <2> QED BY <2>1, <2>3, RotateKeeps
  <1> QED BY <1>1, <1>2

(* From wherever the needle is, a reset takes it to the stop and then to   *)
(* zero, where the count begins.                                           *)
LEMMA ResetKeeps ==
    ASSUME SpeedometerInv, reset_speedometer_to_zero
    PROVE  stepper_position' = 0 /\ needle' = 0
  BY TravelAssumption, SMT
     DEF SpeedometerInv, SpeedometerTypeOK, reset_speedometer_to_zero, Bound, Stop, steps_at_max_mph

LEMMA ZeroOnGauge ==
    0 \in 0 .. steps_at_max_mph /\ 0 \in Stop .. (Travel - 90) /\ 0 \in 0 .. 127
  BY TravelAssumption, SMT DEF Stop, steps_at_max_mph

LEMMA NoTextOK ==
    /\ NoText \in [first : Lines \union {0}, lines : 0 .. 2]
    /\ NoText.first # X
  BY SMT DEF NoText, X

LEMMA BelievedInit == SpeedometerInit => Believed
  <1> SUFFICES ASSUME SpeedometerInit PROVE Believed
    OBVIOUS
  <1>1. SpeedometerTypeOK /\ NeedleWhereBelieved
    <2>1. turning \in BOOLEAN
      BY Zenon DEF SpeedometerInit
    <2>2. 0 \in Nat
      BY SMT
    <2>3. stepper_position = 0 /\ needle = 0 /\ current_speed_mph = 0 /\ xs = 0
      BY DEF SpeedometerInit
    <2> QED BY <2>1, <2>2, <2>3, ZeroOnGauge, Zenon DEF SpeedometerTypeOK, NeedleWhereBelieved
  <1>2. TextOK
    BY NoTextOK DEF SpeedometerInit, TextOK
  <1> QED BY <1>1, <1>2 DEF Believed, SpeedometerInv

(* A text that is a speed or no number at all is read as one of 0 .. 127.  *)
LEMMA ReadsSpeed == ASSUME Believed PROVE toFloat \in 0 .. 127
  <1>1. inputString.first \in Speeds \union {R, X, 0}
    BY SMT DEF Believed, TextOK, Lines
  <1>2. 0 \in 0 .. 127
    BY SMT
  <1>3. CASE IsSpeed(inputString.first)
    BY <1>1, <1>2, <1>3, SpeedsAssumption DEF IsSpeed, toFloat
  <1>4. CASE ~IsSpeed(inputString.first)
    BY <1>2, <1>4 DEF toFloat
  <1> QED BY <1>3, <1>4

LEMMA HandleLineKeeps == ASSUME Believed, HandleLine PROVE Believed'
  <1>1. SpeedometerInv /\ TextOK
    BY DEF Believed
  <1>2. toFloat \in 0 .. 127
    BY ReadsSpeed
  <1>3. /\ stepper_position' \in 0 .. steps_at_max_mph
        /\ needle' \in Stop .. (Travel - 90)
        /\ xs = 0 => needle' = stepper_position'
    <2>1. CASE IsSpeed(inputString.first) /\ (toFloat > 0 \/ Equals(0))
      BY <1>1, <1>2, <2>1, MoveKeeps DEF HandleLine
    <2>2. CASE ~(IsSpeed(inputString.first) /\ (toFloat > 0 \/ Equals(0))) /\ Equals(R)
      <3>1. stepper_position' = 0 /\ needle' = 0
        BY <1>1, <2>2, ResetKeeps DEF HandleLine
      <3> QED BY <3>1, ZeroOnGauge
    <2>3. CASE /\ ~(IsSpeed(inputString.first) /\ (toFloat > 0 \/ Equals(0)))
               /\ ~Equals(R) /\ Equals(X)
      <3>1. stepper_position' = 0 /\ needle' = needle
        BY <2>3 DEF HandleLine, zero_stepper_position
      <3>2. xs > 0
        BY <1>1, <2>3 DEF TextOK, Equals
      <3> QED BY <1>1, <3>1, <3>2, ZeroOnGauge, SMT DEF SpeedometerInv, SpeedometerTypeOK
    <2>4. CASE /\ ~(IsSpeed(inputString.first) /\ (toFloat > 0 \/ Equals(0)))
               /\ ~Equals(R) /\ ~Equals(X)
      <3>1. stepper_position' = stepper_position /\ needle' = needle
        BY <2>4 DEF HandleLine
      <3> QED BY <1>1, <3>1 DEF SpeedometerInv, SpeedometerTypeOK, NeedleWhereBelieved
    <2> QED BY <2>1, <2>2, <2>3, <2>4
  <1>4. /\ current_speed_mph' \in 0 .. 127 /\ turning' \in BOOLEAN /\ xs' = xs
        /\ inputString' = NoText
    BY <1>2 DEF HandleLine
  <1>5. TextOK'
    BY <1>4, NoTextOK DEF TextOK
  <1> QED BY <1>1, <1>3, <1>4, <1>5
          DEF Believed, SpeedometerInv, SpeedometerTypeOK, NeedleWhereBelieved

LEMMA ReceiveKeeps == ASSUME Believed, NEW l \in Lines, Receive(l) PROVE Believed'
  <1>1. xs' \in Nat /\ (l = X => xs' > 0) /\ xs' >= xs
    BY SMT DEF Believed, SpeedometerInv, SpeedometerTypeOK, Receive
  <1>2. /\ inputString' \in [first : Lines \union {0}, lines : 0 .. 2]
        /\ inputString'.first = X => xs' > 0
    <2>1. CASE inputString = NoText
      BY <1>1, <2>1, SMT DEF Receive, Appended
    <2>2. CASE inputString # NoText
      <3>1. inputString' = [inputString EXCEPT !.lines = 2]
        BY <2>2 DEF Receive, Appended
      <3> QED BY <1>1, <3>1, SMT DEF Believed, TextOK, SpeedometerInv, SpeedometerTypeOK
    <2> QED BY <2>1, <2>2
  <1>3. UNCHANGED <<stepper_position, needle, current_speed_mph, turning>>
    BY DEF Receive
  <1>4. xs' = 0 => xs = 0
    BY <1>1, SMT DEF Believed, SpeedometerInv, SpeedometerTypeOK
  <1> QED BY <1>1, <1>2, <1>3, <1>4
          DEF Believed, TextOK, SpeedometerInv, SpeedometerTypeOK, NeedleWhereBelieved

LEMMA LeftButtonKeeps == ASSUME Believed, LeftButton PROVE Believed'
  <1>1. stepper_position' = 0 /\ needle' = 0
    BY ResetKeeps DEF Believed, LeftButton
  <1> QED BY <1>1, ZeroOnGauge
          DEF Believed, TextOK, SpeedometerInv, SpeedometerTypeOK, NeedleWhereBelieved, LeftButton

LEMMA BelievedStep == ASSUME Believed, [SpeedometerNext]_speedVars PROVE Believed'
  <1>1. CASE HandleLine
    BY <1>1, HandleLineKeeps
  <1>2. CASE LeftButton
    BY <1>2, LeftButtonKeeps
  <1>3. ASSUME NEW l \in Lines, Receive(l) PROVE Believed'
    BY <1>3, ReceiveKeeps
  <1>4. CASE MotorStops
    BY <1>4 DEF MotorStops, Believed, TextOK, SpeedometerInv, SpeedometerTypeOK, NeedleWhereBelieved
  <1>5. CASE (\E v \in Speeds : HoldSpeed(v)) \/ UNCHANGED speedVars
    BY <1>5 DEF HoldSpeed, speedVars, Believed, TextOK, SpeedometerInv, SpeedometerTypeOK,
                NeedleWhereBelieved
  <1> QED BY <1>1, <1>2, <1>3, <1>4, <1>5 DEF SpeedometerNext

(* The sketch, which counts and never measures, always knows where the     *)
(* needle is until someone calls another place zero, and never counts      *)
(* past the scale: resets, zeroings and texts read together come in any    *)
(* order (speedometer.ino:100-260).                                        *)
THEOREM SpeedometerCorrect == SpeedometerSpec => []SpeedometerInv
  <1>1. SpeedometerInit => Believed
    BY BelievedInit
  <1>2. Believed /\ [SpeedometerNext]_speedVars => Believed'
    BY BelievedStep
  <1>3. Believed => SpeedometerInv
    BY DEF Believed
  <1> QED BY <1>1, <1>2, <1>3, PTL DEF SpeedometerSpec

-----------------------------------------------------------------------------
(***************************************************************************)
(* The instrument cluster (module InstrumentCluster).                      *)
(***************************************************************************)
D3Bits == {"backlight", "low"}
ClusterMessages == [speed : Bytes2, fuel : Bytes2, gear : 0 .. 255, lamps : SUBSET Lamps,
                    d1 : SUBSET Bits, d3 : SUBSET D3Bits]

(* Where the thread and the loop keep a copy of D1 or D3, the backlight bit*)
(* is on in it, as in what is sent.                                        *)
MessagesLit ==
    /\ tx \in ClusterMessages /\ cluster \in ClusterMessages
    /\ temp \in [d1 : SUBSET Bits, d3 : SUBSET D3Bits, from : {"none", "reset", "serial"}]
    /\ copy \subseteq Bits /\ (blinkPc = "setting" => "backlight" \in copy)
    /\ \A b \in {tx.d1, tx.d3, cluster.d1, cluster.d3, temp.d1, temp.d3} : "backlight" \in b
RecordsRead ==
    /\ beamng_vehicle \in [head : HeadHalf, tail : TailHalf]
    /\ port \in Seq(HeadHalf \cup TailHalf) /\ rest \in Seq(TailHalf)
    /\ records \in Nat /\ records <= MaxRecords
    /\ Len(rest) <= 1 /\ Len(port) + Len(rest) <= 2 * records
PlacesAndClocks ==
    /\ loopPc \in {"loop", "serial", "toggle"} /\ blinkPc \in {"lit", "clearing", "dark", "setting"}
    /\ leds \subseteq Turn \union {"brake"}
    /\ silent \in 0 .. SilenceLimit
    /\ due \in BOOLEAN /\ ran \in 0 .. EnoughRounds /\ lost \in BOOLEAN
ClusterInductive == MessagesLit /\ RecordsRead /\ PlacesAndClocks /\ DarkIsDark

(* What the conversions write fits the messages.                           *)
LEMMA TwoBytesAre == \A n \in Int : TwoBytes(n) \in Bytes2
  BY DEF TwoBytes, Bytes2

LEMMA SpeedSet ==
    ASSUME NEW t \in ClusterMessages, NEW mph \in Int
    PROVE  /\ set_speedometer(t, mph) \in ClusterMessages
           /\ set_speedometer(t, mph).d1 = t.d1 /\ set_speedometer(t, mph).d3 = t.d3
  <1>1. (mph * 2952) \div 100 \in Int
    OBVIOUS
  <1>2. TwoBytes((mph * 2952) \div 100) \in Bytes2
    BY <1>1, TwoBytesAre
  <1> QED BY <1>2 DEF set_speedometer, ClusterMessages

LEMMA FuelSet ==
    ASSUME NEW t \in ClusterMessages, NEW percent \in Int
    PROVE  /\ set_fuel_level(t, percent) \in ClusterMessages
           /\ set_fuel_level(t, percent).d1 = t.d1 /\ set_fuel_level(t, percent).d3 = t.d3
  <1>1. 309 + (457968 * (100 - percent)) \div 100000 \in Int
    OBVIOUS
  <1>2. TwoBytes(309 + (457968 * (100 - percent)) \div 100000) \in Bytes2
    BY <1>1, TwoBytesAre
  <1> QED BY <1>2 DEF set_fuel_level, ClusterMessages

LEMMA GearByte ==
    ASSUME NEW g \in Int
    PROVE  GearShown(g) \in 0 .. 255 /\ Park \in 0 .. 255
  BY DEF GearShown, RearGear, convert_gear_state_for_mfd, Park

(* The messages that a record, or silence, brings.                         *)
Shown(t, mph, percent, lamps, g) ==
    [get_indicator_lamp_states_0x200(set_fuel_level(set_speedometer(t, mph), percent), lamps)
        EXCEPT !.gear = g]
LEMMA RecordShown ==
    ASSUME NEW t \in ClusterMessages, NEW mph \in Int, NEW percent \in Int,
           NEW lamps \in SUBSET Lamps, NEW g, g \in 0 .. 255
    PROVE  /\ Shown(t, mph, percent, lamps, g) \in ClusterMessages
           /\ Shown(t, mph, percent, lamps, g).d1 = t.d1
           /\ Shown(t, mph, percent, lamps, g).d3 = t.d3
  <1> DEFINE v == set_fuel_level(set_speedometer(t, mph), percent)
  <1>1. v \in ClusterMessages /\ v.d1 = t.d1 /\ v.d3 = t.d3
    <2> DEFINE w == set_speedometer(t, mph)
    <2>1. w \in ClusterMessages /\ w.d1 = t.d1 /\ w.d3 = t.d3
      BY SpeedSet
    <2> HIDE DEF w
    <2>2. /\ set_fuel_level(w, percent) \in ClusterMessages
          /\ set_fuel_level(w, percent).d1 = w.d1 /\ set_fuel_level(w, percent).d3 = w.d3
      BY <2>1, FuelSet
    <2>3. v = set_fuel_level(w, percent)
      BY DEF w
    <2> QED BY <2>1, <2>2, <2>3
  <1> HIDE DEF v
  <1>2. Shown(t, mph, percent, lamps, g) = [[v EXCEPT !.lamps = lamps] EXCEPT !.gear = g]
    BY DEF get_indicator_lamp_states_0x200, v, Shown
  <1> QED BY <1>1, <1>2 DEF ClusterMessages

(* A record half taken from the port is one or the other.                  *)
LEMMA HalvesTaken ==
    ASSUME NEW h \in HeadHalf \cup TailHalf
    PROVE  AsHead(h) \in HeadHalf /\ AsTail(h) \in TailHalf
  <1>1. CASE h \in HeadHalf
    <2>1. DOMAIN h = {"speed", "fuel"}
      BY <1>1 DEF HeadHalf
    <2> QED BY <1>1, <2>1, HalvesAssumption DEF AsHead, AsTail, Kind
  <1>2. CASE h \in TailHalf
    <2>1. DOMAIN h = {"gear", "lamps", "headlights", "signals", "brake"}
      BY <1>2 DEF TailHalf
    <2> QED BY <1>2, <2>1, HalvesAssumption DEF AsHead, AsTail, Kind
  <1> QED BY <1>1, <1>2

LEMMA ClusterInitially == ClusterInit => ClusterInductive
  <1> SUFFICES ASSUME ClusterInit PROVE ClusterInductive
    OBVIOUS
  <1> USE DEF ClusterInit
  <1>1. Default \in ClusterMessages /\ "backlight" \in Default.d1 /\ "backlight" \in Default.d3
    BY TwoBytesAre DEF Default, ClusterMessages, Bits, D3Bits, Park
  <1>2. MessagesLit
    <2>1. Copies(Default, "none")
            \in [d1 : SUBSET Bits, d3 : SUBSET D3Bits, from : {"none", "reset", "serial"}]
      BY <1>1 DEF Copies, ClusterMessages
    <2> QED BY <1>1, <2>1 DEF MessagesLit, Copies
  <1>3. RecordsRead
    <2>1. << >> \in Seq(HeadHalf \cup TailHalf) /\ << >> \in Seq(TailHalf) /\ Len(<< >>) = 0
      BY EmptySeq
    <2>2. Memset \in [head : HeadHalf, tail : TailHalf]
      BY DEF Memset, Quiet, HeadHalf, TailHalf
    <2> QED BY <2>1, <2>2, RecordsAssumption DEF RecordsRead
  <1>4. PlacesAndClocks /\ DarkIsDark
    <2>1. silent \in 0 .. SilenceLimit /\ ran \in 0 .. EnoughRounds
      BY SilenceAssumption DEF EnoughRounds
    <2>2. leds \subseteq Turn \union {"brake"}
      OBVIOUS
    <2> QED BY <2>1, <2>2 DEF PlacesAndClocks, DarkIsDark
  <1> QED BY <1>2, <1>3, <1>4 DEF ClusterInductive

LEMMA RoundsCounted == ran \in 0 .. EnoughRounds => Rounds \in 0 .. EnoughRounds
  BY DEF Rounds, EnoughRounds

LEMMA LoopKeeps ==
    ASSUME ClusterInductive, Loop
    PROVE  ClusterInductive'
  <1> USE DEF ClusterInductive
  <1>1. /\ cluster' = tx /\ loopPc' \in {"serial", "toggle"}
        /\ UNCHANGED <<port, rest, records, blinkPc, copy, silent, due, ran, leds, lost>>
    BY DEF Loop, ResetToDefault
  <1>2. /\ tx' \in ClusterMessages /\ tx'.d1 = tx.d1 /\ tx'.d3 = tx.d3
        /\ beamng_vehicle' \in [head : HeadHalf, tail : TailHalf]
        /\ temp' = temp \/ temp' = Copies(tx, "reset")
    <2>1. CASE silent = SilenceLimit
      <3>1. tx' \in ClusterMessages /\ tx'.d1 = tx.d1 /\ tx'.d3 = tx.d3
        <4>1. tx' = Shown(tx, 0, 100, {}, Park)
          BY <2>1 DEF Loop, ResetToDefault, Shown
        <4>2. tx \in ClusterMessages /\ Park \in 0 .. 255 /\ {} \in SUBSET Lamps
          BY DEF MessagesLit, Park
        <4> QED BY <4>1, <4>2, RecordShown
      <3>2. beamng_vehicle' \in [head : HeadHalf, tail : TailHalf]
        <4>1. beamng_vehicle' = [beamng_vehicle EXCEPT !.tail.headlights = 0,
                                           !.tail.signals = {}, !.tail.lamps = {}]
          BY <2>1 DEF Loop, ResetToDefault
        <4>2. beamng_vehicle'.head = beamng_vehicle.head
              /\ beamng_vehicle'.tail = [beamng_vehicle.tail EXCEPT !.headlights = 0,
                                                         !.signals = {}, !.lamps = {}]
          BY <4>1 DEF RecordsRead
        <4>3. beamng_vehicle'.tail \in TailHalf
          <5>1. beamng_vehicle.tail \in TailHalf
            BY DEF RecordsRead
          <5>2. beamng_vehicle'.tail
                  = [gear |-> beamng_vehicle.tail.gear, lamps |-> {}, headlights |-> 0,
                     signals |-> {}, brake |-> beamng_vehicle.tail.brake]
            BY <4>2, <5>1 DEF TailHalf
          <5> QED BY <5>1, <5>2 DEF TailHalf
        <4> QED BY <4>1, <4>2, <4>3 DEF RecordsRead
      <3> QED BY <2>1, <3>1, <3>2 DEF Loop, ResetToDefault
    <2>2. CASE silent # SilenceLimit
      BY <2>2 DEF Loop, MessagesLit, RecordsRead
    <2> QED BY <2>1, <2>2
  <1>3. MessagesLit'
    BY <1>1, <1>2 DEF MessagesLit, Copies, ClusterMessages
  <1>4. RecordsRead'
    BY <1>1, <1>2 DEF RecordsRead
  <1>5. PlacesAndClocks' /\ DarkIsDark'
    BY <1>1, <1>2 DEF PlacesAndClocks, DarkIsDark
  <1> QED BY <1>3, <1>4, <1>5

LEMMA SerialKeeps ==
    ASSUME ClusterInductive, serialEvent
    PROVE  ClusterInductive'
  <1> USE DEF ClusterInductive
  <1>1. /\ port # << >> /\ beamng_vehicle' = ReadBytes /\ port' = SubSeq(port, 3, Len(port))
        /\ temp' = Copies(tx, "serial") /\ loopPc' = "toggle"
        /\ UNCHANGED <<rest, records, blinkPc, copy, silent, due, ran, cluster, leds, lost>>
    BY DEF serialEvent
  <1>2. Len(port) \in Nat /\ Len(port) >= 1 /\ \A k \in 1 .. Len(port) : port[k] \in HeadHalf \cup TailHalf
    BY <1>1, EmptySeq, LenProperties, ElementOfSeq DEF RecordsRead
  <1>3. ReadBytes \in [head : HeadHalf, tail : TailHalf]
    <2>1. AsHead(port[1]) \in HeadHalf
      BY <1>2, HalvesTaken
    <2>2. Len(port) > 1 => AsTail(port[2]) \in TailHalf
      BY <1>2, HalvesTaken
    <2>3. beamng_vehicle.tail \in TailHalf
      BY DEF RecordsRead
    <2> QED BY <2>1, <2>2, <2>3 DEF ReadBytes
  <1>4. port' \in Seq(HeadHalf \cup TailHalf) /\ Len(port') <= Len(port) /\ Len(port') \in Nat
    <2>1. CASE Len(port) >= 3
      BY <1>1, <1>2, <2>1, SubSeqProperties DEF RecordsRead
    <2>2. CASE Len(port) < 3
      <3>1. port' = << >>
        BY <1>1, <1>2, <2>2, SubSeqProperties DEF RecordsRead
      <3> QED BY <1>2, <3>1, EmptySeq
    <2> QED BY <1>2, <2>1, <2>2
  <1>5. RecordsRead'
    <2>1. Len(rest) \in Nat
      BY LenProperties DEF RecordsRead
    <2> QED BY <1>1, <1>2, <1>3, <1>4, <2>1, RecordsAssumption DEF RecordsRead
  <1>6. tx' \in ClusterMessages /\ tx'.d1 = tx.d1 /\ tx'.d3 = tx.d3
    <2>1. /\ ReadBytes.head.speed \in Int /\ ReadBytes.head.fuel \in Int
          /\ ReadBytes.tail.lamps \in SUBSET Lamps /\ ReadBytes.tail.gear \in Int
      BY <1>3 DEF HeadHalf, TailHalf
    <2>2. GearShown(ReadBytes.tail.gear) \in 0 .. 255
      BY <2>1, GearByte
    <2>3. tx' = Shown(tx, ReadBytes.head.speed, ReadBytes.head.fuel, ReadBytes.tail.lamps,
                      GearShown(ReadBytes.tail.gear))
      BY DEF serialEvent, Shown
    <2> HIDE DEF ClusterInductive
    <2>4. tx \in ClusterMessages
      BY DEF ClusterInductive, MessagesLit
    <2> QED BY <2>1, <2>2, <2>3, <2>4, RecordShown
  <1>7. MessagesLit'
    BY <1>1, <1>6 DEF MessagesLit, Copies, ClusterMessages
  <1>8. PlacesAndClocks' /\ DarkIsDark'
    BY <1>1, <1>6 DEF PlacesAndClocks, DarkIsDark
  <1> QED BY <1>5, <1>7, <1>8

(* The stores leave the backlight on, and the turn signals as they were or *)
(* lost is set.                                                            *)
LEMMA ToggleKeeps ==
    ASSUME ClusterInductive, Toggle
    PROVE  ClusterInductive'
  <1> USE DEF ClusterInductive
  <1> DEFINE w == toggle_headlight_state(beamng_vehicle.tail.headlights)
  <1>1. /\ w.d1 \subseteq Bits /\ w.d3 \subseteq D3Bits
        /\ "backlight" \in w.d1 /\ "backlight" \in w.d3
    BY DEF toggle_headlight_state, MessagesLit, ClusterMessages, Bits, D3Bits
  <1>2. /\ tx' = [tx EXCEPT !.d1 = w.d1, !.d3 = w.d3]
        /\ lost' = (lost \/ w.d1 \intersect Turn # tx.d1 \intersect Turn)
        /\ leds' \in {leds \union {"brake"}, leds \ {"brake"}}
        /\ silent' \in {silent, 0} /\ loopPc' \in {"loop", "serial"} /\ ran' \in {Rounds, ran}
        /\ temp' = Copies(Default, "none")
        /\ UNCHANGED <<beamng_vehicle, port, rest, records, blinkPc, copy, due, cluster>>
    BY DEF Toggle
  <1> HIDE DEF w
  <1>3. Default \in ClusterMessages /\ "backlight" \in Default.d1 /\ "backlight" \in Default.d3
    BY TwoBytesAre DEF Default, ClusterMessages, Bits, D3Bits, Park
  <1>4. tx' \in ClusterMessages /\ tx'.d1 = w.d1 /\ tx'.d3 = w.d3
    BY <1>1, <1>2 DEF MessagesLit, ClusterMessages
  <1>5. MessagesLit'
    <2>1. temp' \in [d1 : SUBSET Bits, d3 : SUBSET D3Bits, from : {"none", "reset", "serial"}]
          /\ temp'.d1 = Default.d1 /\ temp'.d3 = Default.d3
      BY <1>2, <1>3 DEF Copies, ClusterMessages
    <2> QED BY <1>1, <1>2, <1>3, <1>4, <2>1 DEF MessagesLit
  <1>6. RecordsRead'
    BY <1>2 DEF RecordsRead
  <1>7. PlacesAndClocks'
    <2>1. lost' \in BOOLEAN
      BY <1>2
    <2> QED BY <1>2, <2>1, RoundsCounted, SilenceAssumption DEF PlacesAndClocks
  <1>8. DarkIsDark'
    BY <1>2, <1>4 DEF DarkIsDark
  <1> QED BY <1>5, <1>6, <1>7, <1>8

LEMMA BlinkKeeps ==
    ASSUME ClusterInductive, blink_signal
    PROVE  ClusterInductive'
  <1> USE DEF ClusterInductive
  <1>1. UNCHANGED <<beamng_vehicle, port, rest, records, loopPc, temp, silent, cluster>>
    BY DEF blink_signal, BlinkLoadDark, BlinkStoreDark, BlinkLoadLit, BlinkStoreLit
  <1>2. RecordsRead'
    BY <1>1 DEF RecordsRead
  <1>3. beamng_vehicle.tail.signals \subseteq Turn
    BY DEF RecordsRead, TailHalf
  <1>4. CASE BlinkLoadDark
    <2> USE <1>4 DEF BlinkLoadDark
    <2>1. MessagesLit'
      BY <1>1 DEF MessagesLit, ClusterMessages
    <2>2. PlacesAndClocks' /\ DarkIsDark'
      BY <1>1 DEF PlacesAndClocks, DarkIsDark
    <2> QED BY <1>2, <2>1, <2>2
  <1>5. CASE BlinkStoreDark
    <2> USE <1>5 DEF BlinkStoreDark
    <2>1. Cleared(copy) \subseteq Bits /\ "backlight" \in Cleared(copy)
          /\ Cleared(copy) \cap Turn = {}
      BY DEF MessagesLit, Cleared, Bits, Turn
    <2>2. tx' \in ClusterMessages /\ tx'.d1 = Cleared(copy) /\ tx'.d3 = tx.d3
      BY <2>1 DEF MessagesLit, ClusterMessages
    <2>3. MessagesLit'
      BY <1>1, <2>1, <2>2 DEF MessagesLit
    <2>4. PlacesAndClocks' /\ DarkIsDark'
      <3>1. due' = FALSE /\ ran' = 0 /\ lost' = FALSE /\ leds' = leds /\ blinkPc' = "dark"
        OBVIOUS
      <3>2. PlacesAndClocks'
        <4>1. ran' \in 0 .. EnoughRounds /\ silent' \in 0 .. SilenceLimit
          BY <1>1, <3>1 DEF PlacesAndClocks, EnoughRounds
        <4> QED BY <1>1, <3>1, <4>1 DEF PlacesAndClocks
      <3> QED BY <2>1, <2>2, <3>2 DEF DarkIsDark
    <2> QED BY <1>2, <2>3, <2>4
  <1>6. CASE BlinkLoadLit
    <2> USE <1>6 DEF BlinkLoadLit
    <2>1. copy' \subseteq Bits /\ "backlight" \in copy'
      BY <1>3 DEF MessagesLit, ClusterMessages, Bits, Turn
    <2>2. MessagesLit'
      BY <1>1, <2>1 DEF MessagesLit
    <2>3. PlacesAndClocks' /\ DarkIsDark'
      BY <1>1, <1>3 DEF PlacesAndClocks, DarkIsDark
    <2> QED BY <1>2, <2>2, <2>3
  <1>7. CASE BlinkStoreLit
    <2> USE <1>7 DEF BlinkStoreLit
    <2>1. tx' \in ClusterMessages /\ tx'.d1 = copy /\ tx'.d3 = tx.d3
      BY DEF MessagesLit, ClusterMessages
    <2>2. MessagesLit'
      BY <1>1, <2>1 DEF MessagesLit
    <2>3. PlacesAndClocks' /\ DarkIsDark'
      <3>1. due' = FALSE /\ ran' = 0 /\ UNCHANGED <<lost, leds>> /\ blinkPc' = "lit"
        OBVIOUS
      <3>2. ran' \in 0 .. EnoughRounds /\ silent' \in 0 .. SilenceLimit
        BY <1>1, <3>1 DEF PlacesAndClocks, EnoughRounds
      <3> QED BY <1>1, <3>1, <3>2 DEF PlacesAndClocks, DarkIsDark
    <2> QED BY <1>2, <2>2, <2>3
  <1> QED BY <1>4, <1>5, <1>6, <1>7 DEF blink_signal

LEMMA SimulatorKeeps ==
    ASSUME ClusterInductive, Simulator
    PROVE  ClusterInductive'
  <1> USE DEF ClusterInductive
  <1> DEFINE Half == HeadHalf \cup TailHalf
  <1>1. UNCHANGED <<tx, beamng_vehicle, loopPc, temp, blinkPc, copy, silent, due, ran, cluster,
                    leds, lost>>
    BY DEF Simulator, SendRest, SendRecord
  <1>2. MessagesLit' /\ PlacesAndClocks' /\ DarkIsDark'
    BY <1>1 DEF MessagesLit, PlacesAndClocks, DarkIsDark
  <1>3. /\ port \in Seq(Half) /\ Len(port) \in Nat /\ rest \in Seq(Half) /\ Len(rest) \in Nat
        /\ Len(rest) <= 1 /\ Len(port) + Len(rest) <= 2 * records
        /\ records \in Nat /\ records <= MaxRecords
    <2>1. rest \in Seq(TailHalf)
      BY DEF RecordsRead
    <2>2. rest \in Seq(Half)
      BY <2>1, SeqMonotonic
    <2> QED BY <2>1, <2>2, LenProperties DEF RecordsRead
  <1>4. CASE SendRest
    <2>1. port' = port \o rest /\ rest' = << >> /\ records' = records
      BY <1>4 DEF SendRest
    <2>2. port' \in Seq(Half) /\ Len(port') = Len(port) + Len(rest)
      BY <1>3, <2>1, ConcatProperties
    <2>3. << >> \in Seq(TailHalf) /\ Len(<< >>) = 0
      BY EmptySeq
    <2> QED BY <1>1, <1>2, <1>3, <2>1, <2>2, <2>3 DEF RecordsRead
  <1>5. ASSUME NEW h \in Heads, NEW t \in Tails, SendRecord(h, t)
        PROVE  ClusterInductive'
    <2>1. h \in Half /\ t \in Half /\ t \in TailHalf
      BY HalvesAssumption
    <2>2. records < MaxRecords /\ rest = << >> /\ records' = records + 1
          /\ \/ port' = port \o <<h, t>> /\ rest' = rest
             \/ port' = Append(port, h) /\ rest' = <<t>>
      BY <1>5 DEF SendRecord
    <2>3. Len(rest) = 0
      BY <2>2, EmptySeq
    <2>4. <<h, t>> \in Seq(Half) /\ Len(<<h, t>>) = 2 /\ <<t>> \in Seq(TailHalf) /\ Len(<<t>>) = 1
      BY <2>1
    <2>5. CASE port' = port \o <<h, t>> /\ rest' = rest
      <3>1. port' \in Seq(Half) /\ Len(port') = Len(port) + 2
        BY <1>3, <2>4, <2>5, ConcatProperties
      <3> QED BY <1>1, <1>2, <1>3, <2>2, <2>3, <2>5, <3>1, RecordsAssumption DEF RecordsRead
    <2>6. CASE port' = Append(port, h) /\ rest' = <<t>>
      <3>1. port' \in Seq(Half) /\ Len(port') = Len(port) + 1
        BY <1>3, <2>1, <2>6, AppendProperties
      <3> QED BY <1>1, <1>2, <1>3, <2>2, <2>3, <2>4, <2>6, <3>1, RecordsAssumption DEF RecordsRead
    <2> QED BY <2>2, <2>5, <2>6
  <1> QED BY <1>4, <1>5 DEF Simulator

LEMMA ClusterStepKeeps == ClusterInductive /\ [ClusterNext]_clusterVars => ClusterInductive'
  <1> SUFFICES ASSUME ClusterInductive, [ClusterNext]_clusterVars PROVE ClusterInductive'
    OBVIOUS
  <1>1. CASE MainLoop
    <2>1. CASE SerialIdle
      BY <2>1, RoundsCounted DEF SerialIdle, ClusterInductive, MessagesLit, RecordsRead,
                                 PlacesAndClocks, DarkIsDark
    <2> QED BY <1>1, <2>1, LoopKeeps, SerialKeeps, ToggleKeeps DEF MainLoop
  <1>2. CASE Tick
    BY <1>2, SilenceAssumption DEF Tick, ClusterInductive, MessagesLit, RecordsRead,
                                   PlacesAndClocks, DarkIsDark
  <1>3. CASE UNCHANGED clusterVars
    BY <1>3 DEF clusterVars, ClusterInductive, MessagesLit, RecordsRead,
                PlacesAndClocks, DarkIsDark
  <1> QED BY <1>1, <1>2, <1>3, BlinkKeeps, SimulatorKeeps DEF ClusterNext

(* What the sketch sends to the cluster is well typed with its backlight on*)
(* (ClusterTypeOK), and dark in the dark half of a blink unless the loop   *)
(* stored an old copy (DarkIsDark), for every set of records, stray bytes, *)
(* reset limit and number of records, with rear lights or without.         *)
THEOREM ClusterCorrect == ClusterSpec => []ClusterInv
  <1>1. ClusterInductive => ClusterInv
    <2> SUFFICES ASSUME ClusterInductive PROVE ClusterTypeOK /\ DarkIsDark
      BY DEF ClusterInv
    <2> USE DEF ClusterInductive
    <2>1. Len(port) <= 2 * MaxRecords
      <3>1. Len(port) \in Nat /\ Len(rest) \in Nat
        BY LenProperties DEF RecordsRead
      <3> QED BY <3>1, RecordsAssumption DEF RecordsRead
    <2>2. Messages(tx) /\ Messages(cluster)
      BY DEF Messages, MessagesLit, ClusterMessages, D3Bits
    <2> QED BY <2>1, <2>2 DEF ClusterTypeOK, MessagesLit, PlacesAndClocks
  <1> QED BY <1>1, ClusterInitially, ClusterStepKeeps, PTL DEF ClusterSpec

-----------------------------------------------------------------------------
(***************************************************************************)
(* The infotainment servers (module Infotainment).                         *)
(***************************************************************************)
Ids == Dim \union {"BUTTON_PRESSED", "INFOTAINMENT_STATE", "HEARTBEAT_REQ", "HEARTBEAT_ACK", "junk"}
Sender == Server \union {"client", "sim", "tool"}
Datagram == UNION {[from : Sender, id : {i}, val : ValueOf(i)] : i \in Ids}

(* Server by server: what the type invariant says, what a server that has  *)
(* not started is, and where a running one is.                             *)
ServersTyped ==
    /\ st \in [Server -> InfotainmentState]
    /\ pc \in [Server -> {"start", "recv", "done"}]
    /\ inbox \in [Server -> Seq(Datagram)]
    /\ localAddress \in [Server -> Server \union {0}]
    /\ music \in [Server -> {NoByte} \union (0 .. ByteSize - 1)]
    /\ relayLost \in BOOLEAN
Counted ==
    /\ sent \in 0 .. MaxSent /\ interrupts \in 0 .. MaxInterrupts
    /\ \A s \in Server : Len(inbox[s]) <= MaxInbox
NotStarted ==
    \A s \in Server : pc[s] = "start" =>
        /\ inbox[s] = << >> /\ music[s] = NoByte
        /\ \A d \in Dim : st[s].pos[d] = 0
RunningReceives == \A s \in Server : st[s].T = "RUNNING" => pc[s] = "recv"

(* The last position of dimension d that a server relayed, in a socket, and*)
(* the last one that its own server did.                                   *)
Relayed(f, d) == f.from \in Server /\ f.id = d
NoRelay(q, d) == \A i \in 1 .. Len(q) : ~ Relayed(q[i], d)
LastRelay(q, d, v) ==
    \E i \in 1 .. Len(q) : /\ Relayed(q[i], d) /\ q[i].val = iu_htonf(v)
                           /\ \A j \in 1 .. Len(q) : j > i => ~ Relayed(q[j], d)
OwnRelay(q, x, d, v) ==
    \A i \in 1 .. Len(q) :
        (q[i].from = x /\ q[i].id = d /\ \A j \in 1 .. Len(q) : j > i => ~(q[j].from = x /\ q[j].id = d))
            => q[i].val = iu_htonf(v)

(* While no relay is lost, all servers that listen, or will, have or are to*)
(* read one position; what a server relayed last is what it shows.         *)
Follows(x, d, v) == LastRelay(inbox[x], d, v) \/ (NoRelay(inbox[x], d) /\ st[x].pos[d] = v)
Agree ==
    ~ relayLost =>
        \A d \in Dim : /\ \E v \in Pos : \A x \in Server : pc[x] # "done" => Follows(x, d, v)
                       /\ \A x \in Server : OwnRelay(inbox[x], x, d, st[x].pos[d])

InfotainmentInductive ==
    /\ ServersTyped /\ Counted /\ NotStarted /\ RunningReceives
    /\ VolumeConsistent /\ MusicShown /\ Agree
-----------------------------------------------------------------------------

LEMMA DatagramFields ==
    ASSUME NEW f
    PROVE  f \in Datagram <=>
             /\ f = [from |-> f.from, id |-> f.id, val |-> f.val]
             /\ f.from \in Sender /\ f.id \in Ids /\ f.val \in ValueOf(f.id)
  <1>1. f \in Datagram => \E i \in Ids : f \in [from : Sender, id : {i}, val : ValueOf(i)]
    BY Zenon DEF Datagram
  <1>2. ASSUME NEW i \in Ids, f \in [from : Sender, id : {i}, val : ValueOf(i)]
        PROVE  f \in Datagram
    BY <1>2, Zenon DEF Datagram
  <1>3. ASSUME f = [from |-> f.from, id |-> f.id, val |-> f.val],
               f.from \in Sender, f.id \in Ids, f.val \in ValueOf(f.id)
        PROVE  f \in [from : Sender, id : {f.id}, val : ValueOf(f.id)]
    BY <1>3
  <1>4. ASSUME NEW i \in Ids, f \in [from : Sender, id : {i}, val : ValueOf(i)]
        PROVE  /\ f = [from |-> f.from, id |-> f.id, val |-> f.val]
               /\ f.from \in Sender /\ f.id = i /\ f.val \in ValueOf(i)
    BY <1>4
  <1> QED BY <1>1, <1>2, <1>3, <1>4, Zenon

LEMMA FrameIsDatagram ==
    ASSUME NEW who \in Sender, NEW i \in Ids, NEW val \in ValueOf(i)
    PROVE  Frame(who, i, val) \in Datagram /\ Frame(who, i, val).from = who
           /\ Frame(who, i, val).id = i /\ Frame(who, i, val).val = val
  <1>1. Frame(who, i, val) = [from |-> who, id |-> i, val |-> val]
    BY DEF Frame
  <1> QED BY <1>1, DatagramFields

LEMMA BytesOfState ==
    /\ \A d \in Dim : ValueOf(d) = {iu_htonf(v) : v \in Pos}
    /\ ValueOf("BUTTON_PRESSED") = ButtonIds
    /\ ValueOf("INFOTAINMENT_STATE") = 0 .. ByteSize - 1
    /\ ValueOf("HEARTBEAT_ACK") = [addr : Server \union {0}, req : 0 .. MaxSent]
    /\ ValueOf("HEARTBEAT_REQ") = 0 .. MaxSent
    /\ ValueOf("junk") = 0 .. MaxSent
  BY NamesAssumption, Zenon DEF ValueOf

LEMMA PositionOnTheWire ==
    ASSUME NEW d \in Dim, NEW w \in ValueOf(d)
    PROVE  iu_ntohf(w) \in Pos /\ w = iu_htonf(iu_ntohf(w))
  <1>1. PICK v \in Pos : w = iu_htonf(v)
    BY BytesOfState
  <1>2. iu_ntohf(iu_htonf(v)) = v
    BY DEF iu_ntohf, iu_htonf
  <1> QED BY <1>1, <1>2

LEMMA HtonfOnce ==
    ASSUME NEW v, NEW w, iu_htonf(v) = iu_htonf(w)
    PROVE  v = w
  BY DEF iu_htonf

(* The music.                                                              *)
InStep(m) == IF m.V = "UNKNOWN" THEN m.volume = 0 ELSE m.V = VolumeState(m.volume)
Plays(m) == IF m.M = "PLAYING" THEN 1 ELSE 0

LEMMA ByteShows ==
    ASSUME NEW m \in InfotainmentState
    PROVE  /\ music_state_packet(m) \in 0 .. ByteSize - 1
           /\ volume(music_state_packet(m)) = m.volume
           /\ station(music_state_packet(m)) = m.station
           /\ play(music_state_packet(m)) = Plays(m)
  <1>1. m.volume \in 0 .. MAX_VOLUME /\ m.station \in 0 .. 3
    BY DEF InfotainmentState, MIN_VOLUME
  <1>2. Plays(m) \in 0 .. 1
    BY DEF Plays
  <1> DEFINE v == m.volume
             t == m.station
             p == Plays(m)
             b == v * 8 + t * 2 + p
  <1>3. music_state_packet(m) = b % ByteSize
    BY DEF music_state_packet, Plays
  <1>4. v \in Nat /\ v <= MAX_VOLUME /\ t \in 0 .. 3 /\ p \in 0 .. 1 /\ MAX_VOLUME \in Nat
    BY <1>1, <1>2, VolumeAssumption
  <1> HIDE DEF v, t, p
  <1>5. b \in 0 .. ByteSize - 1 /\ ByteSize \in Nat /\ ByteSize > 0
    BY <1>4 DEF ByteSize
  <1>6. b \div 8 = v /\ (b \div 2) % 4 = t /\ b % 2 = p
    BY <1>4
  <1> HIDE DEF b
  <1>7. b % ByteSize = b
    BY <1>5
  <1> QED BY <1>3, <1>5, <1>6, <1>7 DEF volume, station, play, v, t, p

LEMMA PressKeepsStep ==
    ASSUME NEW m \in InfotainmentState, InStep(m), NEW button
    PROVE  /\ handle_button_press(m, button) \in InfotainmentState
           /\ InStep(handle_button_press(m, button))
           /\ handle_button_press(m, button).pos = m.pos
           /\ handle_button_press(m, button).T = m.T
  <1> DEFINE Kept(n) == n \in InfotainmentState /\ InStep(n) /\ n.pos = m.pos /\ n.T = m.T
  <1>1. ASSUME NEW n, n \in 0 .. 3
        PROVE  Kept(set_station(m, n))
    <2>1. /\ [m EXCEPT !.M = "PLAYING"] \in InfotainmentState
          /\ [m EXCEPT !.M = "PLAYING"].V = m.V /\ [m EXCEPT !.M = "PLAYING"].volume = m.volume
          /\ [m EXCEPT !.M = "PLAYING"].pos = m.pos /\ [m EXCEPT !.M = "PLAYING"].T = m.T
      BY DEF InfotainmentState
    <2> DEFINE p == [m EXCEPT !.M = "PLAYING"]
               q == [p EXCEPT !.S = "SET", !.station = n]
    <2>2. p \in InfotainmentState
      BY <2>1
    <2> HIDE DEF p
    <2>3. q \in InfotainmentState /\ q.V = p.V /\ q.volume = p.volume /\ q.pos = p.pos /\ q.T = p.T
      BY <1>1, <2>2 DEF InfotainmentState
    <2>4. set_station(m, n) = q
      BY Zenon DEF set_station, p
    <2> HIDE DEF q
    <2> QED BY <2>1, <2>3, <2>4 DEF InStep, p
  <1>2. ASSUME NEW v \in 0 .. MAX_VOLUME
        PROVE  Kept(WithVolume(m, v, VolumeState(v)))
    <2>1. VolumeState(v) \in {"OFF", "IN_RANGE", "MAX"}
      BY DEF VolumeState
    <2>2. /\ WithVolume(m, v, VolumeState(v)) \in InfotainmentState
          /\ WithVolume(m, v, VolumeState(v)).V = VolumeState(v)
          /\ WithVolume(m, v, VolumeState(v)).volume = v
          /\ WithVolume(m, v, VolumeState(v)).pos = m.pos
          /\ WithVolume(m, v, VolumeState(v)).T = m.T
      BY <2>1 DEF WithVolume, InfotainmentState, MIN_VOLUME
    <2> QED BY <2>1, <2>2 DEF InStep
  <1>3. /\ m.volume \in 0 .. MAX_VOLUME /\ m.V \in {"OFF", "UNKNOWN", "IN_RANGE", "MAX"}
        /\ m.V # "UNKNOWN" => m.V = VolumeState(m.volume)
    BY DEF InfotainmentState, MIN_VOLUME, InStep
  <1>4. DEFAULT_VOLUME \in 0 .. MAX_VOLUME /\ VolumeState(DEFAULT_VOLUME) = "IN_RANGE"
    BY VolumeAssumption DEF VolumeState, MIN_VOLUME
  <1>5. Kept(increase_volume(m))
    <2>1. CASE m.V = "UNKNOWN"
      BY <1>2, <1>4, <2>1 DEF increase_volume
    <2>2. CASE m.V \in {"IN_RANGE", "OFF"}
      <3>1. m.volume + 1 \in 0 .. MAX_VOLUME
            /\ VolumeState(m.volume + 1) = IF m.volume + 1 = MAX_VOLUME THEN "MAX" ELSE "IN_RANGE"
        BY <1>3, <2>2, VolumeAssumption DEF VolumeState, MIN_VOLUME
      <3>2. increase_volume(m) = WithVolume(m, m.volume + 1, VolumeState(m.volume + 1))
        BY <2>2, <3>1 DEF increase_volume
      <3> QED BY <1>2, <3>1, <3>2
    <2>3. CASE m.V = "MAX"
      BY <2>3 DEF increase_volume
    <2> QED BY <1>3, <2>1, <2>2, <2>3
  <1>6. Kept(decrease_volume(m))
    <2>1. CASE m.V = "UNKNOWN"
      BY <1>2, <1>4, <2>1 DEF decrease_volume
    <2>2. CASE m.V \in {"IN_RANGE", "MAX"}
      <3>1. m.volume - 1 \in 0 .. MAX_VOLUME
            /\ VolumeState(m.volume - 1) = IF m.volume - 1 = MIN_VOLUME THEN "OFF" ELSE "IN_RANGE"
        BY <1>3, <2>2, VolumeAssumption DEF VolumeState, MIN_VOLUME
      <3>2. decrease_volume(m) = WithVolume(m, m.volume - 1, VolumeState(m.volume - 1))
        BY <2>2, <3>1 DEF decrease_volume
      <3> QED BY <1>2, <3>1, <3>2
    <2>3. CASE m.V = "OFF"
      BY <2>3 DEF decrease_volume
    <2> QED BY <1>3, <2>1, <2>2, <2>3
  <1> HIDE DEF Kept
  <1>7. Kept(m)
    BY DEF Kept
  <1>8. Kept(handle_button_press(m, button))
    BY <1>1, <1>5, <1>6, <1>7 DEF handle_button_press
  <1> QED BY <1>8 DEF Kept

(* Sockets: one datagram more, one less.                                   *)
LEMMA DatagramAppended ==
    ASSUME NEW q \in Seq(Datagram), NEW f \in Datagram
    PROVE  /\ Append(q, f) \in Seq(Datagram) /\ Len(Append(q, f)) = Len(q) + 1 /\ Len(q) \in Nat
           /\ Append(q, f)[Len(q) + 1] = f
           /\ \A i \in 1 .. Len(q) : Append(q, f)[i] = q[i]
  BY AppendProperties, LenProperties

LEMMA Popping ==
    ASSUME NEW q \in Seq(Datagram), q # << >>
    PROVE  /\ Tail(q) \in Seq(Datagram) /\ Len(Tail(q)) = Len(q) - 1 /\ Len(q) \in Nat \ {0}
           /\ Head(q) = q[1] /\ Head(q) \in Datagram
           /\ \A i \in 1 .. Len(q) - 1 : Tail(q)[i] = q[i + 1]
  BY HeadTailProperties, LenProperties, EmptySeq, ElementOfSeq

LEMMA RelayAppended ==
    ASSUME NEW q \in Seq(Datagram), NEW f \in Datagram, NEW d, NEW v,
           Relayed(f, d), f.val = iu_htonf(v)
    PROVE  LastRelay(Append(q, f), d, v)
  <1> DEFINE n == Len(q) + 1
  <1>1. /\ n \in 1 .. Len(Append(q, f)) /\ Append(q, f)[n] = f
        /\ \A j \in 1 .. Len(Append(q, f)) : ~ (j > n)
    BY DatagramAppended
  <1> HIDE DEF n
  <1> QED BY <1>1 DEF LastRelay

LEMMA OtherAppended ==
    ASSUME NEW q \in Seq(Datagram), NEW f \in Datagram, NEW d, NEW v, ~ Relayed(f, d)
    PROVE  /\ LastRelay(q, d, v) => LastRelay(Append(q, f), d, v)
           /\ NoRelay(q, d) => NoRelay(Append(q, f), d)
  <1>1. ASSUME LastRelay(q, d, v) PROVE LastRelay(Append(q, f), d, v)
    <2>1. PICK i \in 1 .. Len(q) : /\ Relayed(q[i], d) /\ q[i].val = iu_htonf(v)
                                   /\ \A j \in 1 .. Len(q) : j > i => ~ Relayed(q[j], d)
      BY <1>1 DEF LastRelay
    <2>2. i \in 1 .. Len(Append(q, f)) /\ Append(q, f)[i] = q[i]
      BY DatagramAppended
    <2>3. ASSUME NEW j \in 1 .. Len(Append(q, f)), j > i
          PROVE  ~ Relayed(Append(q, f)[j], d)
      <3>1. CASE j = Len(q) + 1
        BY <3>1, DatagramAppended
      <3>2. CASE j \in 1 .. Len(q)
        BY <2>1, <2>3, <3>2, DatagramAppended
      <3> QED BY <3>1, <3>2, DatagramAppended
    <2> QED BY <2>1, <2>2, <2>3 DEF LastRelay
  <1>2. ASSUME NoRelay(q, d) PROVE NoRelay(Append(q, f), d)
    <2>1. ASSUME NEW j \in 1 .. Len(Append(q, f)) PROVE ~ Relayed(Append(q, f)[j], d)
      <3>1. CASE j = Len(q) + 1
        BY <3>1, DatagramAppended
      <3>2. CASE j \in 1 .. Len(q)
        BY <1>2, <3>2, DatagramAppended DEF NoRelay
      <3> QED BY <3>1, <3>2, DatagramAppended
    <2> QED BY <2>1 DEF NoRelay
  <1> QED BY <1>1, <1>2

LEMMA Popped1 ==
    ASSUME NEW q \in Seq(Datagram), q # << >>, NEW d, NEW v
    PROVE  /\ LastRelay(q, d, v) => \/ LastRelay(Tail(q), d, v)
                                    \/ NoRelay(Tail(q), d) /\ Relayed(Head(q), d)
                                       /\ Head(q).val = iu_htonf(v)
           /\ NoRelay(q, d) => NoRelay(Tail(q), d) /\ ~ Relayed(Head(q), d)
  <1>1. ASSUME LastRelay(q, d, v)
        PROVE  \/ LastRelay(Tail(q), d, v)
               \/ NoRelay(Tail(q), d) /\ Relayed(Head(q), d) /\ Head(q).val = iu_htonf(v)
    <2>1. PICK i \in 1 .. Len(q) : /\ Relayed(q[i], d) /\ q[i].val = iu_htonf(v)
                                   /\ \A j \in 1 .. Len(q) : j > i => ~ Relayed(q[j], d)
      BY <1>1 DEF LastRelay
    <2>2. CASE i = 1
      <3>1. ASSUME NEW j \in 1 .. Len(Tail(q)) PROVE ~ Relayed(Tail(q)[j], d)
        <4>1. j \in 1 .. Len(q) - 1 /\ j + 1 \in 1 .. Len(q) /\ j + 1 > i
          BY <2>2, Popping
        <4> QED BY <2>1, <4>1, Popping
      <3> QED BY <2>1, <2>2, <3>1, Popping DEF NoRelay
    <2>3. CASE i # 1
      <3> DEFINE k == i - 1
      <3>1. k \in 1 .. Len(Tail(q)) /\ k \in 1 .. Len(q) - 1 /\ k + 1 = i
        BY <2>3, Popping
      <3> HIDE DEF k
      <3>2. Tail(q)[k] = q[i]
        BY <3>1, Popping
      <3>3. ASSUME NEW j \in 1 .. Len(Tail(q)), j > k PROVE ~ Relayed(Tail(q)[j], d)
        <4>1. j \in 1 .. Len(q) - 1 /\ j + 1 \in 1 .. Len(q) /\ j + 1 > i
          BY <3>1, <3>3, Popping
        <4> QED BY <2>1, <4>1, Popping
      <3> QED BY <2>1, <3>1, <3>2, <3>3 DEF LastRelay
    <2> QED BY <2>2, <2>3
  <1>2. ASSUME NoRelay(q, d) PROVE NoRelay(Tail(q), d) /\ ~ Relayed(Head(q), d)
    <2>1. ASSUME NEW j \in 1 .. Len(Tail(q)) PROVE ~ Relayed(Tail(q)[j], d)
      <3>1. j \in 1 .. Len(q) - 1 /\ j + 1 \in 1 .. Len(q)
        BY Popping
      <3> QED BY <1>2, <3>1, Popping DEF NoRelay
    <2>2. 1 \in 1 .. Len(q) /\ Head(q) = q[1]
      BY Popping
    <2> QED BY <1>2, <2>1, <2>2 DEF NoRelay
  <1> QED BY <1>1, <1>2

LEMMA OwnAppended ==
    ASSUME NEW q \in Seq(Datagram), NEW f \in Datagram, NEW x, NEW d, NEW v,
           \/ f.from = x /\ f.id = d /\ f.val = iu_htonf(v)
           \/ ~ (f.from = x /\ f.id = d) /\ OwnRelay(q, x, d, v)
    PROVE  OwnRelay(Append(q, f), x, d, v)
  <1> SUFFICES ASSUME NEW i \in 1 .. Len(Append(q, f)),
                      Append(q, f)[i].from = x, Append(q, f)[i].id = d,
                      \A j \in 1 .. Len(Append(q, f)) :
                         j > i => ~ (Append(q, f)[j].from = x /\ Append(q, f)[j].id = d)
               PROVE  Append(q, f)[i].val = iu_htonf(v)
    BY DEF OwnRelay
  <1>1. CASE i = Len(q) + 1
    BY <1>1, DatagramAppended
  <1>2. CASE i \in 1 .. Len(q)
    <2>1. Len(q) + 1 \in 1 .. Len(Append(q, f)) /\ Len(q) + 1 > i /\ Append(q, f)[Len(q) + 1] = f
      BY <1>2, DatagramAppended
    <2>2. ~ (f.from = x /\ f.id = d) /\ OwnRelay(q, x, d, v)
      BY <2>1
    <2>3. ASSUME NEW j \in 1 .. Len(q), j > i PROVE ~ (q[j].from = x /\ q[j].id = d)
      <3>1. j \in 1 .. Len(Append(q, f)) /\ Append(q, f)[j] = q[j]
        BY DatagramAppended
      <3> QED BY <2>3, <3>1
    <2>4. Append(q, f)[i] = q[i]
      BY <1>2, DatagramAppended
    <2> QED BY <1>2, <2>2, <2>3, <2>4 DEF OwnRelay
  <1> QED BY <1>1, <1>2, DatagramAppended

LEMMA OwnPopped ==
    ASSUME NEW q \in Seq(Datagram), q # << >>, NEW x, NEW d, NEW v, OwnRelay(q, x, d, v)
    PROVE  OwnRelay(Tail(q), x, d, v)
  <1> SUFFICES ASSUME NEW i \in 1 .. Len(Tail(q)), Tail(q)[i].from = x, Tail(q)[i].id = d,
                      \A j \in 1 .. Len(Tail(q)) :
                         j > i => ~ (Tail(q)[j].from = x /\ Tail(q)[j].id = d)
               PROVE  Tail(q)[i].val = iu_htonf(v)
    BY DEF OwnRelay
  <1> DEFINE k == i + 1
  <1>1. i \in 1 .. Len(q) - 1 /\ k \in 1 .. Len(q) /\ Tail(q)[i] = q[k] /\ k = i + 1
    BY Popping
  <1> HIDE DEF k
  <1>2. ASSUME NEW j \in 1 .. Len(q), j > k PROVE ~ (q[j].from = x /\ q[j].id = d)
    <2> DEFINE h == j - 1
    <2>1. h \in 1 .. Len(Tail(q)) /\ h > i /\ h \in 1 .. Len(q) - 1 /\ h + 1 = j
      BY <1>1, <1>2, Popping
    <2> HIDE DEF h
    <2>2. Tail(q)[h] = q[j]
      BY <2>1, Popping
    <2> QED BY <2>1, <2>2
  <1> QED BY <1>1, <1>2 DEF OwnRelay

(* A first datagram that is the last relay and the server's own says where *)
(* the server is.                                                          *)
LEMMA OwnHead ==
    ASSUME NEW q \in Seq(Datagram), q # << >>, NEW x \in Server, NEW d, NEW v, NEW w,
           OwnRelay(q, x, d, v), Head(q).from = x, Head(q).id = d, NoRelay(Tail(q), d),
           Head(q).val = iu_htonf(w)
    PROVE  v = w
  <1>1. 1 \in 1 .. Len(q) /\ Head(q) = q[1]
    BY Popping
  <1>2. ASSUME NEW j \in 1 .. Len(q), j > 1 PROVE ~ (q[j].from = x /\ q[j].id = d)
    <2> DEFINE h == j - 1
    <2>1. h \in 1 .. Len(Tail(q)) /\ h \in 1 .. Len(q) - 1 /\ h + 1 = j
      BY <1>2, Popping
    <2> HIDE DEF h
    <2>2. Tail(q)[h] = q[j]
      BY <2>1, Popping
    <2>3. ~ Relayed(q[j], d)
      BY <2>1, <2>2 DEF NoRelay
    <2> QED BY <2>3 DEF Relayed
  <1>3. q[1].val = iu_htonf(v)
    BY <1>1, <1>2 DEF OwnRelay
  <1> QED BY <1>1, <1>3, HtonfOnce

-----------------------------------------------------------------------------
LEMMA InfotainmentStarts == Init => InfotainmentInductive
  <1> SUFFICES ASSUME Init PROVE InfotainmentInductive
    OBVIOUS
  <1>1. /\ st = [s \in Server |-> [Initialized EXCEPT !.T = "START"]]
        /\ pc = [s \in Server |-> "start"] /\ inbox = [s \in Server |-> << >>]
        /\ localAddress = [s \in Server |-> 0] /\ sent = 0 /\ interrupts = 0
        /\ music = [s \in Server |-> NoByte] /\ relayLost = FALSE
    BY DEF Init
  <1> HIDE DEF Init
  <1>2. /\ Initialized \in InfotainmentState
        /\ [Initialized EXCEPT !.T = "START"] \in InfotainmentState
        /\ [Initialized EXCEPT !.T = "START"].T = "START"
        /\ [Initialized EXCEPT !.T = "START"].V = "UNKNOWN"
        /\ [Initialized EXCEPT !.T = "START"].volume = 0
        /\ \A d \in Dim : [Initialized EXCEPT !.T = "START"].pos[d] = 0
    BY VolumeAssumption, PosAssumption DEF Initialized, InfotainmentState, MIN_VOLUME
  <1>3. << >> \in Seq(Datagram) /\ Len(<< >>) = 0
    BY EmptySeq
  <1>4. ServersTyped
    BY <1>1, <1>2, <1>3 DEF ServersTyped
  <1>5. Counted
    BY <1>1, <1>3, BoundsAssumption DEF Counted
  <1>6. NotStarted /\ RunningReceives
    BY <1>1, <1>2 DEF NotStarted, RunningReceives
  <1>7. VolumeConsistent /\ MusicShown
    BY <1>1, <1>2 DEF VolumeConsistent, MusicShown
  <1>8. Agree
    <2>1. ASSUME NEW d \in Dim, NEW x \in Server
          PROVE  Follows(x, d, 0) /\ OwnRelay(inbox[x], x, d, st[x].pos[d])
      <3>1. inbox[x] = << >> /\ st[x].pos[d] = 0
        BY <1>1, <1>2
      <3>2. \A i \in 1 .. Len(inbox[x]) : FALSE
        BY <1>3, <3>1
      <3> QED BY <3>1, <3>2, Zenon DEF Follows, NoRelay, OwnRelay
    <2> QED BY <2>1, PosAssumption DEF Agree
  <1> QED BY <1>4, <1>5, <1>6, <1>7, <1>8 DEF InfotainmentInductive

(* What the invariant says of one server.                                  *)
LEMMA OfServer ==
    ASSUME InfotainmentInductive, NEW s \in Server
    PROVE  /\ st[s] \in InfotainmentState /\ pc[s] \in {"start", "recv", "done"}
           /\ inbox[s] \in Seq(Datagram) /\ InStep(st[s])
           /\ localAddress[s] \in Server \union {0}
           /\ st[s].pos \in [Dim -> Pos]
  BY DEF InfotainmentInductive, ServersTyped, VolumeConsistent, InStep, InfotainmentState

(* The parts of the invariant that stay when one server s changes: its     *)
(* state to m, its place to p, its byte to b, and the sockets as they do.  *)
LEMMA ServerChanges ==
    ASSUME InfotainmentInductive, NEW s \in Server,
           NEW m \in InfotainmentState, NEW p \in {"start", "recv", "done"},
           NEW b \in {NoByte} \union (0 .. ByteSize - 1),
           st' = [st EXCEPT ![s] = m], pc' = [pc EXCEPT ![s] = p],
           music' = [music EXCEPT ![s] = b],
           \A x \in Server : inbox'[x] \in Seq(Datagram) /\ Len(inbox'[x]) <= MaxInbox,
           inbox' = [x \in Server |-> inbox'[x]],
           \A x \in Server : pc'[x] = "start" => inbox'[x] = << >>,
           localAddress' \in [Server -> Server \union {0}],
           relayLost' \in BOOLEAN,
           sent' \in 0 .. MaxSent, interrupts' \in 0 .. MaxInterrupts,
           InStep(m),
           m.T = "RUNNING" => p = "recv",
           p = "start" => b = NoByte /\ \A d \in Dim : m.pos[d] = 0,
           b # NoByte => /\ volume(b) = m.volume /\ station(b) = m.station
                         /\ play(b) = Plays(m)
    PROVE  /\ ServersTyped' /\ Counted' /\ NotStarted' /\ RunningReceives'
           /\ VolumeConsistent' /\ MusicShown'
  <1>1. /\ st \in [Server -> InfotainmentState] /\ music \in [Server -> {NoByte} \union (0 .. ByteSize - 1)]
        /\ pc \in [Server -> {"start", "recv", "done"}]
    BY DEF InfotainmentInductive, ServersTyped
  <1>2. ServersTyped'
    <2>1. inbox' \in [Server -> Seq(Datagram)]
      BY Zenon
    <2> QED BY <1>1, <2>1 DEF ServersTyped
  <1>3. Counted'
    BY DEF Counted
  <1>4. NotStarted'
    BY <1>1 DEF NotStarted, InfotainmentInductive
  <1>5. RunningReceives'
    BY <1>1 DEF RunningReceives, InfotainmentInductive
  <1>6. VolumeConsistent'
    <2>1. ASSUME NEW x \in Server
          PROVE  IF st'[x].V = "UNKNOWN" THEN st'[x].volume = 0
                 ELSE st'[x].V = VolumeState(st'[x].volume)
      BY <1>1 DEF VolumeConsistent, InStep, InfotainmentInductive
    <2> QED BY <2>1 DEF VolumeConsistent
  <1>7. MusicShown'
    <2>1. ASSUME NEW x \in Server, music'[x] # NoByte
          PROVE  /\ volume(music'[x]) = st'[x].volume
                 /\ station(music'[x]) = st'[x].station
                 /\ play(music'[x]) = Plays(st'[x])
      <3>1. CASE x = s
        BY <1>1, <2>1, <3>1
      <3>2. CASE x # s
        BY <1>1, <2>1, <3>2 DEF MusicShown, InfotainmentInductive, Plays
      <3> QED BY <3>1, <3>2
    <2> QED BY <2>1 DEF MusicShown, Plays
  <1> QED BY <1>2, <1>3, <1>4, <1>5, <1>6, <1>7

(* A broadcast is the datagram appended wherever there is room.            *)
LEMMA BroadcastDoes ==
    ASSUME InfotainmentInductive, NEW s \in Server, NEW f \in Datagram, inbox[s] # << >>,
           broadcast_frame(s, f)
    PROVE  /\ \A x \in Server : /\ inbox'[x] \in Seq(Datagram) /\ Len(inbox'[x]) <= MaxInbox
                                /\ pc[x] # "recv" => inbox'[x] = Popped(s)[x]
           /\ inbox' = [x \in Server |-> inbox'[x]]
           /\ relayLost' \in BOOLEAN
           /\ ~ relayLost' => /\ ~ relayLost
                              /\ \A x \in Server : pc[x] = "recv" /\ inbox'[x] = Append(Popped(s)[x], f)
  <1> DEFINE room == [x \in Server |-> Listening(x) /\ Len(Popped(s)[x]) < MaxInbox]
  <1>1. inbox' = [x \in Server |-> IF room[x] THEN Append(Popped(s)[x], f) ELSE Popped(s)[x]]
        /\ relayLost' = (relayLost \/ \E x \in Server : ~room[x])
    BY DEF broadcast_frame
  <1>2. \A x \in Server : /\ Popped(s)[x] \in Seq(Datagram) /\ Len(Popped(s)[x]) <= MaxInbox
    <2>1. inbox \in [Server -> Seq(Datagram)] /\ \A x \in Server : Len(inbox[x]) <= MaxInbox
      BY DEF InfotainmentInductive, ServersTyped, Counted
    <2>2. Tail(inbox[s]) \in Seq(Datagram) /\ Len(Tail(inbox[s])) <= MaxInbox
      BY <2>1, Popping, BoundsAssumption
    <2> QED BY <2>1, <2>2 DEF Popped
  <1>3. ASSUME NEW x \in Server
        PROVE  /\ room[x] = (pc[x] = "recv" /\ Len(Popped(s)[x]) < MaxInbox)
               /\ inbox'[x] = IF room[x] THEN Append(Popped(s)[x], f) ELSE Popped(s)[x]
    BY <1>1 DEF Listening
  <1>4. inbox' = [x \in Server |-> inbox'[x]]
    BY <1>1, <1>3
  <1> HIDE DEF room
  <1>5. ASSUME NEW x \in Server
        PROVE  /\ inbox'[x] \in Seq(Datagram) /\ Len(inbox'[x]) <= MaxInbox
               /\ pc[x] # "recv" => inbox'[x] = Popped(s)[x]
    <2>1. CASE room[x]
      <3> DEFINE q == Popped(s)[x]
      <3>1. q \in Seq(Datagram) /\ Len(q) < MaxInbox /\ inbox'[x] = Append(q, f) /\ pc[x] = "recv"
        BY <1>2, <1>3, <2>1
      <3>2. MaxInbox \in Nat
        BY BoundsAssumption
      <3> HIDE DEF q
      <3>3. inbox'[x] \in Seq(Datagram) /\ Len(inbox'[x]) = Len(q) + 1 /\ Len(q) \in Nat
        BY <3>1, DatagramAppended
      <3> QED BY <3>1, <3>2, <3>3
    <2>2. CASE ~ room[x]
      BY <1>2, <1>3, <2>2
    <2> QED BY <2>1, <2>2
  <1>6. relayLost \in BOOLEAN
    BY DEF InfotainmentInductive, ServersTyped
  <1>7. ~ relayLost' => /\ ~ relayLost
                        /\ \A x \in Server : pc[x] = "recv" /\ inbox'[x] = Append(Popped(s)[x], f)
    BY <1>1, <1>3, <1>6
  <1>8. relayLost' \in BOOLEAN
    BY <1>1, <1>6
  <1> QED BY <1>4, <1>5, <1>7, <1>8

(* What a datagram appended, or taken from the front, does to the          *)
(* agreement, server by server.                                            *)
LEMMA AgreeStays ==
    ASSUME InfotainmentInductive, Agree,
           ~ relayLost' => ~ relayLost,
           \A d \in Dim, v \in Pos, x \in Server :
              ~ relayLost /\ ~ relayLost' =>
                /\ pc'[x] # "done" => pc[x] # "done"
                /\ pc'[x] # "done" /\ Follows(x, d, v) /\ OwnRelay(inbox[x], x, d, st[x].pos[d])
                     => Follows(x, d, v)'
                /\ OwnRelay(inbox[x], x, d, st[x].pos[d])
                     => OwnRelay(inbox'[x], x, d, st'[x].pos[d])
    PROVE  Agree'
  <1> SUFFICES ASSUME ~ relayLost', NEW d \in Dim
               PROVE  /\ \E v \in Pos : \A x \in Server : pc'[x] # "done" => Follows(x, d, v)'
                      /\ \A x \in Server : OwnRelay(inbox'[x], x, d, st'[x].pos[d])
    BY DEF Agree
  <1>1. PICK v \in Pos : \A x \in Server : pc[x] # "done" => Follows(x, d, v)
    BY DEF Agree
  <1>2. \A x \in Server : OwnRelay(inbox[x], x, d, st[x].pos[d])
    BY DEF Agree
  <1> QED BY <1>1, <1>2

LEMMA StartKeeps ==
    ASSUME InfotainmentInductive, NEW s \in Server, Start(s)
    PROVE  InfotainmentInductive'
  <1>1. Initialized \in InfotainmentState /\ InStep(Initialized) /\ Initialized.T = "RUNNING"
        /\ \A d \in Dim : Initialized.pos[d] = 0
    BY VolumeAssumption, PosAssumption DEF Initialized, InfotainmentState, MIN_VOLUME, InStep
  <1>2. /\ pc[s] = "start" /\ st' = [st EXCEPT ![s] = Initialized]
        /\ pc' = [pc EXCEPT ![s] = "recv"]
        /\ UNCHANGED <<inbox, localAddress, sent, interrupts, music, relayLost>>
    BY DEF Start
  <1>3. /\ st \in [Server -> InfotainmentState] /\ pc \in [Server -> {"start", "recv", "done"}]
        /\ inbox \in [Server -> Seq(Datagram)] /\ relayLost \in BOOLEAN
        /\ music \in [Server -> {NoByte} \union (0 .. ByteSize - 1)]
        /\ localAddress \in [Server -> Server \union {0}]
        /\ sent \in 0 .. MaxSent /\ interrupts \in 0 .. MaxInterrupts
        /\ \A x \in Server : Len(inbox[x]) <= MaxInbox
    BY DEF InfotainmentInductive, ServersTyped, Counted
  <1>4. music[s] = NoByte /\ \A d \in Dim : st[s].pos[d] = 0
    BY <1>2 DEF InfotainmentInductive, NotStarted
  <1>5. /\ ServersTyped' /\ Counted' /\ NotStarted' /\ RunningReceives'
        /\ VolumeConsistent' /\ MusicShown'
    <2>1. music' = [music EXCEPT ![s] = NoByte]
      BY <1>2, <1>3, <1>4
    <2>2. \A x \in Server : inbox'[x] \in Seq(Datagram) /\ Len(inbox'[x]) <= MaxInbox
      BY <1>2, <1>3
    <2>3. inbox' = [x \in Server |-> inbox'[x]]
      BY <1>2, <1>3
    <2>4. \A x \in Server : pc'[x] = "start" => inbox'[x] = << >>
      BY <1>2, <1>3 DEF InfotainmentInductive, NotStarted
    <2> QED BY <1>1, <1>2, <1>3, <2>1, <2>2, <2>3, <2>4, ServerChanges
  <1>6. Agree'
    <2>1. \A x \in Server, d \in Dim : st'[x].pos[d] = st[x].pos[d]
      BY <1>1, <1>2, <1>3, <1>4
    <2>2. \A x \in Server : pc'[x] # "done" => pc[x] # "done"
      BY <1>2, <1>3
    <2> QED BY <1>2, <2>1, <2>2, AgreeStays DEF Follows, InfotainmentInductive
  <1> QED BY <1>5, <1>6 DEF InfotainmentInductive

(* A datagram is taken and nothing else changes but the place.             *)
LEMMA TakingKeeps ==
    ASSUME InfotainmentInductive, NEW s \in Server, NEW p \in {"recv", "done"},
           pc[s] = "recv", inbox[s] # << >>,
           inbox' = Popped(s), pc' = [pc EXCEPT ![s] = p],
           p = "done" => st[s].T # "RUNNING",
           localAddress' \in [Server -> Server \union {0}],
           UNCHANGED <<sent, interrupts, music, relayLost>>,
           NEW m \in InfotainmentState, st' = [st EXCEPT ![s] = m],
           InStep(m), m.T = st[s].T, m.volume = st[s].volume, m.M = st[s].M,
           m.station = st[s].station, m.pos = st[s].pos,
           \/ Head(inbox[s]).from = s
           \/ Head(inbox[s]).id \notin Dim
           \/ iu_htonf(st[s].pos[Head(inbox[s]).id]) = Head(inbox[s]).val
    PROVE  InfotainmentInductive'
  <1>3. /\ st \in [Server -> InfotainmentState] /\ pc \in [Server -> {"start", "recv", "done"}]
        /\ inbox \in [Server -> Seq(Datagram)] /\ relayLost \in BOOLEAN
        /\ music \in [Server -> {NoByte} \union (0 .. ByteSize - 1)]
        /\ localAddress \in [Server -> Server \union {0}]
        /\ sent \in 0 .. MaxSent /\ interrupts \in 0 .. MaxInterrupts
        /\ \A x \in Server : Len(inbox[x]) <= MaxInbox
    BY DEF InfotainmentInductive, ServersTyped, Counted
  <1>4. /\ inbox' = [inbox EXCEPT ![s] = Tail(inbox[s])]
        /\ Tail(inbox[s]) \in Seq(Datagram) /\ Len(Tail(inbox[s])) <= MaxInbox
    <2>1. Len(Tail(inbox[s])) = Len(inbox[s]) - 1 /\ Len(inbox[s]) \in Nat /\ MaxInbox \in Nat
      BY <1>3, Popping, BoundsAssumption
    <2> QED BY <1>3, <2>1, Popping DEF Popped
  <1>5. /\ ServersTyped' /\ Counted' /\ NotStarted' /\ RunningReceives'
        /\ VolumeConsistent' /\ MusicShown'
    <2>1. music' = [music EXCEPT ![s] = music[s]]
      BY <1>3
    <2>2. \A x \in Server : inbox'[x] \in Seq(Datagram) /\ Len(inbox'[x]) <= MaxInbox
      BY <1>3, <1>4
    <2>3. inbox' = [x \in Server |-> inbox'[x]]
      BY <1>3, <1>4
    <2>4. \A x \in Server : pc'[x] = "start" => inbox'[x] = << >>
      BY <1>3, <1>4 DEF InfotainmentInductive, NotStarted
    <2>5. music[s] # NoByte => /\ volume(music[s]) = m.volume /\ station(music[s]) = m.station
                               /\ play(music[s]) = Plays(m)
      BY DEF InfotainmentInductive, MusicShown, Plays
    <2>6. m.T = "RUNNING" => p = "recv"
      OBVIOUS
    <2>7. p \in {"start", "recv", "done"} /\ p # "start"
      OBVIOUS
    <2>8. /\ relayLost' \in BOOLEAN /\ sent' \in 0 .. MaxSent /\ interrupts' \in 0 .. MaxInterrupts
          /\ music[s] \in {NoByte} \union (0 .. ByteSize - 1)
      BY <1>3
    <2> QED BY <2>1, <2>2, <2>3, <2>4, <2>5, <2>6, <2>7, <2>8, ServerChanges
  <1>6. Agree'
    <2>1. \A x \in Server, d \in Dim : st'[x].pos[d] = st[x].pos[d]
      BY <1>3
    <2>2. \A x \in Server : pc'[x] # "done" => pc[x] # "done"
      BY <1>3
    <2>3. ASSUME NEW d \in Dim, NEW v \in Pos, NEW x \in Server,
                 OwnRelay(inbox[x], x, d, st[x].pos[d])
          PROVE  /\ OwnRelay(inbox'[x], x, d, st'[x].pos[d])
                 /\ Follows(x, d, v) => Follows(x, d, v)'
      <3>1. CASE x # s
        <4>1. inbox'[x] = inbox[x]
          BY <1>3, <1>4, <3>1
        <4> QED BY <2>1, <2>3, <4>1 DEF Follows
      <3>2. CASE x = s
        <4>1. inbox'[s] = Tail(inbox[s]) /\ inbox[s] \in Seq(Datagram)
          BY <1>3, <1>4
        <4>2. OwnRelay(Tail(inbox[s]), s, d, st[s].pos[d])
          BY <2>3, <3>2, <4>1, OwnPopped
        <4>3. ASSUME Follows(s, d, v)
              PROVE  LastRelay(Tail(inbox[s]), d, v) \/ (NoRelay(Tail(inbox[s]), d) /\ st[s].pos[d] = v)
          <5>1. CASE NoRelay(inbox[s], d) /\ st[s].pos[d] = v
            BY <4>1, <5>1, Popped1
          <5>2. CASE LastRelay(inbox[s], d, v)
            <6>1. CASE LastRelay(Tail(inbox[s]), d, v)
              BY <6>1
            <6>2. CASE NoRelay(Tail(inbox[s]), d) /\ Relayed(Head(inbox[s]), d)
                       /\ Head(inbox[s]).val = iu_htonf(v)
              <7>1. Head(inbox[s]).id = d
                BY <6>2 DEF Relayed
              <7>2. CASE Head(inbox[s]).from = s
                BY <2>3, <3>2, <4>1, <6>2, <7>1, <7>2, OwnHead
              <7>3. CASE iu_htonf(st[s].pos[d]) = Head(inbox[s]).val
                BY <6>2, <7>3, HtonfOnce
              <7> QED BY <6>2, <7>1, <7>2, <7>3
            <6> QED BY <4>1, <5>2, <6>1, <6>2, Popped1
          <5> QED BY <4>3, <5>1, <5>2 DEF Follows
        <4> QED BY <2>1, <3>2, <4>1, <4>2, <4>3 DEF Follows
      <3> QED BY <3>1, <3>2
    <2> QED BY <2>1, <2>2, <2>3, AgreeStays DEF InfotainmentInductive
  <1> QED BY <1>5, <1>6 DEF InfotainmentInductive

(* A datagram is taken and one broadcast, which says where the server now  *)
(* is if it is a position.                                                 *)
Broadcasts(s, p, f, m, b) ==
    /\ p \in {"recv", "done"} /\ pc[s] = "recv" /\ inbox[s] # << >>
    /\ f \in Datagram /\ f.from = s /\ broadcast_frame(s, f)
    /\ pc' = [pc EXCEPT ![s] = p]
    /\ p = "done" => st[s].T # "RUNNING"
    /\ UNCHANGED <<localAddress, sent, interrupts>>
    /\ m \in InfotainmentState /\ st' = [st EXCEPT ![s] = m]
    /\ InStep(m) /\ m.T = st[s].T
    /\ b \in {NoByte} \union (0 .. ByteSize - 1) /\ music' = [music EXCEPT ![s] = b]
    /\ b # NoByte => volume(b) = m.volume /\ station(b) = m.station /\ play(b) = Plays(m)
    /\ \/ f.id \notin Dim /\ Head(inbox[s]).id \notin Dim /\ m.pos = st[s].pos
       \/ /\ f.id \in Dim /\ Head(inbox[s]).id = f.id /\ f.val = iu_htonf(m.pos[f.id])
          /\ \A d \in Dim \ {f.id} : m.pos[d] = st[s].pos[d]

LEMMA BroadcastKeeps ==
    ASSUME InfotainmentInductive, NEW s \in Server, NEW p, NEW f, NEW m, NEW b,
           Broadcasts(s, p, f, m, b)
    PROVE  InfotainmentInductive'
  <1> USE DEF Broadcasts
  <1>1. /\ st \in [Server -> InfotainmentState] /\ pc \in [Server -> {"start", "recv", "done"}]
        /\ inbox \in [Server -> Seq(Datagram)] /\ relayLost \in BOOLEAN
        /\ music \in [Server -> {NoByte} \union (0 .. ByteSize - 1)]
        /\ localAddress \in [Server -> Server \union {0}]
        /\ sent \in 0 .. MaxSent /\ interrupts \in 0 .. MaxInterrupts
        /\ \A x \in Server : Len(inbox[x]) <= MaxInbox
    BY DEF InfotainmentInductive, ServersTyped, Counted
  <1>2. /\ \A x \in Server : /\ inbox'[x] \in Seq(Datagram) /\ Len(inbox'[x]) <= MaxInbox
                             /\ pc[x] # "recv" => inbox'[x] = Popped(s)[x]
        /\ inbox' = [x \in Server |-> inbox'[x]]
        /\ relayLost' \in BOOLEAN
        /\ ~ relayLost' => /\ ~ relayLost
                           /\ \A x \in Server : pc[x] = "recv" /\ inbox'[x] = Append(Popped(s)[x], f)
    BY BroadcastDoes
  <1>3. /\ Popped(s)[s] = Tail(inbox[s]) /\ \A x \in Server \ {s} : Popped(s)[x] = inbox[x]
        /\ \A x \in Server : Popped(s)[x] \in Seq(Datagram)
    BY <1>1, Popping DEF Popped
  <1>4. /\ ServersTyped' /\ Counted' /\ NotStarted' /\ RunningReceives'
        /\ VolumeConsistent' /\ MusicShown'
    <2>1. \A x \in Server : pc'[x] = "start" => inbox'[x] = << >>
      <3> SUFFICES ASSUME NEW x \in Server, pc'[x] = "start" PROVE inbox'[x] = << >>
        OBVIOUS
      <3>1. x # s /\ pc[x] = "start"
        BY <1>1
      <3>2. inbox'[x] = inbox[x]
        BY <1>2, <1>3, <3>1
      <3> QED BY <3>1, <3>2 DEF InfotainmentInductive, NotStarted
    <2>2. p \in {"start", "recv", "done"} /\ p # "start" /\ (m.T = "RUNNING" => p = "recv")
      OBVIOUS
    <2>3. \A x \in Server : inbox'[x] \in Seq(Datagram) /\ Len(inbox'[x]) <= MaxInbox
      BY <1>2
    <2>4. inbox' = [x \in Server |-> inbox'[x]] /\ relayLost' \in BOOLEAN
      BY <1>2
    <2>5. /\ sent' \in 0 .. MaxSent /\ interrupts' \in 0 .. MaxInterrupts
          /\ localAddress' \in [Server -> Server \union {0}]
      BY <1>1
    <2> QED BY <2>1, <2>2, <2>3, <2>4, <2>5, ServerChanges
  <1>5. Agree'
    <2> SUFFICES ASSUME ~ relayLost', NEW d \in Dim
                 PROVE  /\ \E v \in Pos : \A x \in Server : pc'[x] # "done" => Follows(x, d, v)'
                        /\ \A x \in Server : OwnRelay(inbox'[x], x, d, st'[x].pos[d])
      BY DEF Agree
    <2>1. /\ ~ relayLost
          /\ \A x \in Server : pc[x] = "recv" /\ inbox'[x] = Append(Popped(s)[x], f)
      BY <1>2
    <2>2. PICK v \in Pos : \A x \in Server : Follows(x, d, v)
      BY <2>1 DEF Agree, InfotainmentInductive
    <2>3. \A x \in Server : OwnRelay(inbox[x], x, d, st[x].pos[d])
      BY <2>1 DEF Agree, InfotainmentInductive
    <2>4. st'[s] = m /\ \A x \in Server \ {s} : st'[x] = st[x]
      BY <1>1
    <2>5. OwnRelay(Tail(inbox[s]), s, d, st[s].pos[d])
      BY <1>1, <2>3, OwnPopped
    <2>6. \A x \in Server : OwnRelay(inbox'[x], x, d, st'[x].pos[d])
      <3>1. ASSUME NEW x \in Server \ {s} PROVE OwnRelay(inbox'[x], x, d, st'[x].pos[d])
        <4>1. inbox[x] \in Seq(Datagram) /\ inbox'[x] = Append(inbox[x], f) /\ f.from # x
          BY <1>1, <1>3, <2>1
        <4> QED BY <2>3, <2>4, <4>1, OwnAppended
      <3>2. OwnRelay(inbox'[s], s, d, st'[s].pos[d])
        <4>1. Tail(inbox[s]) \in Seq(Datagram) /\ inbox'[s] = Append(Tail(inbox[s]), f)
          BY <1>1, <1>3, <2>1
        <4>2. CASE f.id = d
          <5>1. f.val = iu_htonf(st'[s].pos[d])
            BY <2>4, <4>2
          <5> QED BY <4>1, <4>2, <5>1, OwnAppended
        <4>3. CASE f.id # d
          <5>1. m.pos[d] = st[s].pos[d]
            BY <4>3
          <5> QED BY <2>4, <2>5, <4>1, <4>3, <5>1, OwnAppended
        <4> QED BY <4>2, <4>3
      <3> QED BY <3>1, <3>2
    <2>7. CASE f.id = d
      <3>1. Relayed(f, d) /\ f.val = iu_htonf(m.pos[d]) /\ m.pos[d] \in Pos
        BY <2>7 DEF Relayed, InfotainmentState
      <3>2. ASSUME NEW x \in Server PROVE Follows(x, d, m.pos[d])'
        BY <1>3, <2>1, <3>1, RelayAppended DEF Follows
      <3> QED BY <2>6, <3>1, <3>2
    <2>8. CASE f.id # d
      <3>1. ~ Relayed(f, d) /\ Head(inbox[s]).id # d /\ m.pos[d] = st[s].pos[d]
        BY <2>8 DEF Relayed
      <3>2. ASSUME NEW x \in Server \ {s} PROVE Follows(x, d, v)'
        <4>1. inbox[x] \in Seq(Datagram) /\ inbox'[x] = Append(inbox[x], f)
          BY <1>1, <1>3, <2>1
        <4> QED BY <2>2, <2>4, <3>1, <4>1, OtherAppended DEF Follows
      <3>3. Follows(s, d, v)'
        <4>1. /\ inbox[s] \in Seq(Datagram) /\ Tail(inbox[s]) \in Seq(Datagram)
              /\ inbox'[s] = Append(Tail(inbox[s]), f)
          BY <1>1, <1>3, <2>1
        <4>2. ~ Relayed(Head(inbox[s]), d)
          BY <3>1 DEF Relayed
        <4>3. LastRelay(Tail(inbox[s]), d, v) \/ (NoRelay(Tail(inbox[s]), d) /\ st[s].pos[d] = v)
          BY <2>2, <4>1, <4>2, Popped1 DEF Follows
        <4> QED BY <2>4, <3>1, <4>1, <4>3, OtherAppended DEF Follows
      <3> QED BY <2>6, <3>2, <3>3
    <2> QED BY <2>7, <2>8
  <1> QED BY <1>4, <1>5 DEF InfotainmentInductive

(* What Takes(s) does, and the datagram it is about.                       *)
LEMMA TakesDoes ==
    ASSUME InfotainmentInductive, NEW s \in Server, Takes(s)
    PROVE  /\ pc[s] = "recv" /\ inbox[s] # << >>
           /\ \E p \in {"recv", "done"} : /\ pc' = [pc EXCEPT ![s] = p]
                                          /\ p = "done" => st[s].T # "RUNNING"
           /\ UNCHANGED <<localAddress, sent, interrupts>>
           /\ Head(inbox[s]) \in Datagram
  <1>1. inbox[s] \in Seq(Datagram)
    BY OfServer
  <1> QED BY <1>1, Popping DEF Takes

LEMMA SameServer ==
    ASSUME InfotainmentInductive, NEW s \in Server
    PROVE  st = [st EXCEPT ![s] = st[s]] /\ music = [music EXCEPT ![s] = music[s]]
           /\ pc = [pc EXCEPT ![s] = pc[s]] /\ inbox = [inbox EXCEPT ![s] = inbox[s]]
  BY DEF InfotainmentInductive, ServersTyped

LEMMA OwnKeeps ==
    ASSUME InfotainmentInductive, NEW s \in Server, ReceiveOwn(s)
    PROVE  InfotainmentInductive'
  <1>1. /\ pc[s] = "recv" /\ inbox[s] # << >> /\ Head(inbox[s]).from = s /\ inbox' = Popped(s)
        /\ localAddress' = [localAddress EXCEPT ![s] = IF @ = 0 THEN s ELSE @]
        /\ UNCHANGED <<st, pc, sent, interrupts, music, relayLost>>
    BY DEF ReceiveOwn
  <1>2. localAddress' \in [Server -> Server \union {0}]
    BY <1>1 DEF InfotainmentInductive, ServersTyped
  <1>3. pc' = [pc EXCEPT ![s] = "recv"] /\ st' = [st EXCEPT ![s] = st[s]]
    BY <1>1, SameServer
  <1> QED BY <1>1, <1>2, <1>3, OfServer, TakingKeeps

LEMMA JunkKeeps ==
    ASSUME InfotainmentInductive, NEW s \in Server, ReceiveJunk(s)
    PROVE  InfotainmentInductive'
  <1>1. /\ pc[s] = "recv" /\ inbox[s] # << >> /\ Head(inbox[s]).id = "junk" /\ inbox' = Popped(s)
        /\ UNCHANGED <<st, pc, localAddress, sent, interrupts, music, relayLost>>
    BY DEF ReceiveJunk
  <1>2. localAddress' \in [Server -> Server \union {0}]
    BY <1>1 DEF InfotainmentInductive, ServersTyped
  <1>3. pc' = [pc EXCEPT ![s] = "recv"] /\ st' = [st EXCEPT ![s] = st[s]]
    BY <1>1, SameServer
  <1>4. Head(inbox[s]).id \notin Dim
    BY <1>1, NamesAssumption
  <1> QED BY <1>1, <1>2, <1>3, <1>4, OfServer, TakingKeeps

LEMMA IrrelevantKeeps ==
    ASSUME InfotainmentInductive, NEW s \in Server, ReceiveIrrelevant(s)
    PROVE  InfotainmentInductive'
  <1>1. /\ Takes(s) /\ Head(inbox[s]).id \notin Dim /\ inbox' = Popped(s)
        /\ UNCHANGED <<st, music, relayLost>>
    BY DEF ReceiveIrrelevant, is_relevant
  <1>2. PICK p \in {"recv", "done"} : pc' = [pc EXCEPT ![s] = p] /\ (p = "done" => st[s].T # "RUNNING")
    BY <1>1, TakesDoes
  <1>3. pc[s] = "recv" /\ inbox[s] # << >> /\ UNCHANGED <<localAddress, sent, interrupts>>
    BY <1>1, TakesDoes
  <1>4. localAddress' \in [Server -> Server \union {0}]
    BY <1>3 DEF InfotainmentInductive, ServersTyped
  <1>5. st' = [st EXCEPT ![s] = st[s]]
    BY <1>1, SameServer
  <1> QED BY <1>1, <1>2, <1>3, <1>4, <1>5, OfServer, TakingKeeps

LEMMA PositionKeeps ==
    ASSUME InfotainmentInductive, NEW s \in Server, ReceivePosition(s)
    PROVE  InfotainmentInductive'
  <1> DEFINE d == Head(inbox[s]).id
             v == iu_ntohf(Head(inbox[s]).val)
  <1>1. Takes(s) /\ d \in Dim /\ Positioned(s, d, v)
    BY DEF ReceivePosition
  <1>2. PICK p \in {"recv", "done"} : pc' = [pc EXCEPT ![s] = p] /\ (p = "done" => st[s].T # "RUNNING")
    BY <1>1, TakesDoes
  <1>3. /\ pc[s] = "recv" /\ inbox[s] # << >> /\ UNCHANGED <<localAddress, sent, interrupts>>
        /\ Head(inbox[s]) \in Datagram
    BY <1>1, TakesDoes
  <1>4. v \in Pos /\ Head(inbox[s]).val = iu_htonf(v)
    BY <1>1, <1>3, DatagramFields, PositionOnTheWire
  <1> DEFINE m == [st[s] EXCEPT !.pos[d] = v]
  <1>5. /\ m \in InfotainmentState /\ m.V = st[s].V /\ m.volume = st[s].volume /\ m.T = st[s].T
        /\ m.M = st[s].M /\ m.station = st[s].station
        /\ m.pos = [st[s].pos EXCEPT ![d] = v]
    BY <1>4, OfServer DEF InfotainmentState
  <1>6. /\ st' = [st EXCEPT ![s] = m]
        /\ IF v # st[s].pos[d] THEN broadcast_frame(s, Frame(s, d, iu_htonf(v)))
           ELSE inbox' = Popped(s) /\ UNCHANGED relayLost
        /\ UNCHANGED music
    BY <1>1 DEF Positioned
  <1> HIDE DEF d, v, m
  <1>7. localAddress' \in [Server -> Server \union {0}]
    BY <1>3 DEF InfotainmentInductive, ServersTyped
  <1>8. st[s].pos \in [Dim -> Pos] /\ InStep(m)
    BY <1>5, OfServer DEF InStep
  <1>9. CASE v = st[s].pos[d]
    <2>1. m.pos = st[s].pos
      BY <1>5, <1>8, <1>9
    <2>2. iu_htonf(st[s].pos[Head(inbox[s]).id]) = Head(inbox[s]).val
      BY <1>4, <1>9 DEF d
    <2> QED BY <1>2, <1>3, <1>5, <1>6, <1>7, <1>8, <1>9, <2>1, <2>2, TakingKeeps
  <1>10. CASE v # st[s].pos[d]
    <2> DEFINE f == Frame(s, d, iu_htonf(v))
    <2>1. f \in Datagram /\ f.from = s /\ f.id = d /\ f.val = iu_htonf(v)
      <3>1. iu_htonf(v) \in ValueOf(d) /\ s \in Sender /\ d \in Ids
        BY <1>1, <1>4, BytesOfState DEF Sender, Ids
      <3> QED BY <3>1, FrameIsDatagram
    <2>2. broadcast_frame(s, f)
      BY <1>6, <1>10
    <2> HIDE DEF f
    <2>3. /\ f.id \in Dim /\ Head(inbox[s]).id = f.id /\ f.val = iu_htonf(m.pos[f.id])
          /\ \A e \in Dim \ {f.id} : m.pos[e] = st[s].pos[e]
      <3>1. m.pos[d] = v /\ \A e \in Dim \ {d} : m.pos[e] = st[s].pos[e]
        BY <1>1, <1>5, <1>8
      <3>2. Head(inbox[s]).id = d
        BY DEF d
      <3> QED BY <1>1, <2>1, <3>1, <3>2
    <2>4. music' = [music EXCEPT ![s] = music[s]] /\ music[s] \in {NoByte} \union (0 .. ByteSize - 1)
      BY <1>6, SameServer DEF InfotainmentInductive, ServersTyped
    <2>5. music[s] # NoByte => /\ volume(music[s]) = m.volume /\ station(music[s]) = m.station
                               /\ play(music[s]) = Plays(m)
      BY <1>5 DEF InfotainmentInductive, MusicShown, Plays
    <2>6. \/ f.id \notin Dim /\ Head(inbox[s]).id \notin Dim /\ m.pos = st[s].pos
          \/ /\ f.id \in Dim /\ Head(inbox[s]).id = f.id /\ f.val = iu_htonf(m.pos[f.id])
             /\ \A e \in Dim \ {f.id} : m.pos[e] = st[s].pos[e]
      BY <2>3
    <2>7. m \in InfotainmentState /\ InStep(m) /\ m.T = st[s].T /\ st' = [st EXCEPT ![s] = m]
      BY <1>5, <1>6, <1>8
    <2>8. /\ pc[s] = "recv" /\ inbox[s] # << >> /\ UNCHANGED <<localAddress, sent, interrupts>>
      BY <1>3
    <2>9. f \in Datagram /\ f.from = s /\ broadcast_frame(s, f)
      BY <2>1, <2>2
    <2>10. Broadcasts(s, p, f, m, music[s])
      BY <1>2, <2>4, <2>5, <2>6, <2>7, <2>8, <2>9 DEF Broadcasts
    <2> QED BY <2>10, BroadcastKeeps
  <1> QED BY <1>9, <1>10

LEMMA ButtonKeeps ==
    ASSUME InfotainmentInductive, NEW s \in Server, ReceiveButton(s)
    PROVE  InfotainmentInductive'
  <1> DEFINE m == handle_button_press(st[s], Head(inbox[s]).val)
             b == music_state_packet(m)
             f == Frame(s, "INFOTAINMENT_STATE", b)
  <1>1. Takes(s) /\ Head(inbox[s]).id = "BUTTON_PRESSED"
    BY DEF ReceiveButton
  <1>2. PICK p \in {"recv", "done"} : pc' = [pc EXCEPT ![s] = p] /\ (p = "done" => st[s].T # "RUNNING")
    BY <1>1, TakesDoes
  <1>3. pc[s] = "recv" /\ inbox[s] # << >> /\ UNCHANGED <<localAddress, sent, interrupts>>
    BY <1>1, TakesDoes
  <1>4. /\ m \in InfotainmentState /\ InStep(m) /\ m.pos = st[s].pos /\ m.T = st[s].T
    BY OfServer, PressKeepsStep
  <1>5. /\ st' = [st EXCEPT ![s] = m] /\ music' = [music EXCEPT ![s] = b] /\ broadcast_frame(s, f)
    <2>1. /\ st' = [st EXCEPT ![s] = m]
          /\ music' = [music EXCEPT ![s] = music_state_packet(st'[s])]
          /\ broadcast_frame(s, Frame(s, "INFOTAINMENT_STATE", music'[s]))
      BY DEF ReceiveButton
    <2>2. st'[s] = m
      BY <2>1 DEF InfotainmentInductive, ServersTyped
    <2>3. music'[s] = b
      BY <2>1, <2>2 DEF InfotainmentInductive, ServersTyped
    <2> QED BY <2>1, <2>2, <2>3
  <1> HIDE DEF m
  <1>6. b \in 0 .. ByteSize - 1 /\ volume(b) = m.volume /\ station(b) = m.station /\ play(b) = Plays(m)
    BY <1>4, ByteShows
  <1>7. f \in Datagram /\ f.from = s /\ f.id = "INFOTAINMENT_STATE"
    <2>1. b \in ValueOf("INFOTAINMENT_STATE") /\ s \in Sender /\ "INFOTAINMENT_STATE" \in Ids
      BY <1>6, BytesOfState DEF Sender, Ids
    <2> QED BY <2>1, FrameIsDatagram
  <1> HIDE DEF b, f
  <1>8. f.id \notin Dim /\ Head(inbox[s]).id \notin Dim
    BY <1>1, <1>7, NamesAssumption
  <1>9. Broadcasts(s, p, f, m, b)
    BY <1>2, <1>3, <1>4, <1>5, <1>6, <1>7, <1>8 DEF Broadcasts
  <1> QED BY <1>9, BroadcastKeeps

LEMMA HeartbeatKeeps ==
    ASSUME InfotainmentInductive, NEW s \in Server, ReceiveHeartbeat(s)
    PROVE  InfotainmentInductive'
  <1> DEFINE val == [addr |-> localAddress[s], req |-> Head(inbox[s]).val]
             f == Frame(s, "HEARTBEAT_ACK", val)
  <1>1. /\ Takes(s) /\ Head(inbox[s]).id = "HEARTBEAT_REQ" /\ broadcast_frame(s, f)
        /\ UNCHANGED <<st, music>>
    BY DEF ReceiveHeartbeat
  <1>2. PICK p \in {"recv", "done"} : pc' = [pc EXCEPT ![s] = p] /\ (p = "done" => st[s].T # "RUNNING")
    BY <1>1, TakesDoes
  <1>3. /\ pc[s] = "recv" /\ inbox[s] # << >> /\ UNCHANGED <<localAddress, sent, interrupts>>
        /\ Head(inbox[s]) \in Datagram
    BY <1>1, TakesDoes
  <1>4. f \in Datagram /\ f.from = s /\ f.id = "HEARTBEAT_ACK"
    <2>1. Head(inbox[s]).val \in 0 .. MaxSent
      BY <1>1, <1>3, DatagramFields, BytesOfState
    <2>2. val \in ValueOf("HEARTBEAT_ACK") /\ s \in Sender /\ "HEARTBEAT_ACK" \in Ids
      BY <2>1, OfServer, BytesOfState DEF Sender, Ids
    <2> HIDE DEF val
    <2> QED BY <2>2, FrameIsDatagram
  <1> HIDE DEF val, f
  <1>5. f.id \notin Dim /\ Head(inbox[s]).id \notin Dim
    BY <1>1, <1>4, NamesAssumption
  <1>6. /\ st' = [st EXCEPT ![s] = st[s]] /\ music' = [music EXCEPT ![s] = music[s]]
        /\ music[s] \in {NoByte} \union (0 .. ByteSize - 1)
    BY <1>1, SameServer DEF InfotainmentInductive, ServersTyped
  <1>7. music[s] # NoByte => /\ volume(music[s]) = st[s].volume /\ station(music[s]) = st[s].station
                             /\ play(music[s]) = Plays(st[s])
    BY DEF InfotainmentInductive, MusicShown, Plays
  <1> DEFINE m == st[s]
             b == music[s]
  <1>8. \/ f.id \notin Dim /\ Head(inbox[s]).id \notin Dim /\ m.pos = st[s].pos
        \/ /\ f.id \in Dim /\ Head(inbox[s]).id = f.id /\ f.val = iu_htonf(m.pos[f.id])
           /\ \A e \in Dim \ {f.id} : m.pos[e] = st[s].pos[e]
    BY <1>5
  <1>9. m \in InfotainmentState /\ InStep(m) /\ m.T = st[s].T /\ st' = [st EXCEPT ![s] = m]
    BY <1>6, OfServer
  <1>10. /\ b \in {NoByte} \union (0 .. ByteSize - 1) /\ music' = [music EXCEPT ![s] = b]
         /\ b # NoByte => volume(b) = m.volume /\ station(b) = m.station /\ play(b) = Plays(m)
    BY <1>6, <1>7
  <1>11. broadcast_frame(s, f)
    BY <1>1
  <1> HIDE DEF m, b
  <1>12. Broadcasts(s, p, f, m, b)
    BY <1>2, <1>3, <1>4, <1>8, <1>9, <1>10, <1>11 DEF Broadcasts
  <1> QED BY <1>12, BroadcastKeeps

LEMMA InterruptKeeps ==
    ASSUME InfotainmentInductive, NEW s \in Server, Interrupt(s)
    PROVE  InfotainmentInductive'
  <1> DEFINE m == [st[s] EXCEPT !.T = "STOP"]
  <1>1. /\ pc[s] # "done" /\ interrupts' = interrupts + 1 /\ interrupts < MaxInterrupts
        /\ st' = [st EXCEPT ![s] = m]
        /\ UNCHANGED <<localAddress, sent, music, relayLost>>
    BY DEF Interrupt
  <1>2. \E p \in {"start", "recv", "done"}, q \in {inbox[s], << >>} :
           /\ pc' = [pc EXCEPT ![s] = p] /\ inbox' = [inbox EXCEPT ![s] = q]
           /\ (p = pc[s] /\ q = inbox[s]) \/ (p = "done" /\ q = << >>)
    <2>1. CASE UNCHANGED <<pc, inbox>>
      <3>1. pc[s] \in {"start", "recv", "done"} /\ inbox[s] \in {inbox[s], << >>}
        BY OfServer
      <3>2. /\ pc' = [pc EXCEPT ![s] = pc[s]] /\ inbox' = [inbox EXCEPT ![s] = inbox[s]]
        BY <2>1, SameServer
      <3> QED BY <3>1, <3>2, Zenon
    <2>2. CASE pc' = [pc EXCEPT ![s] = "done"] /\ inbox' = [inbox EXCEPT ![s] = << >>]
      BY <2>2
    <2> QED BY <2>1, <2>2 DEF Interrupt
  <1>3. PICK p \in {"start", "recv", "done"}, q \in {inbox[s], << >>} :
           /\ pc' = [pc EXCEPT ![s] = p] /\ inbox' = [inbox EXCEPT ![s] = q]
           /\ (p = pc[s] /\ q = inbox[s]) \/ (p = "done" /\ q = << >>)
    BY <1>2
  <1>4. /\ m \in InfotainmentState /\ m.V = st[s].V /\ m.volume = st[s].volume /\ m.T = "STOP"
        /\ m.M = st[s].M /\ m.station = st[s].station /\ m.pos = st[s].pos
    BY OfServer DEF InfotainmentState
  <1> HIDE DEF m
  <1>5. /\ st \in [Server -> InfotainmentState] /\ pc \in [Server -> {"start", "recv", "done"}]
        /\ inbox \in [Server -> Seq(Datagram)] /\ relayLost \in BOOLEAN
        /\ music \in [Server -> {NoByte} \union (0 .. ByteSize - 1)]
        /\ localAddress \in [Server -> Server \union {0}]
        /\ sent \in 0 .. MaxSent /\ interrupts \in 0 .. MaxInterrupts
        /\ \A x \in Server : Len(inbox[x]) <= MaxInbox
    BY DEF InfotainmentInductive, ServersTyped, Counted
  <1>6. q \in Seq(Datagram) /\ Len(q) <= MaxInbox
    <2>1. MaxInbox \in Nat
      BY BoundsAssumption
    <2>2. CASE q = inbox[s]
      BY <1>5, <2>2
    <2>3. CASE q = << >>
      BY <2>1, <2>3, EmptySeq
    <2> QED BY <2>2, <2>3
  <1>7. /\ ServersTyped' /\ Counted' /\ NotStarted' /\ RunningReceives'
        /\ VolumeConsistent' /\ MusicShown'
    <2>1. music' = [music EXCEPT ![s] = music[s]] /\ music[s] \in {NoByte} \union (0 .. ByteSize - 1)
      BY <1>1, <1>5
    <2>2. \A x \in Server : inbox'[x] \in Seq(Datagram) /\ Len(inbox'[x]) <= MaxInbox
      BY <1>3, <1>5, <1>6
    <2>3. inbox' = [x \in Server |-> inbox'[x]]
      BY <1>3, <1>5
    <2>4. \A x \in Server : pc'[x] = "start" => inbox'[x] = << >>
      BY <1>3, <1>5 DEF InfotainmentInductive, NotStarted
    <2>5. music[s] # NoByte => /\ volume(music[s]) = m.volume /\ station(music[s]) = m.station
                               /\ play(music[s]) = Plays(m)
      BY <1>4 DEF InfotainmentInductive, MusicShown, Plays
    <2>6. /\ m.T = "RUNNING" => p = "recv"
          /\ p = "start" => music[s] = NoByte /\ \A d \in Dim : m.pos[d] = 0
          /\ InStep(m)
      BY <1>3, <1>4, OfServer DEF InStep, InfotainmentInductive, NotStarted
    <2>7. /\ relayLost' \in BOOLEAN /\ sent' \in 0 .. MaxSent /\ interrupts' \in 0 .. MaxInterrupts
          /\ localAddress' \in [Server -> Server \union {0}]
      BY <1>1, <1>5, BoundsAssumption
    <2> QED BY <1>1, <1>3, <1>4, <2>1, <2>2, <2>3, <2>4, <2>5, <2>6, <2>7, ServerChanges
  <1>8. Agree'
    <2>1. \A x \in Server, d \in Dim : st'[x].pos[d] = st[x].pos[d]
      BY <1>1, <1>4, <1>5
    <2>2. \A x \in Server : pc'[x] # "done" => pc[x] # "done" /\ inbox'[x] = inbox[x]
      BY <1>1, <1>3, <1>5
    <2>3. ASSUME NEW d \in Dim, NEW x \in Server, OwnRelay(inbox[x], x, d, st[x].pos[d])
          PROVE  OwnRelay(inbox'[x], x, d, st'[x].pos[d])
      <3>1. CASE inbox'[x] = inbox[x]
        BY <2>1, <2>3, <3>1
      <3>2. CASE inbox'[x] = << >>
        <4>1. \A i \in 1 .. Len(inbox'[x]) : FALSE
          BY <3>2, EmptySeq
        <4> QED BY <4>1, Zenon DEF OwnRelay
      <3> QED BY <1>3, <1>5, <3>1, <3>2
    <2> QED BY <1>1, <2>1, <2>2, <2>3, AgreeStays DEF Follows, InfotainmentInductive
  <1> QED BY <1>7, <1>8 DEF InfotainmentInductive

LEMMA PeersKeep ==
    ASSUME InfotainmentInductive, PeerSends
    PROVE  InfotainmentInductive'
  <1>1. PICK f \in PeerFrames :
           inbox' = [s \in Server |-> IF Listening(s) /\ Len(inbox[s]) < MaxInbox
                                      THEN Append(inbox[s], f) ELSE inbox[s]]
    BY DEF PeerSends
  <1>2. sent + interrupts < MaxSent /\ sent' = sent + 1
        /\ UNCHANGED <<st, pc, localAddress, interrupts, music, relayLost>>
    BY DEF PeerSends
  <1>3. /\ st \in [Server -> InfotainmentState] /\ pc \in [Server -> {"start", "recv", "done"}]
        /\ inbox \in [Server -> Seq(Datagram)] /\ relayLost \in BOOLEAN
        /\ sent \in 0 .. MaxSent /\ interrupts \in 0 .. MaxInterrupts
        /\ \A x \in Server : Len(inbox[x]) <= MaxInbox
    BY DEF InfotainmentInductive, ServersTyped, Counted
  <1>4. 1 <= MaxSent /\ MaxSent \in Nat /\ MaxInbox \in Nat
    BY <1>2, <1>3, BoundsAssumption
  <1>5. f \in Datagram /\ f.from \in {"client", "sim", "tool"}
    <2>0. {"client", "sim", "tool"} \subseteq Sender
          /\ Dim \union {"BUTTON_PRESSED", "HEARTBEAT_REQ", "junk"} \subseteq Ids
      BY DEF Sender, Ids
    <2>1. ASSUME NEW b \in ButtonIds, f = Frame("client", "BUTTON_PRESSED", b)
          PROVE  f \in Datagram /\ f.from = "client"
      BY <2>0, <2>1, BytesOfState, FrameIsDatagram
    <2>2. ASSUME NEW d \in Dim, NEW v \in Pos, f = Frame("sim", d, iu_htonf(v))
          PROVE  f \in Datagram /\ f.from = "sim"
      BY <2>0, <2>2, BytesOfState, FrameIsDatagram
    <2>3. CASE f = Frame("tool", "HEARTBEAT_REQ", 1)
      <3>1. 1 \in ValueOf("HEARTBEAT_REQ")
        BY <1>4, BytesOfState
      <3> QED BY <2>0, <2>3, <3>1, FrameIsDatagram
    <2>4. CASE f = Frame("tool", "junk", 0)
      <3>1. 0 \in ValueOf("junk")
        BY <1>4, BytesOfState
      <3> QED BY <2>0, <2>4, <3>1, FrameIsDatagram
    <2> QED BY <2>1, <2>2, <2>3, <2>4 DEF PeerFrames
  <1>6. ASSUME NEW x \in Server
        PROVE  /\ inbox'[x] \in Seq(Datagram) /\ Len(inbox'[x]) <= MaxInbox
               /\ (pc[x] = "recv" /\ inbox'[x] = Append(inbox[x], f)) \/ inbox'[x] = inbox[x]
    <2>1. CASE pc[x] = "recv" /\ Len(inbox[x]) < MaxInbox
      <3>1. inbox'[x] = Append(inbox[x], f)
        BY <1>1, <2>1 DEF Listening
      <3>2. inbox'[x] \in Seq(Datagram) /\ Len(inbox'[x]) = Len(inbox[x]) + 1 /\ Len(inbox[x]) \in Nat
        BY <1>3, <1>5, <3>1, DatagramAppended
      <3> QED BY <1>4, <2>1, <3>1, <3>2
    <2>2. CASE ~ (pc[x] = "recv" /\ Len(inbox[x]) < MaxInbox)
      BY <1>1, <1>3, <2>2 DEF Listening
    <2> QED BY <2>1, <2>2
  <1>7. inbox' \in [Server -> Seq(Datagram)]
    <2>1. inbox' = [x \in Server |-> inbox'[x]]
      BY <1>1
    <2> QED BY <1>6, <2>1
  <1>8. ServersTyped' /\ Counted' /\ NotStarted' /\ RunningReceives' /\ VolumeConsistent' /\ MusicShown'
    <2>1. ServersTyped' /\ RunningReceives' /\ VolumeConsistent' /\ MusicShown'
      BY <1>2, <1>7 DEF InfotainmentInductive, ServersTyped, RunningReceives, VolumeConsistent, MusicShown
    <2>2. Counted'
      BY <1>2, <1>3, <1>4, <1>6 DEF Counted
    <2>3. NotStarted'
      BY <1>2, <1>6 DEF InfotainmentInductive, NotStarted
    <2> QED BY <2>1, <2>2, <2>3
  <1>9. Agree'
    <2>1. ASSUME NEW d \in Dim, NEW v \in Pos, NEW x \in Server
          PROVE  /\ Follows(x, d, v) => Follows(x, d, v)'
                 /\ OwnRelay(inbox[x], x, d, st[x].pos[d])
                      => OwnRelay(inbox'[x], x, d, st'[x].pos[d])
      <3>1. f.from # x /\ ~ Relayed(f, d)
        BY <1>5, NamesAssumption DEF Relayed
      <3>2. CASE inbox'[x] = inbox[x]
        BY <1>2, <3>2 DEF Follows
      <3>3. CASE inbox'[x] = Append(inbox[x], f)
        BY <1>2, <1>3, <1>5, <3>1, <3>3, OtherAppended, OwnAppended DEF Follows
      <3> QED BY <1>6, <3>2, <3>3
    <2> QED BY <1>2, <2>1, AgreeStays DEF InfotainmentInductive
  <1> QED BY <1>8, <1>9 DEF InfotainmentInductive

LEMMA InfotainmentStep ==
    ASSUME InfotainmentInductive, [Next]_vars
    PROVE  InfotainmentInductive'
  <1>1. CASE UNCHANGED vars
    <2>1. UNCHANGED <<st, pc, inbox, localAddress, sent, interrupts, music, relayLost>>
      BY <1>1 DEF vars
    <2> QED BY <2>1 DEF InfotainmentInductive, ServersTyped, Counted, NotStarted, RunningReceives,
                        VolumeConsistent, MusicShown, Agree, Follows
  <1>2. CASE PeerSends
    BY <1>2, PeersKeep
  <1>3. ASSUME NEW s \in Server, ServerStep(s) \/ Interrupt(s)
        PROVE  InfotainmentInductive'
    BY <1>3, StartKeeps, OwnKeeps, JunkKeeps, IrrelevantKeeps, PositionKeeps, ButtonKeeps,
       HeartbeatKeeps, InterruptKeeps DEF ServerStep, ReceiveAny
  <1> QED BY <1>1, <1>2, <1>3 DEF Next

LEMMA InfotainmentKept == Spec => []InfotainmentInductive
  BY InfotainmentStarts, InfotainmentStep, PTL DEF Spec

(* Volume, station and play state of every server stay in their ranges and *)
(* in step, and the byte it broadcast last decodes to them, for every      *)
(* number of servers, range of the volume and position                     *)
(* (infotainment_server.c:170-240).                                        *)
THEOREM InfotainmentCorrect == Spec => []RelayInv
  <1>1. ASSUME InfotainmentInductive PROVE RelayInv
    <2>1. ASSUME NEW s \in Server
          PROVE  /\ Len(inbox[s]) <= MaxInbox
                 /\ \A i \in 1 .. Len(inbox[s]) : IsDatagram(inbox[s][i])
      <3>1. ASSUME NEW i \in 1 .. Len(inbox[s]) PROVE IsDatagram(inbox[s][i])
        <4>1. inbox[s][i] \in Datagram
          BY <1>1, OfServer, ElementOfSeq
        <4> QED BY <4>1, DatagramFields DEF IsDatagram, Sender
      <3> QED BY <1>1, <3>1 DEF InfotainmentInductive, Counted
    <2>2. TypeOK
      BY <1>1, <2>1 DEF TypeOK, InfotainmentInductive, ServersTyped, Counted
    <2> QED BY <1>1, <2>2 DEF RelayInv, InfotainmentInductive
  <1> QED BY <1>1, InfotainmentKept, PTL

(* However the datagrams of the simulator were lost and the relays crossed,*)
(* once the sockets are empty the running servers show one position, if no *)
(* relay was lost (infotainment_server.c:73-111,274-289).                  *)
THEOREM RelaysAgree == Spec => []QuietMeansAgreement
  <1>1. ASSUME InfotainmentInductive PROVE QuietMeansAgreement
    <2> SUFFICES ASSUME ~ relayLost, \A s \in Server : st[s].T = "RUNNING" /\ inbox[s] = << >>,
                        NEW r \in Server, NEW s \in Server
                 PROVE  st[r].pos = st[s].pos
      BY DEF QuietMeansAgreement
    <2>1. \A x \in Server : pc[x] # "done"
      BY <1>1 DEF InfotainmentInductive, RunningReceives
    <2>2. ASSUME NEW d \in Dim PROVE st[r].pos[d] = st[s].pos[d]
      <3>1. PICK v \in Pos : \A x \in Server : Follows(x, d, v)
        BY <1>1, <2>1 DEF InfotainmentInductive, Agree
      <3>2. ASSUME NEW x \in Server PROVE st[x].pos[d] = v
        <4>1. \A i \in 1 .. Len(inbox[x]) : FALSE
          BY EmptySeq
        <4> QED BY <3>1, <4>1 DEF Follows, LastRelay
      <3> QED BY <3>2
    <2>3. st[r].pos \in [Dim -> Pos] /\ st[s].pos \in [Dim -> Pos]
      BY <1>1, OfServer
    <2> QED BY <2>2, <2>3
  <1> QED BY <1>1, InfotainmentKept, PTL

-----------------------------------------------------------------------------
(***************************************************************************)
(* The engine control unit (module Ecu) and the library it uses (Canlib).  *)
(***************************************************************************)

(* What the announcement and the data frames of a message carry comes back *)
(* as the message, up to the 255 bytes a uint8_t can count.                *)
Packets(n) == n \div 7 + (IF n % 7 = 0 THEN 0 ELSE 1)

LEMMA PacketsOf ==
    ASSUME NEW n \in 1 .. 255
    PROVE  /\ Packets(n) \in 1 .. 37
           /\ PacketCount(n) = Packets(n) + 1
           /\ uint16(n) = n
           /\ uint8(uint16(n) \div 7 + (IF n % 7 = 0 THEN 0 ELSE 1)) = Packets(n)
           /\ 7 * (Packets(n) - 1) < n /\ n <= 7 * Packets(n)
  <1>1. n \div 7 \in 0 .. 36 /\ n % 7 \in 0 .. 6 /\ n = 7 * (n \div 7) + (n % 7)
    <2>1. n \div 7 \in Int /\ n % 7 \in 0 .. 6 /\ n = 7 * (n \div 7) + (n % 7)
      BY SMT
    <2> QED BY <2>1, SMT
  <1> DEFINE q == n \div 7
             r == n % 7
  <1>2. q \in 0 .. 36 /\ r \in 0 .. 6 /\ n = 7 * q + r
    BY <1>1
  <1>3. uint16(n) = n
    BY DEF uint16
  <1>4. /\ Packets(n) = q + (IF r = 0 THEN 0 ELSE 1)
        /\ PacketCount(n) = uint8(uint8(q) + (IF r = 0 THEN 0 ELSE 1) + 1)
    BY DEF Packets, PacketCount
  <1>5. uint8(uint16(n) \div 7 + (IF n % 7 = 0 THEN 0 ELSE 1)) = uint8(Packets(n))
    BY <1>3 DEF Packets
  <1> HIDE DEF q, r
  <1>6. Packets(n) \in 1 .. 37 /\ 7 * (Packets(n) - 1) < n /\ n <= 7 * Packets(n)
    BY <1>2, <1>4
  <1>7. uint8(q) = q /\ uint8(Packets(n)) = Packets(n)
    BY <1>2, <1>6 DEF uint8
  <1>8. PacketCount(n) = Packets(n) + 1
    BY <1>4, <1>6, <1>7, <1>2 DEF uint8
  <1> QED BY <1>3, <1>5, <1>6, <1>7, <1>8

LEMMA ChunkOf ==
    ASSUME NEW n \in 1 .. 255, NEW i \in 1 .. Packets(n)
    PROVE  ChunkLen(n, i) = (IF n - (i - 1) * 7 >= 7 THEN 7 ELSE n - (i - 1) * 7)
           /\ ChunkLen(n, i) \in 1 .. 7
           /\ (i - 1) * 7 + ChunkLen(n, i) <= n
           /\ (i - 1) * 7 + ChunkLen(n, i) = (IF i = Packets(n) THEN n ELSE i * 7)
  <1>1. Packets(n) \in 1 .. 37 /\ 7 * (Packets(n) - 1) < n /\ n <= 7 * Packets(n)
    BY PacketsOf
  <1> DEFINE left == n - (i - 1) * 7
  <1>2. left \in 1 .. 255
    BY <1>1
  <1>3. uint8(left) = left
    BY <1>2 DEF uint8
  <1>4. ChunkLen(n, i) = IF uint8(left) >= 7 THEN 7 ELSE uint8(left)
    BY DEF ChunkLen
  <1>5. ChunkLen(n, i) = IF left >= 7 THEN 7 ELSE left
    BY <1>3, <1>4, Zenon
  <1> QED BY <1>1, <1>2, <1>5

(* Byte k is in the frame that begins with the last multiple of seven      *)
(* before it, and in no other.                                             *)
HolderOf(k) == (k - 1) \div 7 + 1

LEMMA HolderExists ==
    ASSUME NEW n \in 1 .. 255, NEW k \in 1 .. n
    PROVE  /\ HolderOf(k) \in 1 .. Packets(n)
           /\ 7 * (HolderOf(k) - 1) <= k - 1 /\ k - 1 < 7 * HolderOf(k)
  <1>1. Packets(n) \in 1 .. 37 /\ 7 * (Packets(n) - 1) < n /\ n <= 7 * Packets(n)
    BY PacketsOf
  <1> DEFINE h == (k - 1) \div 7
  <1>2. h \in 0 .. 36 /\ 7 * h <= k - 1 /\ k - 1 < 7 * h + 7
    OBVIOUS
  <1>3. HolderOf(k) = h + 1
    BY DEF HolderOf
  <1> HIDE DEF h
  <1> QED BY <1>1, <1>2, <1>3

LEMMA OneHolder ==
    ASSUME NEW n \in 1 .. 255, NEW k \in 1 .. n, NEW i \in 1 .. Packets(n)
    PROVE  /\ ((i - 1) * 7 < k /\ k <= (i - 1) * 7 + ChunkLen(n, i)) <=> i = HolderOf(k)
           /\ HolderOf(k) \in 1 .. Packets(n)
  <1>1. Packets(n) \in 1 .. 37 /\ 7 * (Packets(n) - 1) < n /\ n <= 7 * Packets(n)
    BY PacketsOf
  <1> DEFINE h == HolderOf(k)
  <1>2. h \in 1 .. Packets(n) /\ 7 * (h - 1) <= k - 1 /\ k - 1 < 7 * h
    BY HolderExists
  <1>3. (i - 1) * 7 + ChunkLen(n, i) = (IF i = Packets(n) THEN n ELSE i * 7)
    BY ChunkOf
  <1> DEFINE c == (i - 1) * 7 + ChunkLen(n, i)
             p == Packets(n)
  <1>4. c = (IF i = p THEN n ELSE i * 7) /\ p \in 1 .. 37 /\ 7 * (p - 1) < n /\ n <= 7 * p
    BY <1>1, <1>3
  <1>5. h \in 1 .. p /\ i \in 1 .. p
    BY <1>2
  <1> HIDE DEF h, c, p
  <1>6. ((i - 1) * 7 < k /\ k <= c) <=> i = h
    <2>1. CASE i = p
      BY <1>2, <1>4, <1>5, <2>1
    <2>2. CASE i # p
      BY <1>2, <1>4, <1>5, <2>2
    <2> QED BY <2>1, <2>2
  <1> QED BY <1>2, <1>6 DEF c, h, p

Size(message) == Len(message)

LEMMA ByteIsItself == \A b \in 0 .. 255 : uint8(b) = b
  BY DEF uint8

(* The frames of a message.                                                *)
Piece(message, n, i) == SubSeq(message, 7 * (i - 1) + 1, 7 * (i - 1) + ChunkLen(n, i))

Carry(packets, message, n, p) ==
    /\ packets[1].nbytes = n /\ packets[1].npackets = p
    /\ packets[1].id = id_from_pgn(PGN_BAM)
    /\ Len(packets) = p + 1 /\ Head(packets) = packets[1]
    /\ \A i \in 1 .. p : packets[i + 1].index = i /\ packets[i + 1].data = Piece(message, n, i)

LEMMA FramesOf ==
    \A message, pgn : \A n \in 1 .. 255 :
        n = Size(message) => Carry(data_to_bam_can_frames(pgn, message), message, n, Packets(n))
  <1> SUFFICES ASSUME NEW message, NEW n \in 1 .. 255, n = Size(message), NEW pgn, NEW p \in 1 .. 37,
                      p = Packets(n), NEW packets, packets = data_to_bam_can_frames(pgn, message)
               PROVE  Carry(packets, message, n, p)
    <2>1. \A n \in 1 .. 255 : Packets(n) \in 1 .. 37
      BY PacketsOf
    <2> QED BY <2>1, Zenon
  <1> DEFINE frame(i) == IF i = 1 THEN packet_bam(n, pgn)
                         ELSE packet_dt(i - 1, SubSeq(message, 7 * (i - 2) + 1,
                                                      7 * (i - 2) + ChunkLen(n, i - 1)))
  <1>1. PacketCount(n) = p + 1
    BY PacketsOf
  <1>2. packets = [i \in 1 .. PacketCount(n) |-> frame(i)]
    BY Zenon DEF data_to_bam_can_frames, Size
  <1>3. frame(1) = packet_bam(n, pgn)
    OBVIOUS
  <1>4. ASSUME NEW i \in 1 .. p
        PROVE  frame(i + 1) = packet_dt(i, Piece(message, n, i))
    <2>1. i + 1 # 1 /\ (i + 1) - 1 = i /\ (i + 1) - 2 = i - 1
      OBVIOUS
    <2> QED BY <2>1, Zenon DEF Piece
  <1> HIDE DEF frame
  <1>5. packets[1] = packet_bam(n, pgn) /\ Len(packets) = p + 1 /\ Head(packets) = packets[1]
        /\ \A i \in 1 .. p : packets[i + 1] = packet_dt(i, Piece(message, n, i))
    <2>1. packets = [i \in 1 .. p + 1 |-> frame(i)]
      BY <1>1, <1>2, Zenon
    <2>2. Len(packets) = p + 1 /\ Head(packets) = packets[1]
      <3> DEFINE F == {frame(i) : i \in 1 .. p + 1}
      <3>1. packets \in [1 .. p + 1 -> F]
        BY <2>1
      <3>2. packets \in Seq(F) /\ DOMAIN packets = 1 .. p + 1
        <4>1. p + 1 \in Nat
          OBVIOUS
        <4>2. packets \in Seq(F)
          <5>1. \A m \in Nat : packets \in [1 .. m -> F] => packets \in UNION {[1 .. k -> F] : k \in Nat}
            BY Zenon
          <5>2. packets \in UNION {[1 .. k -> F] : k \in Nat}
            BY <3>1, <4>1, <5>1
          <5> QED BY <5>2, SeqDef, Zenon
        <4> QED BY <3>1, <4>2, Zenon
      <3>3. Len(packets) \in Nat /\ 1 .. Len(packets) = 1 .. p + 1
        BY <3>2, LenProperties, Zenon
      <3>4. PICK l \in Nat : l = Len(packets)
        BY <3>3, Zenon
      <3>5. l = p + 1
        <4>1. \A e \in Int : e \in 1 .. l <=> e \in 1 .. p + 1
          BY <3>3, <3>4, Zenon
        <4>2. (p + 1 \in 1 .. l <=> p + 1 \in 1 .. p + 1) /\ (l \in 1 .. l <=> l \in 1 .. p + 1)
          BY <4>1
        <4> QED BY <4>2
      <3>6. Head(packets) = packets[1]
        <4>1. 1 \in 1 .. p + 1
          OBVIOUS
        <4>2. Len(packets) # 0
          BY <3>4, <3>5
        <4>3. packets # << >>
          BY <3>2, <4>2, EmptySeq
        <4> QED BY <3>2, <4>3, HeadTailProperties
      <3> QED BY <3>4, <3>5, <3>6, Zenon
    <2>3. packets[1] = frame(1)
      <3>1. 1 \in 1 .. p + 1
        OBVIOUS
      <3> QED BY <2>1, <3>1
    <2>4. ASSUME NEW i \in 1 .. p PROVE packets[i + 1] = frame(i + 1)
      <3>1. i + 1 \in 1 .. p + 1
        OBVIOUS
      <3> QED BY <2>1, <3>1
    <2> QED BY <1>3, <1>4, <2>2, <2>3, <2>4
  <1>6. packets[1].nbytes = n /\ packets[1].npackets = p /\ packets[1].id = id_from_pgn(PGN_BAM)
    <2>1. /\ packet_bam(n, pgn).nbytes = uint16(n) /\ packet_bam(n, pgn).id = id_from_pgn(PGN_BAM)
          /\ packet_bam(n, pgn).npackets = uint8(uint16(n) \div 7 + (IF n % 7 = 0 THEN 0 ELSE 1))
      BY DEF packet_bam
    <2> QED BY <1>5, <2>1, PacketsOf, Zenon
  <1>7. ASSUME NEW i \in 1 .. p
        PROVE  packets[i + 1].index = i /\ packets[i + 1].data = Piece(message, n, i)
    <2>1. uint8(i) = i
      BY ByteIsItself
    <2>2. /\ packet_dt(i, Piece(message, n, i)).index = uint8(i)
          /\ packet_dt(i, Piece(message, n, i)).data = Piece(message, n, i)
      BY DEF packet_dt
    <2> QED BY <1>5, <2>1, <2>2, Zenon
  <1> QED BY <1>5, <1>6, <1>7, Zenon DEF Carry

(* Byte j of a frame is the byte of the message that many after the frame  *)
(* begins.                                                                 *)
PieceHolds(message, n, i) ==
    /\ Len(Piece(message, n, i)) = ChunkLen(n, i)
    /\ \A j \in 1 .. ChunkLen(n, i) : Piece(message, n, i)[j] = message[7 * (i - 1) + j]

LEMMA StartOfPiece ==
    \A n \in 1 .. 255 : \A p \in 1 .. 37 : \A i \in 1 .. p :
        7 * (p - 1) < n => 7 * (i - 1) \in 0 .. n - 1
  <1> SUFFICES ASSUME NEW n \in 1 .. 255, NEW p \in 1 .. 37, NEW i \in 1 .. p, 7 * (p - 1) < n
               PROVE  7 * (i - 1) \in 0 .. n - 1
    BY Zenon
  <1>1. i - 1 >= 0 /\ i - 1 <= p - 1
    OBVIOUS
  <1>2. 7 * (i - 1) >= 0 /\ 7 * (i - 1) <= 7 * (p - 1)
    BY <1>1
  <1> QED BY <1>2

LEMMA PieceOf ==
    \A S : \A message \in Seq(S) : \A n \in 1 .. 255 :
        n = Size(message) => \A i \in 1 .. Packets(n) : PieceHolds(message, n, i)
  <1> SUFFICES ASSUME NEW S, NEW message \in Seq(S), NEW n \in 1 .. 255, n = Size(message),
                      NEW p \in 1 .. 37, p = Packets(n), NEW i \in 1 .. p
               PROVE  PieceHolds(message, n, i)
    <2>1. \A n \in 1 .. 255 : Packets(n) \in 1 .. 37
      BY PacketsOf
    <2> QED BY <2>1, Zenon
  <1> SUFFICES ASSUME NEW low \in 0 .. n - 1, low = 7 * (i - 1),
                      NEW len \in 1 .. 7, len = ChunkLen(n, i), low + len <= n
               PROVE  /\ Len(SubSeq(message, low + 1, low + len)) = len
                      /\ \A j \in 1 .. len : SubSeq(message, low + 1, low + len)[j] = message[low + j]
    <2>1. 7 * (p - 1) < n
      BY PacketsOf
    <2>2. 7 * (i - 1) \in 0 .. n - 1
      BY <2>1, StartOfPiece, Zenon
    <2>3. ChunkLen(n, i) \in 1 .. 7 /\ 7 * (i - 1) + ChunkLen(n, i) <= n
      <3>1. ChunkLen(n, i) \in 1 .. 7 /\ (i - 1) * 7 + ChunkLen(n, i) <= n
        BY ChunkOf
      <3>2. (i - 1) * 7 = 7 * (i - 1)
        OBVIOUS
      <3> QED BY <3>1, <3>2
    <2> QED BY <2>2, <2>3, Zenon DEF Piece, PieceHolds
  <1>1. \A e \in low + 1 .. low + len : message[e] \in S
    <2>1. \A e \in 1 .. Len(message) : message[e] \in S
      BY ElementOfSeq
    <2>2. Len(message) = n
      BY DEF Size
    <2> QED BY <2>1, <2>2
  <1>2. low + 1 \in Int /\ low + len \in Int /\ (low + len) - (low + 1) + 1 = len /\ low + 1 <= low + len
    OBVIOUS
  <1>3. /\ Len(SubSeq(message, low + 1, low + len)) = (low + len) - (low + 1) + 1
        /\ \A e \in 1 .. (low + len) - (low + 1) + 1 :
              SubSeq(message, low + 1, low + len)[e] = message[(low + 1) + e - 1]
    BY <1>1, <1>2, SubSeqProperties
  <1>4. Len(SubSeq(message, low + 1, low + len)) = len
    BY <1>2, <1>3
  <1>5. ASSUME NEW j \in 1 .. len
        PROVE  SubSeq(message, low + 1, low + len)[j] = message[low + j]
    <2>1. (low + 1) + j - 1 = low + j /\ j \in 1 .. (low + len) - (low + 1) + 1
      OBVIOUS
    <2> QED BY <1>3, <2>1, Zenon
  <1> QED BY <1>4, <1>5

LEMMA LongRoundTrip ==
    ASSUME NEW S, NEW message \in Seq(S), Len(message) \in 1 .. 255, NEW pgn
    PROVE  /\ bam_can_frames_to_data(data_to_bam_can_frames(pgn, message)) = message
           /\ Len(data_to_bam_can_frames(pgn, message)) = Packets(Len(message)) + 1
           /\ Head(data_to_bam_can_frames(pgn, message)).id = id_from_pgn(PGN_BAM)
  <1> SUFFICES ASSUME NEW n \in 1 .. 255, n = Size(message), NEW p \in 1 .. 37, p = Packets(n),
                      NEW packets, packets = data_to_bam_can_frames(pgn, message)
               PROVE  /\ bam_can_frames_to_data(packets) = message
                      /\ Len(packets) = p + 1 /\ Head(packets).id = id_from_pgn(PGN_BAM)
    BY PacketsOf DEF Size
  <1>1. /\ packets[1].nbytes = n /\ packets[1].npackets = p /\ packets[1].id = id_from_pgn(PGN_BAM)
        /\ Len(packets) = p + 1 /\ Head(packets) = packets[1]
        /\ \A i \in 1 .. p : packets[i + 1].index = i /\ packets[i + 1].data = Piece(message, n, i)
    <2>1. Carry(packets, message, n, p)
      BY FramesOf, Zenon
    <2> QED BY <2>1, Zenon DEF Carry
  <1> DEFINE holders(k) == {i \in 1 .. packets[1].npackets : HoldsByte(packets, packets[1].nbytes, i, k)}
             byte(k) == IF holders(k) = {} THEN Junk
                        ELSE LET i == CHOOSE i \in holders(k) : \A j \in holders(k) : j <= i
                             IN  ByteOf(packets[i + 1], k - (packets[i + 1].index - 1) * 7)
  <1>8. bam_can_frames_to_data(packets) = [k \in 1 .. packets[1].nbytes |-> byte(k)]
    BY Zenon DEF bam_can_frames_to_data
  <1>9. ASSUME NEW k \in 1 .. n
        PROVE  byte(k) = message[k]
    <2>0. HolderOf(k) \in 1 .. p
      BY HolderExists
    <2> SUFFICES ASSUME NEW h \in 1 .. p, h = HolderOf(k)
                 PROVE  byte(k) = message[k]
      BY <2>0
    <2>1. ASSUME NEW i \in 1 .. p PROVE HoldsByte(packets, n, i, k) <=> i = h
      <3>1. packets[i + 1].index = i
        BY <1>1
      <3>2. HoldsByte(packets, n, i, k) <=> (i - 1) * 7 < k /\ k <= (i - 1) * 7 + ChunkLen(n, i)
        BY <3>1, Zenon DEF HoldsByte
      <3> QED BY <3>2, OneHolder
    <2>2. holders(k) = {h}
      BY <1>1, <2>1
    <2> HIDE DEF holders
    <2>3. (CHOOSE i \in holders(k) : \A j \in holders(k) : j <= i) = h
      BY <2>2
    <2>4. byte(k) = ByteOf(packets[h + 1], k - (packets[h + 1].index - 1) * 7)
      <3>1. holders(k) # {}
        BY <2>2
      <3> QED BY <2>3, <3>1, Zenon
    <2> HIDE DEF byte
    <2>5. packets[h + 1].index = h /\ packets[h + 1].data = Piece(message, n, h)
      BY <1>1
    <2>6. byte(k) = ByteOf(packets[h + 1], k - (h - 1) * 7)
      BY <2>4, <2>5, Zenon
    <2>7. (h - 1) * 7 < k /\ k <= (h - 1) * 7 + ChunkLen(n, h)
      BY OneHolder
    <2>8. ChunkLen(n, h) \in 1 .. 7
      BY ChunkOf
    <2>c. PICK c \in 1 .. 7 : c = ChunkLen(n, h)
      BY <2>8, Zenon
    <2>j. PICK j \in 1 .. c : j = k - (h - 1) * 7
      BY <2>7, <2>c
    <2>p. /\ Len(Piece(message, n, h)) = c
          /\ \A e \in 1 .. c : Piece(message, n, h)[e] = message[7 * (h - 1) + e]
      BY <2>c, PieceOf, Zenon DEF PieceHolds
    <2>9. Piece(message, n, h)[j] = message[k]
      <3>1. 7 * (h - 1) + j = k
        BY <2>j
      <3> QED BY <2>p, <3>1
    <2>10. j <= Len(Piece(message, n, h))
      BY <2>p
    <2> QED BY <2>5, <2>6, <2>9, <2>10, <2>j, Zenon DEF ByteOf
  <1> HIDE DEF byte
  <1>10. message = [k \in 1 .. n |-> message[k]]
    <2>1. message \in [1 .. n -> S]
      BY LenProperties, Zenon DEF Size
    <2> QED BY <2>1
  <1>11. bam_can_frames_to_data(packets) = [k \in 1 .. n |-> byte(k)]
    BY <1>1, <1>8
  <1>12. bam_can_frames_to_data(packets) = message
    BY <1>9, <1>10, <1>11
  <1> QED BY <1>1, <1>12, Zenon

-----------------------------------------------------------------------------
(* What is on its way to prvCanRxTask: requests and other short messages,  *)
(* and long ones.                                                          *)
Short(id, n) == [size |-> 9, frames |-> <<[id |-> id, dlc |-> 4, data |-> Request(n)]>>]
ShortWires == {Short(id, n) : id \in {CAN_ID_HEARTBEAT_REQ, CAN_ID_GEAR}, n \in 1 .. MaxMessages}
LongWires == {send_can_message(PGN_BAM, LongMessage(len, k)).wire : len \in Lengths, k \in 0 .. MaxMessages}
Wires == ShortWires \cup LongWires

IsLong(w) == w.size > SizeOfFrame
LongOf(w) == bam_can_frames_to_data(w.frames)
IsRequest(w) == ~ IsLong(w) /\ Head(w.frames).id = CAN_ID_HEARTBEAT_REQ
Number(w) == Head(w.frames).data[4]

(* The shifter samples what the pedals and the lever are.                  *)
Sampled ==
    /\ shifter_gear \in 0 .. 255
    /\ data \in [gear : 0 .. 255, throttle : 0 .. 1023, brake : 0 .. 1023]

(* The mutex is there with the tasks that take it, and theirs alone.       *)
MutexOwned ==
    /\ mainPc # "done" => snPc = "none" /\ infoPc = "none" /\ mutex = "none"
    /\ infoPc = "copy" => mutex = "info"
    /\ snPc \in {"gear", "rest"} => mutex = "sensor"

(* The numbers of the requests answered and of those that wait, in one     *)
(* ascending row; the last long message is in the queue or in the buffer.  *)
RequestsAscend ==
    /\ messages \in 0 .. MaxMessages
    /\ rxQueue \in Seq(Wires) /\ acks \in Seq(Seq(Nat))
    /\ \A i \in 1 .. Len(rxQueue) : IsRequest(rxQueue[i]) => Number(rxQueue[i]) \in 1 .. messages
    /\ \A i, j \in 1 .. Len(rxQueue) :
          (i < j /\ IsRequest(rxQueue[i]) /\ IsRequest(rxQueue[j])) => Number(rxQueue[i]) < Number(rxQueue[j])
    /\ \A i \in 1 .. Len(acks) : Len(acks[i]) = 4 /\ acks[i][4] \in 1 .. messages
    /\ \A i, j \in 1 .. Len(acks) : i < j => acks[i][4] < acks[j][4]
    /\ \A i \in 1 .. Len(acks), j \in 1 .. Len(rxQueue) :
          IsRequest(rxQueue[j]) => acks[i][4] < Number(rxQueue[j])
LongKept ==
    \/ \E i \in 1 .. Len(rxQueue) : /\ IsLong(rxQueue[i]) /\ LongOf(rxQueue[i]) = lastLong
                                    /\ \A j \in 1 .. Len(rxQueue) : j > i => ~ IsLong(rxQueue[j])
    \/ (\A i \in 1 .. Len(rxQueue) : ~ IsLong(rxQueue[i])) /\ rxBuf = lastLong

EcuInductive == EcuTypeOK /\ Sampled /\ MutexOwned /\ RequestsAscend /\ LongKept

(* What a peer sends is one of these, and tells itself when it is received. *)
LEMMA RequestHasFour == \A n \in Nat : Request(n) \in Seq(Nat) /\ Len(Request(n)) = 4 /\ Request(n)[4] = n
  BY DEF Request

LEMMA ShortIsSent ==
    \A id, n : n \in Nat => send_can_message(id, Request(n)).wire = Short(id, n)
  <1> SUFFICES ASSUME NEW id, NEW n \in Nat
               PROVE  send_can_message(id, Request(n)).wire = Short(id, n)
    OBVIOUS
  <1>1. Len(Request(n)) = 4
    BY RequestHasFour
  <1>2. send_can_message(id, Request(n)) =
           [status |-> "SUCCESS",
            wire |-> [size |-> 5 + 4, frames |-> <<[id |-> id, dlc |-> 4, data |-> Request(n)]>>]]
    <2>1. ~ (4 > MAX_MESSAGE_SIZE) /\ 4 <= 8
      BY DEF MAX_MESSAGE_SIZE
    <2> QED BY <1>1, <2>1, Zenon DEF send_can_message
  <1>3. 5 + 4 = 9
    OBVIOUS
  <1> QED BY <1>2, <1>3 DEF Short

ShortReceived(id, n, w) ==
    /\ ~ IsLong(w)
    /\ IsRequest(w) <=> id = CAN_ID_HEARTBEAT_REQ
    /\ Number(w) = n
    /\ recv_can_message(w).status = "SUCCESS"
    /\ recv_can_message(w).id = id
    /\ recv_can_message(w).message = Request(n)

LEMMA ShortTells ==
    \A id, n : n \in Nat /\ id.top = 170 => ShortReceived(id, n, Short(id, n))
  <1> SUFFICES ASSUME NEW id, NEW n \in Nat, id.top = 170
               PROVE  ShortReceived(id, n, Short(id, n))
    OBVIOUS
  <1> DEFINE f == [id |-> id, dlc |-> 4, data |-> Request(n)]
  <1>1. Short(id, n).size = 9 /\ Short(id, n).frames = <<f>>
    BY Zenon DEF Short
  <1>2. Head(Short(id, n).frames) = f
    <2>1. Head(<<f>>) = f
      OBVIOUS
    <2> QED BY <1>1, <2>1, Zenon
  <1>3. ~ IsLong(Short(id, n))
    BY <1>1 DEF IsLong, SizeOfFrame
  <1>4. f.id = id /\ f.data = Request(n) /\ f.dlc = 4
    OBVIOUS
  <1>5. IsRequest(Short(id, n)) <=> id = CAN_ID_HEARTBEAT_REQ
    BY <1>2, <1>3, <1>4, Zenon DEF IsRequest
  <1>6. Number(Short(id, n)) = n
    <2>1. Head(Short(id, n).frames).data = Request(n)
      BY <1>2, <1>4
    <2>2. Request(n)[4] = n
      BY RequestHasFour
    <2> QED BY <2>1, <2>2, Zenon DEF Number
  <1>7. recv_can_message(Short(id, n)) = [status |-> "SUCCESS", id |-> id, message |-> Request(n)]
    <2>1. 9 # 0 /\ ~ (9 < 0) /\ 9 <= SizeOfFrame /\ 4 = 9 - 5
      BY DEF SizeOfFrame
    <2> HIDE DEF f
    <2>2. /\ Short(id, n).size = 9 /\ ~ (9 = 0) /\ ~ (9 < 0) /\ 9 <= SizeOfFrame /\ 9 - 5 = 4
          /\ Head(Short(id, n).frames) = f /\ f.dlc = 4 /\ f.id.top = 170
      BY <1>1, <1>2, <1>4, <2>1
    <2>3. recv_can_message(Short(id, n)) = [status |-> "SUCCESS", id |-> f.id, message |-> f.data]
      BY <2>2 DEF recv_can_message
    <2> QED BY <1>4, <2>3
  <1> QED BY <1>3, <1>5, <1>6, <1>7 DEF ShortReceived

LEMMA LongTells ==
    ASSUME NEW len \in 9 .. 100, NEW k \in Nat, NEW w, w = send_can_message(PGN_BAM, LongMessage(len, k)).wire
    PROVE  /\ IsLong(w) /\ ~ IsRequest(w) /\ LongOf(w) = LongMessage(len, k)
           /\ recv_can_message(w) = [status |-> "SUCCESS", id |-> CanId(0, PGN_BAM), message |-> LongOf(w)]
  <1> DEFINE m == LongMessage(len, k)
  <1>1. m \in Seq(Nat) /\ Len(m) = len
    BY DEF LongMessage
  <1>2. len \in 1 .. 255 /\ len > 8 /\ ~ (len > MAX_MESSAGE_SIZE) /\ ~ (len <= 8)
    BY DEF MAX_MESSAGE_SIZE
  <1> HIDE DEF m
  <1>3. test_pgn(PGN_BAM) = "SUCCESS"
    BY DEF test_pgn, PGN_BAM, PgnMask
  <1> DEFINE packets == data_to_bam_can_frames(PGN_BAM, m)
  <1>4. send_can_message(PGN_BAM, m) =
           [status |-> "SUCCESS", wire |-> [size |-> SizeOfFrame * (Len(packets) + 1), frames |-> packets]]
    BY <1>1, <1>2, <1>3, Zenon DEF send_can_message
  <1>5. w.size = SizeOfFrame * (Len(packets) + 1) /\ w.frames = packets
    BY <1>4 DEF m
  <1>6. /\ bam_can_frames_to_data(packets) = m /\ Len(packets) = Packets(len) + 1
        /\ Head(packets).id = id_from_pgn(PGN_BAM)
    BY <1>1, <1>2, LongRoundTrip, Zenon
  <1> HIDE DEF packets
  <1>7. w.size > SizeOfFrame /\ w.size # 0 /\ ~ (w.size < 0) /\ ~ (w.size <= SizeOfFrame)
    <2>1. Packets(len) \in 1 .. 37
      BY <1>2, PacketsOf
    <2>2. PICK p \in 1 .. 37 : p = Packets(len)
      BY <2>1
    <2>3. w.size = 13 * (p + 1 + 1)
      BY <1>5, <1>6, <2>2 DEF SizeOfFrame
    <2> QED BY <2>3 DEF SizeOfFrame
  <1>8. pgn_from_id(Head(w.frames).id) = PGN_BAM
    <2>1. Head(w.frames).id = CanId(170 + 60416 \div 131072, (60416 % 131072) * 128)
      <3>1. id_from_pgn(PGN_BAM) = CanId(170 + (PGN_BAM % PgnMask) \div 131072, ((PGN_BAM % PgnMask) % 131072) * 128)
        BY DEF id_from_pgn
      <3>2. PGN_BAM % PgnMask = 60416
        BY DEF PGN_BAM, PgnMask
      <3> QED BY <1>5, <1>6, <3>1, <3>2
    <2>2. 170 + 60416 \div 131072 = 170 /\ (60416 % 131072) * 128 = 7733248
      OBVIOUS
    <2>3. Head(w.frames).id.top = 170 /\ Head(w.frames).id.low = 7733248
      BY <2>1, <2>2 DEF CanId
    <2>4. (170 % 2) * 131072 + 7733248 \div 128 = 60416
      OBVIOUS
    <2> QED BY <2>3, <2>4 DEF pgn_from_id, PGN_BAM
  <1>9. LongOf(w) = m
    BY <1>5, <1>6, Zenon DEF LongOf
  <1>10. recv_can_message(w) = [status |-> "SUCCESS", id |-> CanId(0, PGN_BAM), message |-> bam_can_frames_to_data(w.frames)]
    BY <1>7, <1>8, Zenon DEF recv_can_message
  <1> QED BY <1>7, <1>9, <1>10, Zenon DEF IsLong, IsRequest, LongOf, m

(* Every wire in the queue is received, each in its way.                   *)
Tells(w) ==
    LET r == recv_can_message(w)
    IN  /\ r.status = "SUCCESS"
        /\ IsLong(w) => r.id = CanId(0, PGN_BAM) /\ r.message = LongOf(w) /\ ~ IsRequest(w)
        /\ ~ IsLong(w) => r.id # CanId(0, PGN_BAM)
        /\ IsRequest(w) => /\ r.id = CAN_ID_HEARTBEAT_REQ /\ r.message = Request(Number(w))
                           /\ Number(w) \in Nat
        /\ ~ IsRequest(w) => r.id # CAN_ID_HEARTBEAT_REQ

LEMMA Identifiers == /\ CAN_ID_HEARTBEAT_REQ # CAN_ID_GEAR
                     /\ CAN_ID_HEARTBEAT_REQ # CanId(0, PGN_BAM) /\ CAN_ID_GEAR # CanId(0, PGN_BAM)
                     /\ CAN_ID_HEARTBEAT_REQ.top = 170 /\ CAN_ID_GEAR.top = 170
  BY DEF CAN_ID_HEARTBEAT_REQ, CAN_ID_GEAR, CanId, PGN_BAM

LEMMA WiresTell == \A w \in Wires : Tells(w)
  <1>1. ASSUME NEW w \in ShortWires
        PROVE  Tells(w)
    <2>1. PICK id \in {CAN_ID_HEARTBEAT_REQ, CAN_ID_GEAR}, n \in 1 .. MaxMessages : w = Short(id, n)
      BY DEF ShortWires
    <2>2. n \in Nat
      BY EcuAssumption
    <2>3. id.top = 170 /\ id # CanId(0, PGN_BAM)
      BY Identifiers, Zenon
    <2>4. /\ ~ IsLong(w) /\ (IsRequest(w) <=> id = CAN_ID_HEARTBEAT_REQ) /\ Number(w) = n
          /\ recv_can_message(w).status = "SUCCESS" /\ recv_can_message(w).id = id
          /\ recv_can_message(w).message = Request(n)
      <3>1. ShortReceived(id, n, Short(id, n))
        BY <2>2, <2>3, ShortTells, Zenon
      <3>2. ShortReceived(id, n, w)
        BY <2>1, <3>1
      <3> QED BY <3>2, Zenon DEF ShortReceived
    <2> QED BY <2>2, <2>3, <2>4, Zenon DEF Tells
  <1>2. ASSUME NEW w \in LongWires
        PROVE  Tells(w)
    <2>1. PICK len \in Lengths, k \in 0 .. MaxMessages : w = send_can_message(PGN_BAM, LongMessage(len, k)).wire
      BY DEF LongWires
    <2>2. len \in 9 .. 100 /\ k \in Nat
      BY EcuAssumption
    <2>3. /\ IsLong(w) /\ ~ IsRequest(w)
          /\ recv_can_message(w) = [status |-> "SUCCESS", id |-> CanId(0, PGN_BAM), message |-> LongOf(w)]
      BY <2>1, <2>2, LongTells, Zenon
    <2> QED BY <2>3, Identifiers DEF Tells
  <1> QED BY <1>1, <1>2, Zenon DEF Wires

-----------------------------------------------------------------------------
LEMMA EcuStarts == EcuInit => EcuInductive
  <1> SUFFICES ASSUME EcuInit
               PROVE  EcuInductive
    OBVIOUS
  <1> USE DEF EcuInit
  <1>1. EcuTypeOK
    <2>1. off = (shPc = "begin") /\ seen \in BOOLEAN /\ halted \in BOOLEAN
      BY DEF EcuTypeOK
    <2>2. tmp \in Values /\ shared \in Values
      BY DEF Values, Percent, GearLetter
    <2>3. moves \in 0 .. MaxMoves /\ faults \in 0 .. MaxFaults
      BY EcuAssumption
    <2>4. quiet \in 0 .. QuietLimit /\ err_cnt \in 0 .. IIC_RESET_ERROR_THRESHOLD - 1
      BY EcuAssumption
    <2> QED BY <2>1, <2>2, <2>3, <2>4 DEF EcuTypeOK
  <1>2. Sampled
    BY DEF Sampled
  <1>3. MutexOwned
    BY DEF MutexOwned
  <1>4. RequestsAscend /\ LongKept
    <2>1. Len(rxQueue) = 0 /\ Len(acks) = 0 /\ rxQueue \in Seq(Wires) /\ acks \in Seq(Seq(Nat))
      BY EmptySeq
    <2>2. messages \in 0 .. MaxMessages /\ messages = 0
      BY EcuAssumption
    <2> QED BY <2>1, <2>2 DEF RequestsAscend, LongKept
  <1> QED BY <1>1, <1>2, <1>3, <1>4 DEF EcuInductive

LEMMA RxStands ==
    RequestsAscend /\ LongKept /\ UNCHANGED rxVars => RequestsAscend' /\ LongKept'
  <1>1. UNCHANGED rxVars => UNCHANGED <<rxQueue, messages, rxBuf, acks, lastLong>>
    BY DEF rxVars
  <1> QED BY <1>1 DEF RequestsAscend, LongKept

(* The driver and the bus.                                                 *)
LEMMA EnvironmentKeeps == EcuInductive /\ Environment => EcuInductive'
  <1> SUFFICES ASSUME EcuInductive, Environment
               PROVE  EcuInductive'
    OBVIOUS
  <1> USE DEF EcuInductive
  <1>1. CASE \E i \in Inputs : Move(i)
    <2>1. PICK i \in Inputs : Move(i)
      BY <1>1
    <2>2. /\ UNCHANGED <<shPc, shifter_gear, data, clock, off, quiet, seen, bus, faults, mainPc, net, halted,
                         snPc, err_cnt, tmp, shared, mutex, infoPc>>
          /\ UNCHANGED rxVars /\ input' = i /\ moves' = moves + 1 /\ moves < MaxMoves
      BY <2>1 DEF Move, shifterVars, busVars, mainVars, sensorVars
    <2>3. moves' \in 0 .. MaxMoves
      BY <2>2, EcuAssumption DEF EcuTypeOK
    <2>4. EcuTypeOK'
      BY <2>2, <2>3 DEF EcuTypeOK
    <2> QED BY <2>2, <2>4, RxStands DEF Sampled, MutexOwned
  <1>2. CASE \E side \in {"slave", "master"} : Fault(side)
    <2>1. PICK side \in {"slave", "master"} : Fault(side)
      BY <1>2
    <2>2. /\ UNCHANGED <<input, moves, shPc, shifter_gear, data, clock, off, quiet, seen, mainPc, net, halted,
                         snPc, err_cnt, tmp, shared, mutex, infoPc>>
          /\ UNCHANGED rxVars /\ bus' = side /\ faults' = faults + 1 /\ faults < MaxFaults
      BY <2>1 DEF Fault, shifterVars, busVars, mainVars, sensorVars
    <2>3. faults' \in 0 .. MaxFaults
      BY <2>2, EcuAssumption DEF EcuTypeOK
    <2>4. EcuTypeOK'
      BY <2>2, <2>3 DEF EcuTypeOK
    <2> QED BY <2>2, <2>4, RxStands DEF Sampled, MutexOwned
  <1> QED BY <1>1, <1>2 DEF Environment

(* The Shifter.                                                            *)
LEMMA ShifterKeeps == EcuInductive /\ Shifter => EcuInductive'
  <1> SUFFICES ASSUME EcuInductive, Shifter
               PROVE  EcuInductive'
    OBVIOUS
  <1> USE DEF EcuInductive
  <1>1. /\ UNCHANGED <<input, moves, faults, mainPc, net, halted, snPc, err_cnt, tmp, shared, mutex, infoPc, seen>>
        /\ UNCHANGED rxVars
    BY DEF Shifter, ReadGear, CopyBrake, CopyThrottle, CopyGear, CheckBus, CompareTimes, BeginWire,
           ShifterOnly, mainVars, sensorVars, busVars
  <1>2. input.throttle \in 0 .. 1023 /\ input.brake \in 0 .. 1023 /\ input.gear \in 0 .. 255
    BY EcuAssumption DEF EcuTypeOK
  <1>3. MutexOwned' /\ RequestsAscend' /\ LongKept'
    BY <1>1, RxStands DEF MutexOwned
  <1>4. /\ shPc' \in {"can", "brake", "throttle", "gear", "check", "compare", "begin"}
        /\ clock' \in {"idle", "read", "overtaken"} /\ bus' \in {"ok", "slave", "master"}
    BY DEF Shifter, ReadGear, CopyBrake, CopyThrottle, CopyGear, CheckBus, CompareTimes, BeginWire,
           busVars, EcuTypeOK
  <1>5. off' = (shPc' = "begin")
    <2>1. (off' <=> (shPc' = "begin")) /\ off' \in BOOLEAN
      BY Zenon DEF Shifter, ReadGear, CopyBrake, CopyThrottle, CopyGear, CheckBus, CompareTimes, BeginWire,
           EcuTypeOK
    <2> QED BY <2>1
  <1>6. quiet' \in 0 .. QuietLimit
    BY EcuAssumption DEF Shifter, ReadGear, CopyBrake, CopyThrottle, CopyGear, CheckBus, CompareTimes,
           BeginWire, busVars, EcuTypeOK
  <1>7. Sampled'
    BY <1>2 DEF Shifter, ReadGear, CopyBrake, CopyThrottle, CopyGear, CheckBus, CompareTimes,
           BeginWire, Sampled
  <1>8. EcuTypeOK'
    BY <1>1, <1>4, <1>5, <1>6 DEF EcuTypeOK
  <1> QED BY <1>3, <1>7, <1>8

(* The main task and the network hook.                                     *)
LEMMA MainKeeps == EcuInductive /\ (Main \/ vApplicationIPNetworkEventHook) => EcuInductive'
  <1> SUFFICES ASSUME EcuInductive, Main \/ vApplicationIPNetworkEventHook
               PROVE  EcuInductive'
    OBVIOUS
  <1> USE DEF EcuInductive
  <1>1. /\ UNCHANGED <<input, moves, shPc, shifter_gear, data, clock, off, quiet, seen, bus, faults, err_cnt, tmp, shared>>
        /\ UNCHANGED rxVars
    BY DEF Main, MainStarts, MainDelayed, MainNotified, MainTimesOut, vApplicationIPNetworkEventHook,
           MainOnly, shifterVars, busVars
  <1>2. MutexOwned'
    BY DEF Main, MainStarts, MainDelayed, MainNotified, MainTimesOut, vApplicationIPNetworkEventHook,
           MutexOwned
  <1>3. /\ mainPc' \in {"created", "delay", "wait", "done", "deleted"}
        /\ net' \in {"down", "up", "notified"}
        /\ snPc' \in {"none", "receive", "take", "gear", "rest"}
        /\ mutex' \in {"none", "free", "sensor", "info"}
        /\ infoPc' \in {"none", "take", "copy", "print"}
    BY DEF Main, MainStarts, MainDelayed, MainNotified, MainTimesOut, vApplicationIPNetworkEventHook,
           EcuTypeOK
  <1>4. halted' \in BOOLEAN
    BY Zenon DEF Main, MainStarts, MainDelayed, MainNotified, MainTimesOut, vApplicationIPNetworkEventHook,
           EcuTypeOK
  <1>5. EcuTypeOK'
    BY <1>1, <1>3, <1>4 DEF EcuTypeOK
  <1> QED BY <1>1, <1>2, <1>5, RxStands DEF Sampled

(* The sensor task; what it scales is a percentage, whatever it sampled.   *)
LEMMA ReadingsArePercentages == \A n \in Int : ThrottleOf(n) \in Percent /\ BrakeOf(n) \in Percent
  <1>1. \A x \in Int : min(max(int16(x), 0), 100) \in Percent
    BY DEF min, max, int16, Percent
  <1>2. \A x \in Int : int16(x) \in Int /\ max(x, 0) \in Int
    BY DEF int16, max
  <1> SUFFICES ASSUME NEW n \in Int
               PROVE  ThrottleOf(n) \in Percent /\ BrakeOf(n) \in Percent
    OBVIOUS
  <1>3. ASSUME NEW x \in Int, NEW d \in Int, d > 0
        PROVE  int16((max(int16(x), 0) * 100) \div d) \in Int /\ (max(int16(x), 0) * 100) \div d \in Int
    <2>1. max(int16(x), 0) \in Int
      BY <1>2
    <2>2. PICK y \in Int : y = max(int16(x), 0)
      BY <2>1
    <2>3. (y * 100) \div d \in Int
      BY <1>3
    <2> QED BY <1>2, <2>2, <2>3
  <1>4. ThrottleOf(n) \in Percent
    <2>1. n - 64 \in Int /\ 926 - 64 \in Int /\ 926 - 64 > 0
      OBVIOUS
    <2> DEFINE x == (max(int16(n - 64), 0) * 100) \div (926 - 64)
    <2>2. x \in Int
      BY <1>3, <2>1
    <2>3. ThrottleOf(n) = min(max(int16(x), 0), 100)
      BY DEF ThrottleOf, THROTTLE_MAX, THROTTLE_MIN, THROTTLE_GAIN
    <2> HIDE DEF x
    <2>4. min(max(int16(x), 0), 100) \in Percent
      BY <1>1, <2>2, Zenon
    <2> QED BY <2>3, <2>4, Zenon
  <1>5. BrakeOf(n) \in Percent
    <2>1. 510 - n \in Int /\ 510 - 456 \in Int /\ 510 - 456 > 0
      OBVIOUS
    <2> DEFINE x == (max(int16(510 - n), 0) * 100) \div (510 - 456)
    <2>2. x \in Int
      BY <1>3, <2>1
    <2>3. BrakeOf(n) = min(max(int16(x), 0), 100)
      BY DEF BrakeOf, BRAKE_MAX, BRAKE_MIN, BRAKE_GAIN
    <2> HIDE DEF x
    <2>4. min(max(int16(x), 0), 100) \in Percent
      BY <1>1, <2>2, Zenon
    <2> QED BY <2>3, <2>4, Zenon
  <1> QED BY <1>4, <1>5

LEMMA SensorKeeps == EcuInductive /\ Sensor => EcuInductive'
  <1> SUFFICES ASSUME EcuInductive, Sensor
               PROVE  EcuInductive'
    OBVIOUS
  <1> USE DEF EcuInductive
  <1>1. /\ UNCHANGED <<input, moves, shPc, shifter_gear, data, off, faults, mainPc, net, halted, infoPc>>
        /\ UNCHANGED rxVars
    BY DEF Sensor, SensorReceives, SensorErr, SensorTakes, SensorStoresGear, SensorStoresRest,
           SensorOnly, mainVars
  <1>2. /\ snPc' \in {"none", "receive", "take", "gear", "rest"}
        /\ mutex' \in {"none", "free", "sensor", "info"}
        /\ clock' \in {"idle", "read", "overtaken"} /\ bus' \in {"ok", "slave", "master"}
    BY DEF Sensor, SensorReceives, SensorErr, SensorTakes, SensorStoresGear, SensorStoresRest,
           busVars, EcuTypeOK
  <1>3. seen' \in BOOLEAN
    BY Zenon DEF Sensor, SensorReceives, SensorErr, SensorTakes, SensorStoresGear, SensorStoresRest,
           busVars, EcuTypeOK
  <1>4. quiet' \in 0 .. QuietLimit /\ err_cnt' \in 0 .. IIC_RESET_ERROR_THRESHOLD - 1
    BY EcuAssumption DEF Sensor, SensorReceives, SensorErr, SensorTakes, SensorStoresGear,
           SensorStoresRest, busVars, EcuTypeOK
  <1>5. tmp' \in Values
    <2>1. CASE SensorReceives
      <3>1. data.throttle \in Int /\ data.brake \in Int
        BY DEF Sampled
      <3>2. ThrottleOf(data.throttle) \in Percent /\ BrakeOf(data.brake) \in Percent
        BY <3>1, ReadingsArePercentages
      <3>3. GearOf(data.gear, tmp.gear) \in GearLetter \union {"junk", "nul"}
        BY DEF GearOf, GearLetter, EcuTypeOK, Values
      <3> QED BY <2>1, <3>2, <3>3 DEF SensorReceives, Scaled, Values
    <2>2. CASE SensorErr \/ SensorTakes \/ SensorStoresGear \/ SensorStoresRest
      BY <2>2 DEF SensorErr, SensorTakes, SensorStoresGear, SensorStoresRest, EcuTypeOK
    <2> QED BY <2>1, <2>2 DEF Sensor
  <1>6. shared' \in Values
    <2>1. CASE SensorStoresGear
      BY <2>1 DEF SensorStoresGear, EcuTypeOK, Values
    <2>2. CASE SensorStoresRest
      BY <2>2 DEF SensorStoresRest, EcuTypeOK, Values
    <2>3. CASE SensorErr \/ SensorTakes \/ SensorReceives
      BY <2>3 DEF SensorErr, SensorTakes, SensorReceives, EcuTypeOK
    <2> QED BY <2>1, <2>2, <2>3 DEF Sensor
  <1>7. MutexOwned'
    BY <1>1 DEF Sensor, SensorReceives, SensorErr, SensorTakes, SensorStoresGear, SensorStoresRest,
           MutexOwned
  <1>8. EcuTypeOK'
    BY <1>1, <1>2, <1>3, <1>4, <1>5, <1>6 DEF EcuTypeOK
  <1> QED BY <1>1, <1>7, <1>8, RxStands DEF Sampled

(* The info task.                                                          *)
LEMMA InfoKeeps == EcuInductive /\ Info => EcuInductive'
  <1> SUFFICES ASSUME EcuInductive, Info
               PROVE  EcuInductive'
    OBVIOUS
  <1> USE DEF EcuInductive
  <1>1. /\ UNCHANGED <<input, moves, shPc, shifter_gear, data, clock, off, quiet, seen, bus, faults, mainPc,
                       net, halted, snPc, err_cnt, tmp, shared>>
        /\ UNCHANGED rxVars
    BY DEF Info, InfoTakes, InfoCopies, InfoPrints, InfoOnly, shifterVars, busVars, mainVars, sensorVars
  <1>2. MutexOwned' /\ mutex' \in {"none", "free", "sensor", "info"} /\ infoPc' \in {"none", "take", "copy", "print"}
    BY <1>1 DEF Info, InfoTakes, InfoCopies, InfoPrints, MutexOwned, EcuTypeOK
  <1>3. EcuTypeOK'
    BY <1>1, <1>2 DEF EcuTypeOK
  <1> QED BY <1>1, <1>2, <1>3, RxStands DEF Sampled

(* What a peer adds to the queue is its last entry.                        *)
LEMMA Queued ==
    ASSUME NEW S, NEW q \in Seq(S), NEW w \in S
    PROVE  /\ Append(q, w) \in Seq(S) /\ Len(q) \in Nat /\ Len(Append(q, w)) = Len(q) + 1
           /\ \A i \in 1 .. Len(q) : Append(q, w)[i] = q[i]
           /\ Append(q, w)[Len(q) + 1] = w
  BY AppendProperties, LenProperties

LEMMA PeerAdds ==
    ASSUME EcuInductive, NEW w \in Wires, PeerPuts(w),
           IsRequest(w) => Number(w) = messages + 1,
           lastLong' = IF IsLong(w) THEN LongOf(w) ELSE lastLong
    PROVE  RequestsAscend' /\ LongKept'
  <1> DEFINE q == rxQueue
             r == rxQueue'
             len == Len(rxQueue)
  <1>1. /\ r = Append(q, w) /\ messages' = messages + 1 /\ messages < MaxMessages
        /\ rxBuf' = rxBuf /\ acks' = acks
    BY DEF PeerPuts
  <1>2. /\ r \in Seq(Wires) /\ len \in Nat /\ Len(r) = len + 1
        /\ \A i \in 1 .. len : r[i] = q[i]
        /\ r[len + 1] = w
    BY <1>1, Queued DEF EcuInductive, RequestsAscend
  <1>3. messages \in 0 .. MaxMessages /\ MaxMessages \in Nat
    BY EcuAssumption DEF EcuInductive, RequestsAscend
  <1>4. messages' \in 0 .. MaxMessages
    BY <1>1, <1>3
  <1>5. /\ \A i \in 1 .. len : IsRequest(q[i]) => Number(q[i]) \in 1 .. messages
        /\ \A i, j \in 1 .. len : (i < j /\ IsRequest(q[i]) /\ IsRequest(q[j])) => Number(q[i]) < Number(q[j])
        /\ \A i \in 1 .. Len(acks) : Len(acks[i]) = 4 /\ acks[i][4] \in 1 .. messages
        /\ \A i, j \in 1 .. Len(acks) : i < j => acks[i][4] < acks[j][4]
        /\ \A i \in 1 .. Len(acks), j \in 1 .. len : IsRequest(q[j]) => acks[i][4] < Number(q[j])
        /\ acks \in Seq(Seq(Nat))
    BY DEF EcuInductive, RequestsAscend
  <1> HIDE DEF q, r, len
  <1>6. ASSUME NEW i \in 1 .. len + 1, i \notin 1 .. len
        PROVE  i = len + 1 /\ r[i] = w
    <2>1. i = len + 1
      BY <1>2, <1>6
    <2> QED BY <1>2, <2>1
  <1>7. \A i \in 1 .. len + 1 : IsRequest(r[i]) => Number(r[i]) \in 1 .. messages + 1
    <2> SUFFICES ASSUME NEW i \in 1 .. len + 1, IsRequest(r[i])
                 PROVE  Number(r[i]) \in 1 .. messages + 1
      OBVIOUS
    <2>1. CASE i \in 1 .. len
      <3>1. Number(r[i]) \in 1 .. messages
        BY <1>2, <1>5, <2>1
      <3> QED BY <1>3, <3>1
    <2>2. CASE i \notin 1 .. len
      <3>1. Number(r[i]) = messages + 1
        BY <1>6, <2>2
      <3> QED BY <1>3, <3>1
    <2> QED BY <2>1, <2>2
  <1>8. ASSUME NEW i \in 1 .. len + 1, NEW j \in 1 .. len + 1, i < j, IsRequest(r[i]), IsRequest(r[j])
        PROVE  Number(r[i]) < Number(r[j])
    <2>1. i \in 1 .. len
      BY <1>2, <1>8
    <2>2. CASE j \in 1 .. len
      BY <1>2, <1>5, <1>8, <2>1, <2>2
    <2>3. CASE j \notin 1 .. len
      <3>1. Number(r[j]) = messages + 1
        BY <1>6, <1>8, <2>3
      <3>2. Number(r[i]) \in 1 .. messages
        BY <1>2, <1>5, <1>8, <2>1
      <3> QED BY <1>3, <3>1, <3>2
    <2> QED BY <2>2, <2>3
  <1>9. ASSUME NEW i \in 1 .. Len(acks), NEW j \in 1 .. len + 1, IsRequest(r[j])
        PROVE  acks[i][4] < Number(r[j])
    <2>1. CASE j \in 1 .. len
      BY <1>2, <1>5, <1>9, <2>1
    <2>2. CASE j \notin 1 .. len
      <3>1. Number(r[j]) = messages + 1
        BY <1>6, <1>9, <2>2
      <3>2. acks[i][4] \in 1 .. messages
        BY <1>5
      <3> QED BY <1>3, <3>1, <3>2
    <2> QED BY <2>1, <2>2
  <1>10. \A i \in 1 .. Len(acks) : Len(acks[i]) = 4 /\ acks[i][4] \in 1 .. messages + 1
    BY <1>3, <1>5
  <1>11. RequestsAscend'
    BY <1>1, <1>2, <1>4, <1>5, <1>7, <1>8, <1>9, <1>10 DEF RequestsAscend, r
  <1>12. LongKept'
    <2>1. CASE IsLong(w)
      <3>1. len + 1 \in 1 .. len + 1 /\ \A j \in 1 .. len + 1 : ~ (j > len + 1)
        BY <1>2
      <3>2. IsLong(r[len + 1]) /\ LongOf(r[len + 1]) = lastLong'
        BY <1>2, <2>1
      <3> QED BY <1>2, <3>1, <3>2 DEF LongKept, r
    <2>2. CASE ~ IsLong(w)
      <3>1. lastLong' = lastLong
        BY <2>2
      <3>2. CASE \E i \in 1 .. len : /\ IsLong(q[i]) /\ LongOf(q[i]) = lastLong
                                     /\ \A j \in 1 .. len : j > i => ~ IsLong(q[j])
        <4>1. PICK i \in 1 .. len : /\ IsLong(q[i]) /\ LongOf(q[i]) = lastLong
                                    /\ \A j \in 1 .. len : j > i => ~ IsLong(q[j])
          BY <3>2
        <4>2. i \in 1 .. len + 1 /\ IsLong(r[i]) /\ LongOf(r[i]) = lastLong'
          BY <1>2, <3>1, <4>1
        <4>3. ASSUME NEW j \in 1 .. len + 1, j > i
              PROVE  ~ IsLong(r[j])
          BY <1>2, <1>6, <2>2, <4>1, <4>3
        <4> QED BY <1>2, <4>2, <4>3 DEF LongKept, r
      <3>3. CASE (\A i \in 1 .. len : ~ IsLong(q[i])) /\ rxBuf = lastLong
        <4>1. \A i \in 1 .. len + 1 : ~ IsLong(r[i])
          BY <1>2, <1>6, <2>2, <3>3
        <4> QED BY <1>1, <1>2, <3>1, <3>3, <4>1 DEF LongKept, r
      <3>4. LongKept
        BY DEF EcuInductive
      <3> QED BY <3>2, <3>3, <3>4 DEF LongKept, q, len
    <2> QED BY <2>1, <2>2
  <1> QED BY <1>11, <1>12

LEMMA PeerKeeps == EcuInductive /\ Peer => EcuInductive'
  <1> SUFFICES ASSUME EcuInductive, Peer
               PROVE  EcuInductive'
    OBVIOUS
  <1>1. PICK w : PeerPuts(w)
    BY DEF Peer, PeerSendsRequest, PeerSendsOther, PeerSendsLong
  <1>2. /\ UNCHANGED <<input, moves, shPc, shifter_gear, data, clock, off, quiet, seen, bus, faults, mainPc,
                       net, halted, snPc, err_cnt, tmp, shared, mutex, infoPc>>
        /\ messages < MaxMessages
    BY <1>1 DEF PeerPuts, RxOnly, shifterVars, busVars, mainVars, sensorVars
  <1>3. messages \in 0 .. MaxMessages /\ MaxMessages \in Nat
    BY EcuAssumption DEF EcuInductive, RequestsAscend
  <1>4. messages + 1 \in 1 .. MaxMessages /\ messages + 1 \in Nat
    BY <1>2, <1>3
  <1>5. ASSUME NEW id \in {CAN_ID_HEARTBEAT_REQ, CAN_ID_GEAR},
               PeerPuts(send_can_message(id, Request(messages + 1)).wire), UNCHANGED lastLong
        PROVE  RequestsAscend' /\ LongKept'
    <2> DEFINE v == Short(id, messages + 1)
    <2>1. send_can_message(id, Request(messages + 1)).wire = v
      BY <1>4, ShortIsSent
    <2>2. v \in Wires
      BY <1>4 DEF Wires, ShortWires
    <2>3. id.top = 170
      BY Identifiers
    <2>4. ~ IsLong(v) /\ Number(v) = messages + 1
      <3>1. ShortReceived(id, messages + 1, v)
        BY <1>4, <2>3, ShortTells
      <3> QED BY <3>1, Zenon DEF ShortReceived
    <2>5. PeerPuts(v)
      BY <1>5, <2>1
    <2> HIDE DEF v
    <2>6. lastLong' = IF IsLong(v) THEN LongOf(v) ELSE lastLong
      BY <1>5, <2>4
    <2> QED BY <2>2, <2>4, <2>5, <2>6, PeerAdds
  <1>6. ASSUME NEW l \in Lengths, PeerPuts(send_can_message(PGN_BAM, LongMessage(l, messages)).wire),
               lastLong' = LongMessage(l, messages)
        PROVE  RequestsAscend' /\ LongKept'
    <2>1. PICK v : v = send_can_message(PGN_BAM, LongMessage(l, messages)).wire
      OBVIOUS
    <2>2. v \in Wires
      BY <1>3, <2>1 DEF Wires, LongWires
    <2>3. IsLong(v) /\ ~ IsRequest(v) /\ LongOf(v) = LongMessage(l, messages)
      <3>1. l \in 9 .. 100 /\ messages \in Nat
        BY <1>3, EcuAssumption
      <3> QED BY <2>1, <3>1, LongTells
    <2>4. PeerPuts(v)
      BY <1>6, <2>1
    <2>5. lastLong' = IF IsLong(v) THEN LongOf(v) ELSE lastLong
      BY <1>6, <2>3
    <2> QED BY <2>2, <2>3, <2>4, <2>5, PeerAdds
  <1>7. RequestsAscend' /\ LongKept'
    BY <1>5, <1>6 DEF Peer, PeerSendsRequest, PeerSendsOther, PeerSendsLong
  <1>8. EcuTypeOK' /\ Sampled' /\ MutexOwned'
    BY <1>2 DEF EcuInductive, EcuTypeOK, Sampled, MutexOwned
  <1> QED BY <1>7, <1>8 DEF EcuInductive

(* prvCanRxTask takes the first entry: a long message to its buffer, of a  *)
(* request its four bytes to the answer.                                   *)
LEMMA CanRxDoes ==
    ASSUME EcuInductive, CanRx
    PROVE  LET w == rxQueue[1]
           IN  /\ w \in Wires /\ rxQueue # << >> /\ rxQueue' = Tail(rxQueue)
               /\ rxBuf' = IF IsLong(w) THEN LongOf(w) ELSE rxBuf
               /\ acks' = IF IsRequest(w) THEN Append(acks, Request(Number(w))) ELSE acks
               /\ IsRequest(w) => Number(w) \in Nat /\ ~ IsLong(w)
               /\ UNCHANGED <<messages, lastLong>>
  <1> DEFINE w == rxQueue[1]
             r == recv_can_message(w)
  <1>1. rxQueue \in Seq(Wires) /\ rxQueue # << >>
    BY DEF EcuInductive, RequestsAscend, CanRx
  <1>2. w \in Wires /\ Head(rxQueue) = w
    <2>1. 1 \in 1 .. Len(rxQueue)
      BY <1>1, EmptySeq, LenProperties
    <2> QED BY <1>1, <2>1, ElementOfSeq
  <1>3. /\ rxQueue' = Tail(rxQueue)
        /\ rxBuf' = IF r.status = "SUCCESS" /\ r.id = CanId(0, PGN_BAM) THEN r.message ELSE rxBuf
        /\ acks' = IF r.status = "SUCCESS" /\ r.id = CAN_ID_HEARTBEAT_REQ
                   THEN Append(acks, SubSeq(r.message, 1, min(4, Len(r.message)))) ELSE acks
        /\ UNCHANGED <<messages, lastLong>>
    BY <1>2 DEF CanRx
  <1> HIDE DEF w
  <1>4. Tells(w)
    BY <1>2, WiresTell
  <1>5. /\ r.status = "SUCCESS"
        /\ IsLong(w) => r.id = CanId(0, PGN_BAM) /\ r.message = LongOf(w) /\ ~ IsRequest(w)
        /\ ~ IsLong(w) => r.id # CanId(0, PGN_BAM)
        /\ IsRequest(w) => /\ r.id = CAN_ID_HEARTBEAT_REQ /\ r.message = Request(Number(w))
                           /\ Number(w) \in Nat
        /\ ~ IsRequest(w) => r.id # CAN_ID_HEARTBEAT_REQ
    BY <1>4, Zenon DEF Tells
  <1> HIDE DEF r
  <1>6. ASSUME NEW n \in Nat
        PROVE  SubSeq(Request(n), 1, min(4, Len(Request(n)))) = Request(n)
    <2>1. Request(n) \in Seq(Nat) /\ Len(Request(n)) = 4
      BY RequestHasFour
    <2>2. min(4, 4) = 4
      BY DEF min
    <2>3. \A i \in 1 .. 4 : Request(n)[i] \in Nat
      BY <2>1, ElementOfSeq
    <2>4. /\ SubSeq(Request(n), 1, 4) \in Seq(Nat) /\ Len(SubSeq(Request(n), 1, 4)) = 4
          /\ \A i \in 1 .. 4 : SubSeq(Request(n), 1, 4)[i] = Request(n)[i]
      <3>1. /\ SubSeq(Request(n), 1, 4) \in Seq(Nat)
            /\ Len(SubSeq(Request(n), 1, 4)) = IF 1 <= 4 THEN 4 - 1 + 1 ELSE 0
            /\ \A i \in 1 .. 4 - 1 + 1 : SubSeq(Request(n), 1, 4)[i] = Request(n)[1 + i - 1]
        BY <2>3, SubSeqProperties
      <3> QED BY <3>1
    <2>5. SubSeq(Request(n), 1, 4) = Request(n)
      BY <2>1, <2>4, SeqEqual
    <2> QED BY <2>1, <2>2, <2>5
  <1>7. IsRequest(w) => Number(w) \in Nat /\ ~ IsLong(w)
    BY <1>5
  <1>8. rxBuf' = IF IsLong(w) THEN LongOf(w) ELSE rxBuf
    BY <1>3, <1>5
  <1>9. acks' = IF IsRequest(w) THEN Append(acks, Request(Number(w))) ELSE acks
    <2>1. CASE IsRequest(w)
      <3>1. SubSeq(r.message, 1, min(4, Len(r.message))) = Request(Number(w))
        BY <1>5, <1>6, <2>1
      <3> QED BY <1>3, <1>5, <2>1, <3>1
    <2>2. CASE ~ IsRequest(w)
      BY <1>3, <1>5, <2>2
    <2> QED BY <2>1, <2>2
  <1> QED BY <1>1, <1>2, <1>3, <1>7, <1>8, <1>9 DEF w

LEMMA CanRxTakes ==
    ASSUME EcuInductive, CanRx
    PROVE  RequestsAscend' /\ LongKept'
  <1> DEFINE q == rxQueue
             r == rxQueue'
             w == rxQueue[1]
  <1>1. /\ w \in Wires /\ q # << >> /\ r = Tail(q)
        /\ rxBuf' = IF IsLong(w) THEN LongOf(w) ELSE rxBuf
        /\ acks' = IF IsRequest(w) THEN Append(acks, Request(Number(w))) ELSE acks
        /\ IsRequest(w) => Number(w) \in Nat /\ ~ IsLong(w)
        /\ UNCHANGED <<messages, lastLong>>
    BY CanRxDoes
  <1>2. q \in Seq(Wires)
    BY DEF EcuInductive, RequestsAscend
  <1>3. PICK len \in Nat : Len(q) = len + 1
    <2>1. Len(q) \in Nat \ {0}
      BY <1>1, <1>2, EmptySeq
    <2>2. Len(q) - 1 \in Nat /\ Len(q) = (Len(q) - 1) + 1
      BY <2>1
    <2> QED BY <2>2
  <1>4. /\ r \in Seq(Wires) /\ Len(r) = len
        /\ \A i \in 1 .. len : r[i] = q[i + 1]
    <2>1. /\ r \in Seq(Wires) /\ Len(r) = Len(q) - 1
          /\ \A i \in 1 .. Len(r) : r[i] = q[i + 1]
      BY <1>1, <1>2, HeadTailProperties
    <2> QED BY <1>3, <2>1
  <1>5. /\ \A i \in 1 .. len + 1 : IsRequest(q[i]) => Number(q[i]) \in 1 .. messages
        /\ \A i, j \in 1 .. len + 1 : (i < j /\ IsRequest(q[i]) /\ IsRequest(q[j])) => Number(q[i]) < Number(q[j])
        /\ \A i \in 1 .. Len(acks) : Len(acks[i]) = 4 /\ acks[i][4] \in 1 .. messages
        /\ \A i, j \in 1 .. Len(acks) : i < j => acks[i][4] < acks[j][4]
        /\ \A i \in 1 .. Len(acks), j \in 1 .. len + 1 : IsRequest(q[j]) => acks[i][4] < Number(q[j])
        /\ acks \in Seq(Seq(Nat)) /\ messages \in 0 .. MaxMessages
    BY <1>3 DEF EcuInductive, RequestsAscend
  <1>6. /\ LongKept
        /\ w = q[1]
    BY DEF EcuInductive
  <1> HIDE DEF q, r, w
  <1>7. \A i \in 1 .. len : i + 1 \in 1 .. len + 1 /\ r[i] = q[i + 1] /\ 1 < i + 1
    BY <1>4
  <1>8. 1 \in 1 .. len + 1
    OBVIOUS
  <1>9. /\ \A i \in 1 .. len : IsRequest(r[i]) => Number(r[i]) \in 1 .. messages
        /\ \A i, j \in 1 .. len : (i < j /\ IsRequest(r[i]) /\ IsRequest(r[j])) => Number(r[i]) < Number(r[j])
    <2>1. \A i \in 1 .. len : IsRequest(r[i]) => Number(r[i]) \in 1 .. messages
      BY <1>5, <1>7
    <2>2. ASSUME NEW i \in 1 .. len, NEW j \in 1 .. len, i < j, IsRequest(r[i]), IsRequest(r[j])
          PROVE  Number(r[i]) < Number(r[j])
      <3>1. i + 1 < j + 1 /\ i + 1 \in 1 .. len + 1 /\ j + 1 \in 1 .. len + 1
        BY <2>2
      <3>2. r[i] = q[i + 1] /\ r[j] = q[j + 1]
        BY <1>7
      <3> QED BY <1>5, <2>2, <3>1, <3>2
    <2> QED BY <2>1, <2>2
  <1>10. /\ acks' \in Seq(Seq(Nat))
         /\ \A i \in 1 .. Len(acks') : Len(acks'[i]) = 4 /\ acks'[i][4] \in 1 .. messages
         /\ \A i, j \in 1 .. Len(acks') : i < j => acks'[i][4] < acks'[j][4]
         /\ \A i \in 1 .. Len(acks'), j \in 1 .. len : IsRequest(r[j]) => acks'[i][4] < Number(r[j])
    <2>0. \A i \in 1 .. Len(acks), j \in 1 .. len : IsRequest(r[j]) => acks[i][4] < Number(r[j])
      BY <1>5, <1>7
    <2>1. CASE ~ IsRequest(w)
      BY <1>1, <1>5, <2>0, <2>1
    <2>2. CASE IsRequest(w)
      <3> DEFINE a == acks
                 b == acks'
                 x == Request(Number(w))
                 m == Len(acks)
      <3>1. Number(w) \in 1 .. messages /\ Number(w) \in Nat
        BY <1>1, <1>5, <1>6, <1>8, <2>2
      <3>2. x \in Seq(Nat) /\ Len(x) = 4 /\ x[4] = Number(w)
        BY <3>1, RequestHasFour
      <3>3. /\ b \in Seq(Seq(Nat)) /\ m \in Nat /\ Len(b) = m + 1
            /\ \A i \in 1 .. m : b[i] = a[i]
            /\ b[m + 1] = x
        <4>1. b = Append(a, x)
          BY <1>1, <2>2
        <4> HIDE DEF x
        <4> QED BY <1>5, <3>2, <4>1, Queued
      <3>4. /\ \A i \in 1 .. m : Len(a[i]) = 4 /\ a[i][4] \in 1 .. messages
            /\ \A i, j \in 1 .. m : i < j => a[i][4] < a[j][4]
            /\ \A i \in 1 .. m : a[i][4] < Number(w)
            /\ \A i \in 1 .. m, j \in 1 .. len : IsRequest(r[j]) => a[i][4] < Number(r[j])
        BY <1>5, <1>6, <1>8, <2>0, <2>2
      <3>5. \A j \in 1 .. len : IsRequest(r[j]) => Number(w) < Number(r[j])
        BY <1>5, <1>6, <1>7, <1>8, <2>2
      <3> HIDE DEF a, b, x, m
      <3>6. ASSUME NEW i \in 1 .. m + 1, i \notin 1 .. m
            PROVE  i = m + 1 /\ b[i] = x
        <4>1. i = m + 1
          BY <3>3, <3>6
        <4> QED BY <3>3, <4>1
      <3>7. \A i \in 1 .. m + 1 : Len(b[i]) = 4 /\ b[i][4] \in 1 .. messages
        BY <3>1, <3>2, <3>3, <3>4, <3>6
      <3>8. ASSUME NEW i \in 1 .. m + 1, NEW j \in 1 .. m + 1, i < j
            PROVE  b[i][4] < b[j][4]
        <4>1. i \in 1 .. m
          BY <3>3, <3>8
        <4>2. CASE j \in 1 .. m
          BY <3>3, <3>4, <3>8, <4>1, <4>2
        <4>3. CASE j \notin 1 .. m
          <5>1. b[j][4] = Number(w)
            BY <3>2, <3>6, <4>3
          <5> QED BY <3>3, <3>4, <4>1, <5>1
        <4> QED BY <4>2, <4>3
      <3>9. ASSUME NEW i \in 1 .. m + 1, NEW j \in 1 .. len, IsRequest(r[j])
            PROVE  b[i][4] < Number(r[j])
        <4>1. CASE i \in 1 .. m
          BY <3>3, <3>4, <3>9, <4>1
        <4>2. CASE i \notin 1 .. m
          BY <3>2, <3>5, <3>6, <3>9, <4>2
        <4> QED BY <4>1, <4>2
      <3> QED BY <3>3, <3>7, <3>8, <3>9 DEF b
    <2> QED BY <2>1, <2>2
  <1>11. RequestsAscend'
    BY <1>1, <1>4, <1>5, <1>9, <1>10 DEF RequestsAscend, r
  <1>12. LongKept'
    <2>1. CASE \E i \in 1 .. len + 1 : /\ IsLong(q[i]) /\ LongOf(q[i]) = lastLong
                                       /\ \A j \in 1 .. len + 1 : j > i => ~ IsLong(q[j])
      <3>1. PICK i \in 1 .. len + 1 : /\ IsLong(q[i]) /\ LongOf(q[i]) = lastLong
                                      /\ \A j \in 1 .. len + 1 : j > i => ~ IsLong(q[j])
        BY <2>1
      <3>2. CASE i = 1
        <4>1. \A j \in 1 .. len : ~ IsLong(r[j])
          BY <1>7, <3>1, <3>2
        <4>2. rxBuf' = lastLong'
          BY <1>1, <1>6, <3>1, <3>2
        <4> QED BY <1>4, <4>1, <4>2 DEF LongKept, r
      <3>3. CASE i # 1
        <4>1. PICK k \in 1 .. len : k + 1 = i
          <5>1. i - 1 \in 1 .. len /\ (i - 1) + 1 = i
            BY <3>3
          <5> QED BY <5>1
        <4>2. IsLong(r[k]) /\ LongOf(r[k]) = lastLong'
          BY <1>1, <1>7, <3>1, <4>1
        <4>3. ASSUME NEW j \in 1 .. len, j > k
              PROVE  ~ IsLong(r[j])
          <5>1. j + 1 > i /\ j + 1 \in 1 .. len + 1
            BY <4>1, <4>3
          <5> QED BY <1>7, <3>1, <5>1
        <4> QED BY <1>4, <4>2, <4>3 DEF LongKept, r
      <3> QED BY <3>2, <3>3
    <2>2. CASE (\A i \in 1 .. len + 1 : ~ IsLong(q[i])) /\ rxBuf = lastLong
      <3>1. \A i \in 1 .. len : ~ IsLong(r[i])
        BY <1>7, <2>2
      <3>2. rxBuf' = lastLong'
        BY <1>1, <1>6, <1>8, <2>2
      <3> QED BY <1>4, <3>1, <3>2 DEF LongKept, r
    <2>3. \/ \E i \in 1 .. len + 1 : /\ IsLong(q[i]) /\ LongOf(q[i]) = lastLong
                                     /\ \A j \in 1 .. len + 1 : j > i => ~ IsLong(q[j])
          \/ (\A i \in 1 .. len + 1 : ~ IsLong(q[i])) /\ rxBuf = lastLong
      <3>1. Len(rxQueue) = len + 1
        BY <1>3 DEF q
      <3> QED BY <1>6, <3>1 DEF LongKept, q
    <2> QED BY <2>1, <2>2, <2>3
  <1> QED BY <1>11, <1>12

LEMMA CanRxKeeps == EcuInductive /\ CanRx => EcuInductive'
  <1> SUFFICES ASSUME EcuInductive, CanRx
               PROVE  EcuInductive'
    OBVIOUS
  <1>1. UNCHANGED <<input, moves, shPc, shifter_gear, data, clock, off, quiet, seen, bus, faults, mainPc,
                    net, halted, snPc, err_cnt, tmp, shared, mutex, infoPc>>
    BY DEF CanRx, RxOnly, shifterVars, busVars, mainVars, sensorVars
  <1>2. EcuTypeOK' /\ Sampled' /\ MutexOwned'
    BY <1>1 DEF EcuInductive, EcuTypeOK, Sampled, MutexOwned
  <1> QED BY <1>2, CanRxTakes DEF EcuInductive

LEMMA EcuImplies == EcuInductive => EcuInv
  <1> SUFFICES ASSUME EcuInductive
               PROVE  EcuInv
    OBVIOUS
  <1>1. InfoConsistent
    BY DEF EcuInductive, MutexOwned, InfoConsistent
  <1>2. LongArrives
    <2>1. rxQueue = << >> => Len(rxQueue) = 0
      OBVIOUS
    <2> QED BY <2>1 DEF EcuInductive, LongKept, LongArrives
  <1>3. AcksFollowRequests
    <2>1. acks \in Seq(Seq(Nat)) /\ Len(acks) \in Nat
      BY LenProperties DEF EcuInductive, RequestsAscend
    <2>2. /\ \A i \in 1 .. Len(acks) : Len(acks[i]) = 4
          /\ \A i, j \in 1 .. Len(acks) : i < j => acks[i][4] < acks[j][4]
      BY DEF EcuInductive, RequestsAscend
    <2>3. \A i \in 1 .. Len(acks) : \A j \in 1 .. i - 1 : j \in 1 .. Len(acks) /\ j < i
      BY <2>1
    <2> QED BY <2>2, <2>3 DEF AcksFollowRequests
  <1> QED BY <1>1, <1>2, <1>3 DEF EcuInductive, EcuInv

(* Whatever the order of the tasks, the faults of the bus and what the      *)
(* peers send: types and ranges, a consistent set of readings for the info  *)
(* task, long messages whole, and answers in the order of the requests      *)
(* (srcFreeRTOS/main_besspin.c:290-610).                                    *)
THEOREM EcuCorrect == EcuSpec => []EcuInv
  <1>1. EcuInductive /\ [EcuNext]_ecuVars => EcuInductive'
    <2> SUFFICES ASSUME EcuInductive, [EcuNext]_ecuVars
                 PROVE  EcuInductive'
      OBVIOUS
    <2>1. CASE UNCHANGED ecuVars
      <3>1. /\ UNCHANGED <<input, moves, shPc, shifter_gear, data, clock, off, quiet, seen, bus, faults,
                           mainPc, net, halted, snPc, err_cnt, tmp, shared, mutex, infoPc>>
            /\ UNCHANGED rxVars
        BY <2>1 DEF ecuVars, shifterVars, busVars, mainVars, sensorVars
      <3>2. EcuTypeOK' /\ Sampled' /\ MutexOwned'
        BY <3>1 DEF EcuInductive, EcuTypeOK, Sampled, MutexOwned
      <3> QED BY <3>1, <3>2, RxStands DEF EcuInductive
    <2> QED BY <2>1, EnvironmentKeeps, PeerKeeps, ShifterKeeps, MainKeeps, SensorKeeps, InfoKeeps,
               CanRxKeeps DEF EcuNext
  <1> QED BY <1>1, EcuStarts, EcuImplies, PTL DEF EcuSpec
=============================================================================
