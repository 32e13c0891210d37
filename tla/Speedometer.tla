----------------------------- MODULE Speedometer -----------------------------
(***************************************************************************)
(* The sketch that turns the needle of the speedometer with a stepper      *)
(* motor (besspin/cyberPhys/arduino/speedometer/speedometer.ino).  It is   *)
(* sent lines over a serial port: a speed, "r" to find zero again at the   *)
(* stop of the gauge, "x" to call the present position zero.  It knows     *)
(* stepper_position only by counting; where the needle is is not measured. *)
(*                                                                         *)
(* Lines that arrive while the motor turns are read together: toFloat sees *)
(* the number the text begins with, equals the whole text.  The sketch is  *)
(* otherwise done with a line before the next can arrive at 38400 baud.    *)
(***************************************************************************)
EXTENDS Integers, Sequences

CONSTANTS Speeds,         \* speeds the sketch is sent, in mph
          Travel,         \* steps from the stop to the end of the gauge
          MaxX            \* "x" commands sent

steps_at_max_mph == 970

(* Speeds are sent without fraction and fit the char current_speed_mph; the *)
(* gauge is longer than its scale and short enough that the reset, which    *)
(* relies on it, reaches the stop from everywhere.                          *)
ASSUME SpeedsAssumption == Speeds \subseteq 0 .. 127
ASSUME TravelAssumption == Travel \in (steps_at_max_mph + 90) .. 1420

VARIABLES stepper_position,   \* where the sketch believes the needle to be
          needle,             \* where it is, in steps from 0 mph
          inputString,        \* the text received and not looked at
          current_speed_mph,
          turning,            \* the motor turns
          steady,             \* the speed that is sent from now on, if any: {v} or {}
          xs                  \* "x" commands sent

speedVars == <<stepper_position, needle, inputString, current_speed_mph, turning, steady, xs>>

Stop == -90
Bound(n) == IF n < Stop THEN Stop ELSE IF n > Travel - 90 THEN Travel - 90 ELSE n

(* rotate: the needle stays where the gauge ends, the count goes on.        *)
rotate(steps) ==
    /\ stepper_position' = stepper_position + steps
    /\ needle' = Bound(needle + steps)

\* A changed form of the next definition: the top of the scale is not a limit.
StepsUnlimited(mph) == (mph * 97) \div 10
speed_to_steps(mph) == IF mph >= 100 THEN steps_at_max_mph ELSE (mph * 97) \div 10

get_current_to_target_error(target) == target - stepper_position

(* error * kP as an int: a quarter, without its fraction                    *)
\* A changed form of the next definition: an eighth.
EighthOf(e) == IF e >= 0 THEN e \div 8 ELSE -((-e) \div 8)
QuarterOf(e) == IF e >= 0 THEN e \div 4 ELSE -((-e) \div 4)

(* 1400 and 20 steps down, 90 up, and the count begins at zero.             *)
\* A changed form of the next definition: the needle starts from the stop.
ResetAtStop ==
    /\ needle' = Bound(Bound(needle - 1400) - 20)
    /\ stepper_position' = 0
reset_speedometer_to_zero ==
    /\ needle' = Bound(Bound(needle - 1400) - 20) + 90
    /\ stepper_position' = 0

zero_stepper_position == stepper_position' = 0 /\ UNCHANGED needle

(***************************************************************************)
(* The lines, and the loop.                                                *)
(***************************************************************************)
(* A line is a speed, or one of two commands.                               *)
R == -1
X == -2
Lines == Speeds \union {R, X}
IsSpeed(l) == l \notin {R, X}
(* The text is known by the line it begins with and whether there is more.  *)
NoText == [first |-> 0, lines |-> 0]
Appended(l) == IF inputString = NoText THEN [first |-> l, lines |-> 1]
               ELSE [inputString EXCEPT !.lines = 2]
toFloat == IF IsSpeed(inputString.first) THEN inputString.first ELSE 0
Equals(l) == inputString = [first |-> l, lines |-> 1]

Receive(l) ==
    /\ turning \/ inputString = NoText
    /\ steady # {} => l \in steady
    /\ l = X => xs < MaxX
    /\ xs' = IF l = X THEN xs + 1 ELSE xs
    /\ inputString' = Appended(l)
    /\ UNCHANGED <<stepper_position, needle, current_speed_mph, turning, steady>>

\* A changed form of the next definition: the needle is left where it is.
StayNear(mph) == UNCHANGED <<stepper_position, needle>>
(* Below 0.1 mph the needle goes back the whole way: a quarter of the error *)
(* at a time it would not get there.                                        *)
MoveTo(mph) ==
    IF mph = 0
    THEN rotate(IF stepper_position > 0 THEN -stepper_position ELSE 0)
    ELSE rotate(QuarterOf(get_current_to_target_error(speed_to_steps(mph))))

(* One text, taken at the beginning of a round of the loop.                 *)
HandleLine ==
    /\ ~turning /\ inputString # NoText
    /\ current_speed_mph' = toFloat
    /\ IF IsSpeed(inputString.first) /\ (toFloat > 0 \/ Equals(0))
       THEN MoveTo(toFloat)
       ELSE IF Equals(R) THEN reset_speedometer_to_zero
       ELSE IF Equals(X) THEN zero_stepper_position
       ELSE UNCHANGED <<stepper_position, needle>>
    /\ inputString' = NoText
    /\ turning' = (stepper_position' # stepper_position \/ needle' # needle)
    /\ UNCHANGED <<steady, xs>>

MotorStops ==
    /\ turning /\ turning' = FALSE
    /\ UNCHANGED <<stepper_position, needle, inputString, current_speed_mph, steady, xs>>

(* The left button, looked at when the last speed was below 1 mph.          *)
LeftButton ==
    /\ ~turning /\ current_speed_mph < 1
    /\ steady = {}
    /\ reset_speedometer_to_zero /\ turning' = TRUE
    /\ UNCHANGED <<inputString, current_speed_mph, steady, xs>>

(* The car keeps one speed from here on, and nobody touches the button.     *)
HoldSpeed(v) ==
    /\ steady = {} /\ steady' = {v}
    /\ UNCHANGED <<stepper_position, needle, inputString, current_speed_mph, turning, xs>>

SpeedometerInit ==
    /\ stepper_position = 0 /\ needle = 0
    /\ inputString = NoText /\ current_speed_mph = 0 /\ turning = FALSE
    /\ steady = {} /\ xs = 0

SpeedometerNext ==
    \/ HandleLine \/ MotorStops \/ LeftButton
    \/ \E l \in Lines : Receive(l)
    \/ \E v \in Speeds : HoldSpeed(v)

SpeedometerSpec == SpeedometerInit /\ [][SpeedometerNext]_speedVars
SpeedometerFairness ==
    /\ WF_speedVars(HandleLine \/ MotorStops)
    /\ WF_speedVars(steady # {} /\ ~turning /\ \E l \in Lines : Receive(l))

(***************************************************************************)
(* Properties.                                                             *)
(***************************************************************************)
(* Every variable keeps its type; the count never leaves the scale, in      *)
(* whatever order speeds, resets and zeroings come and are read together.   *)
SpeedometerTypeOK ==
    /\ stepper_position \in 0 .. steps_at_max_mph
    /\ needle \in Stop .. (Travel - 90)
    /\ current_speed_mph \in 0 .. 127
    /\ turning \in BOOLEAN
    /\ xs \in Nat

(* As long as nobody has called another position zero, the needle is where  *)
(* the sketch believes it to be: the steps against the stop that a reset    *)
(* makes are made good, from every position it can begin at.                *)
NeedleWhereBelieved == xs = 0 => needle = stepper_position

(* The count of the steps is well typed and stands for the needle.          *)
SpeedometerInv ==
    /\ SpeedometerTypeOK
    /\ NeedleWhereBelieved

(* A speed that is sent again and again is shown to within three steps, a   *)
(* third of a mile per hour, and zero exactly, whatever was sent before     *)
(* and however the lines are read together.                                 *)
Settled(v) ==
    LET off == stepper_position - speed_to_steps(v)
    IN  off \in (IF v = 0 THEN {0} ELSE -3 .. 3)
NeedleSettles == \A v \in Speeds : (steady = {v}) ~> [](Settled(v))
=============================================================================
