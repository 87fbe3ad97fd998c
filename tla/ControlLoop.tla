---------------------------- MODULE ControlLoop ----------------------------
(***************************************************************************)
(* What the control thread computes (start_thread_func in app/src/main.c,  *)
(* get_rad_from_encoder and homing_sequence in hw_interface.c): from a     *)
(* center of mass and an encoder count to a set point, through the         *)
(* controllers of PositionControllers, to a PWM value, with the shaft that *)
(* the motor turns.  JiwyApp has the threads, the flag and the transfers.  *)
(*                                                                         *)
(* The two axes share nothing but the test that a center of mass is valid, *)
(* so one of them is followed, either one.  Angles are in mrad, which is   *)
(* one pixel; a shaft position is in encoder counts.                       *)
(***************************************************************************)
EXTENDS PositionControllers, FiniteSets

CONSTANTS Travel,      \* the shaft turns from 0 to Travel counts
          EncMax,      \* ENCODER_MAX of Encoder.v (64000)
          Coms,        \* COM coordinates, from the center: of a valid COM
          MaxRounds,   \* bound: rounds of the loop
          MaxEntries   \* MAX_ENTRIES of profiling.h (10000)

ASSUME TravelAssumption ==
    /\ Travel \in Nat /\ EncMax \in Nat /\ 2 * Travel < EncMax
    /\ EncMax <= 2 ^ 16
ASSUME LoopBoundsAssumption ==
    Coms \subseteq Int /\ MaxRounds \in Nat /\ MaxEntries \in Nat \ {0}

VARIABLES
    axis,       \* the axis that is followed
    polarity,   \* 1 or -1: how the encoder is wired
    origin,     \* where the shaft was when the FPGA was reset
    shaft,      \* where the shaft is
    corr,       \* pitch_inputs[0], which nothing sets
    settings,   \* encoder settings: begin, end, current
    pc,         \* "ready", "homed" or "loop"
    set_point, position,
    R,          \* the rates of the controller
    pwm,        \* pitch_pwm or yaw_pwm, and the register it is written to
    rounds,     \* rounds made
    profile,    \* start_count and start_written
    measured,   \* history: where homing turned round, and the shaft last read
    held        \* history: the position when a COM was last accepted, or None

vars == <<axis, polarity, origin, shaft, corr, settings, pc, set_point,
          position, R, pwm, rounds, profile, measured, held>>
wiring == <<axis, polarity, origin, corr>>

None == NaN
PWM_MID_POINT == 2048

\* The constants of config.mk for each axis.
Config == [pitch |-> [min |-> 262, max |-> 2356, half |-> 240, scale |-> 512],
           yaw |-> [min |-> 0, max |-> 3142, half |-> 320, scale |-> 2048]]
C == Config[axis]

-----------------------------------------------------------------------------
(* The conversions.                                                        *)

\* The encoder counts from the middle of its range, modulo ENCODER_MAX.
Count(x) == (EncMax \div 2 + polarity * (x - origin)) % EncMax

\* Mutant of get_rad_from_encoder: the differences are taken in 16 bits.
get_rad_unsigned(e) ==
    IF e.begin = e.end THEN C.min
    ELSE C.min + (((e.current - e.begin) % 2 ^ 16) * (C.max - C.min))
                 \div ((e.end - e.begin) % 2 ^ 16)

\* The differences are ints, either sign.
get_rad_from_encoder(e) ==
    LET sign == IF e.end > e.begin THEN 1 ELSE -1
    IN IF e.begin = e.end THEN C.min
       ELSE C.min + (sign * (e.current - e.begin) * (C.max - C.min))
                    \div (sign * (e.end - e.begin))

get_pwm_value(dir, requested) == (PWM_MID_POINT + requested * dir) % 2 ^ 16

\* Conversion of the output to 16 bits, and of NaN to 0 (what the ARM makes of
\* it); the scale has the sign of the output.
requested_pwm(out) ==
    IF out = NaN THEN 0
    ELSE (((IF out <= 0 THEN -out ELSE out) * C.scale) \div 1000) % 2 ^ 16
dir(out) == IF out = NaN THEN 1 ELSE IF out <= 0 THEN -1 ELSE 1

-----------------------------------------------------------------------------
(* The controller of the axis: its rates, and the outputs it may give.     *)

Initialized ==
    IF axis = "pitch" THEN PITCH_XXInitializeSubmodel(<<corr, position', position'>>).R
                      ELSE YAW_XXInitializeSubmodel(<<position', position'>>).R

\* The call that computes the rates, and the outputs out of its vector y: out
\* is y[0] of pitch and y[1] of yaw.
Calculated(sp) ==
    IF axis = "pitch"
    THEN LET V == PITCH_XXCalculateSubmodel([R |-> R], <<corr, sp, position>>)
         IN [R |-> V.R, outs |-> {y[1] : y \in PITCH_XXCopyVariablesToOutputs(V)}]
    ELSE LET V == YAW_XXCalculateSubmodel([R |-> R], <<sp, position>>)
         IN [R |-> V.R, outs |-> {y[2] : y \in YAW_XXCopyVariablesToOutputs(V)}]

-----------------------------------------------------------------------------
(* The operations.                                                         *)

\* The encoder is read and converted, wherever the shaft is by now.
ReadPosition ==
    /\ settings' = [settings EXCEPT !.current = Count(shaft)]
    /\ position' = get_rad_from_encoder(settings')
    /\ measured' = [measured EXCEPT !.read = shaft]

\* homing_sequence: the motor turns one way and then the other for a fixed
\* time, so that the ends it measures need not be the ends of the travel.  An
\* invalid command runs it again.
homing_sequence ==
    /\ pc \in {"ready", "homed"}
    /\ \E lo \in 0 .. shaft, hi \in 0 .. Travel :
         /\ lo <= hi
         /\ settings' = [settings EXCEPT !.begin = Count(lo), !.end = Count(hi)]
         /\ measured' = [measured EXCEPT !.lo = lo, !.hi = hi]
         /\ shaft' = hi
    /\ pc' = "homed"
    /\ UNCHANGED <<wiring, set_point, position, R, pwm, rounds, profile, held>>

\* The thread is started: a first transfer, and the submodels from the position.
Start ==
    /\ pc = "homed"
    /\ ReadPosition
    /\ R' = Initialized
    /\ pc' = "loop"
    /\ UNCHANGED <<wiring, shaft, set_point, pwm, rounds, profile, held>>

\* Mutant of Clip: one of the limits is forgotten.
ClipMaxOnly(sp) == IF sp > C.max THEN position ELSE sp

\* Beyond the limits of the motor the position is held.
Clip(sp) == IF sp > C.max THEN position ELSE IF sp < C.min THEN position ELSE sp

\* A COM was dequeued, and it is not the (-1, -1) of a frame without object.
Accepted(com) == com # None /\ com > 0

\* The set point that a COM leads to, None if the queue was empty.
SetPoint(com) ==
    IF ~Accepted(com) THEN set_point
    ELSE LET pixel_err == C.half - com
         IN Clip(IF pixel_err <= -50 \/ pixel_err >= 50
                 THEN position + pixel_err ELSE set_point)

\* Mutant of store_time: the array is written one past its end.
store_time_past_end ==
    IF profile.start_count <= MaxEntries
    THEN profile' = [start_count |-> profile.start_count + 1,
                     start_written |-> profile.start_count + 1 = MaxEntries]
    ELSE UNCHANGED profile

\* A record of the round, and the file when the array is full.
store_time ==
    IF profile.start_count < MaxEntries
    THEN profile' = [start_count |-> profile.start_count + 1,
                     start_written |-> profile.start_count + 1 = MaxEntries]
    ELSE UNCHANGED profile

\* The coordinates that a valid COM of this axis may have.
Coordinates == {C.half + d : d \in Coms}

\* One round: take a COM, compute, write the PWM value and read the position.
Round(com) ==
    /\ pc = "loop" /\ rounds < MaxRounds
    /\ set_point' = SetPoint(com)
    /\ held' = IF Accepted(com) THEN position ELSE held
    /\ LET V == Calculated(set_point')
       IN /\ R' = V.R
          /\ \E out \in V.outs : pwm' = get_pwm_value(dir(out), requested_pwm(out))
    /\ ReadPosition
    /\ store_time
    /\ rounds' = rounds + 1
    /\ UNCHANGED <<wiring, shaft, pc>>

\* The motor turns the shaft, up to a stop.
Move ==
    /\ \/ pwm > PWM_MID_POINT /\ shaft < Travel /\ shaft' = shaft + 1
       \/ pwm < PWM_MID_POINT /\ shaft > 0 /\ shaft' = shaft - 1
    /\ UNCHANGED <<wiring, settings, pc, set_point, position, R, pwm, rounds,
                   profile, measured, held>>

-----------------------------------------------------------------------------
Init ==
    /\ axis \in {"pitch", "yaw"}
    /\ polarity \in {1, -1}
    /\ shaft \in 0 .. Travel /\ origin = shaft
    /\ corr \in {7, NaN}
    /\ settings = [begin |-> 0, end |-> 0, current |-> EncMax \div 2]
    /\ pc = "ready"
    /\ set_point = 0 /\ position = 0
    /\ R = [uD |-> 0, error |-> 0, uI |-> 0]
    /\ pwm = PWM_MID_POINT
    /\ rounds = 0
    /\ profile = [start_count |-> 0, start_written |-> FALSE]
    /\ measured = [lo |-> 0, hi |-> 0, read |-> 0]
    /\ held = None

Next ==
    \/ homing_sequence \/ Start \/ Move
    \/ \E com \in Coordinates \cup {-1, None} : Round(com)

Spec == Init /\ [][Next]_vars

-----------------------------------------------------------------------------
(* Properties.                                                             *)

\* The variables have their types.  The record of a round goes inside the array
\* (store_time), and the file is written when the array is full.
ControlTypeOK ==
    /\ shaft \in 0 .. Travel
    /\ settings \in [begin : 0 .. EncMax - 1, end : 0 .. EncMax - 1,
                     current : 0 .. EncMax - 1]
    /\ pc \in {"ready", "homed", "loop"}
    /\ set_point \in Int /\ position \in Int
    /\ R \in [uD : Int, error : Int, uI : Int]
    /\ profile.start_count \in 0 .. MaxEntries
    /\ profile.start_written <=> profile.start_count = MaxEntries

\* No output of a controller, whatever the error jumps to and even when it is
\* not a number, makes a PWM value that wraps round or that lies outside the
\* range of the PWM generators, where it would turn the motor the other way.
PwmInRange == pwm \in 0 .. 2 * PWM_MID_POINT

\* "clip for safty. No Motion beyond motor limits" (main.c:174): once a COM has
\* been accepted, the set point is within the limits of the motor or it is the
\* position at which that COM found the motor.
SetPointSafe ==
    held # None => set_point \in C.min .. C.max \/ set_point = held

\* The angle is that of the shaft between the ends that homing measured, the
\* same for either wiring of the encoder and wherever the count was reset; with
\* no distance between the ends it is the lower limit.
PositionFollowsShaft ==
    LET m == measured
    IN pc = "loop" =>
         position = IF m.lo = m.hi THEN C.min
                    ELSE C.min + ((m.read - m.lo) * (C.max - C.min)) \div (m.hi - m.lo)

\* The inductive invariant behind these four.  WiringInv: what homing and the
\* last read measured are places the shaft can be at, its lower end first.
\* CountsInv: the encoder settings are the counts at those places.
WiringInv ==
    /\ axis \in {"pitch", "yaw"} /\ polarity \in {1, -1}
    /\ origin \in 0 .. Travel /\ corr \in {7, NaN}
    /\ measured \in [lo : 0 .. Travel, hi : 0 .. Travel, read : 0 .. Travel]
    /\ measured.lo <= measured.hi

CountsInv ==
    /\ pc # "ready" => /\ settings.begin = Count(measured.lo)
                       /\ settings.end = Count(measured.hi)
    /\ pc = "loop" => /\ settings.current = Count(measured.read)
                      /\ position = get_rad_from_encoder(settings)

LoopInv == ControlTypeOK /\ WiringInv /\ CountsInv /\ PwmInRange /\ SetPointSafe
=============================================================================
