------------------------------ MODULE IcoBoard ------------------------------
(***************************************************************************)
(* The ICO board from its SPI lines to the pins of one motor (TopEntity.v):*)
(* the slave of SpiSlave and, behind its pitch_pwm register, a PWM         *)
(* generator (pwm_module.v).  All registers take their values at the same  *)
(* edges, so that a command moves through the generator a register per     *)
(* edge.  The yaw half of the word goes to a second generator like it.     *)
(***************************************************************************)
EXTENDS SpiSlave, FiniteSets

CONSTANT MAX_COUNT  \* the value of the largest duty (4096)

MIDPOINT == MAX_COUNT \div 2

\* The PWM value in the first half of a word.
Pitch(w) ==
    LET value[n \in 0 .. WordBits \div 2] ==
            IF n = 0 THEN 0 ELSE 2 * value[n - 1] + w[n]
    IN value[WordBits \div 2]

ASSUME PwmAssumption ==
    /\ WordBits % 2 = 0 /\ MAX_COUNT \in Nat \ {0} /\ MAX_COUNT % 2 = 0
    /\ Pitch(MidWord) = MIDPOINT

VARIABLES
    counter, local_duty, counter_set_point, pwm_out,
    dir,    \* <<dir_a, dir_b>>
    outs,   \* history: pwm_out at the last MIDPOINT edges, newest first
    stable  \* history: edges since pitch_pwm changed, up to MIDPOINT + 2

pwmVars == <<counter, local_duty, counter_set_point, pwm_out, dir, outs,
             stable>>
icoVars == <<vars, pwmVars>>

-----------------------------------------------------------------------------
(* The PWM generator.                                                      *)

\* Mutant of SetPoint: the difference is taken the same way on either side.
SetPointOneWay == (local_duty - MIDPOINT) % 2 ^ 16

\* The distance from the middle.
SetPoint == IF local_duty < MIDPOINT THEN MIDPOINT - local_duty
                                     ELSE local_duty - MIDPOINT

\* Mutant of Direction: the middle counts as forward.
DirectionAtMid == <<IF local_duty >= MIDPOINT THEN 1 ELSE 0,
                    IF local_duty < MIDPOINT THEN 1 ELSE 0>>

Direction == <<IF local_duty > MIDPOINT THEN 1 ELSE 0,
               IF local_duty < MIDPOINT THEN 1 ELSE 0>>

PwmTick ==
    LET duty_cycle == Pitch(pwm)
    IN /\ counter' = IF counter >= MIDPOINT - 1 THEN 0 ELSE counter + 1
       /\ local_duty' = IF duty_cycle > MAX_COUNT THEN MAX_COUNT ELSE duty_cycle
       /\ counter_set_point' = SetPoint
       /\ pwm_out' = IF counter < counter_set_point THEN 1 ELSE 0
       /\ dir' = Direction
       /\ outs' = [i \in 1 .. MIDPOINT |->
                     IF i = 1 THEN pwm_out' ELSE outs[i - 1]]
       /\ stable' = IF Pitch(pwm') # duty_cycle THEN 0
                    ELSE IF stable < MIDPOINT + 2 THEN stable + 1 ELSE stable

\* The set point is reset to the middle, a full duty, with the direction off.
PwmReset ==
    /\ counter' = 0
    /\ local_duty' = MIDPOINT
    /\ counter_set_point' = MIDPOINT
    /\ pwm_out' = 0
    /\ dir' = <<0, 0>>
    /\ outs' = [i \in 1 .. MIDPOINT |-> 0]
    /\ stable' = 0

PwmInit ==
    /\ counter = 0 /\ local_duty = MIDPOINT /\ counter_set_point = 0
    /\ pwm_out = 0 /\ dir = <<0, 0>>
    /\ outs = [i \in 1 .. MIDPOINT |-> 0]
    /\ stable = 0

-----------------------------------------------------------------------------
BoardTick == Tick /\ PwmTick
BoardReset == Reset /\ PwmReset

IcoInit == Init /\ PwmInit

IcoNext ==
    \/ BoardTick
    \/ BoardReset
    \/ Master /\ UNCHANGED pwmVars

\* The clock runs.  Nothing is assumed of the master.
IcoSpec == IcoInit /\ [][IcoNext]_icoVars /\ WF_icoVars(BoardTick)

-----------------------------------------------------------------------------
(* Properties.                                                             *)

\* The motor is switched to a direction only if one of the last two words sent
\* in full asks for it: on the way from one to the other, after a transfer
\* given up and after a reset it is never turned another way.
DriveCommanded ==
    LET duties == {Pitch(last), Pitch(before)}
    IN /\ dir # <<1, 1>>
       /\ dir[1] = 1 => \E d \in duties : d > MIDPOINT
       /\ dir[2] = 1 => \E d \in duties : d < MIDPOINT

\* The inductive invariant behind it.  What the slave has taken in is in the
\* duty two ticks after the clock's last fall and drives the motor one tick
\* later, before the master may end the transfer.
Duty(w) == IF Pitch(w) > MAX_COUNT THEN MAX_COUNT ELSE Pitch(w)

Side(duty) == <<IF duty > MIDPOINT THEN 1 ELSE 0,
                IF duty < MIDPOINT THEN 1 ELSE 0>>

Settled(ticks) ==
    SPI_CS = 1 \/ Len(rx) < WordBits \/ (SPI_CLK = 0 /\ since >= ticks)

DriveInv ==
    /\ \E w \in {last, before} : local_duty = Duty(w)
    /\ \E w \in {last, before} : dir = Side(Duty(w))
    /\ Settled(2) => local_duty = Duty(last)
    /\ Settled(3) => dir = Side(Duty(last))

\* A command that stays for a period and the three registers it goes through
\* has the pin high for just its distance from the middle in every MIDPOINT
\* edges, wherever in the period the count is, in its own direction; a command
\* above MAX_COUNT has it high all the time.
DutyExact ==
    LET duty == Duty(pwm)
        highs == Cardinality({i \in 1 .. MIDPOINT : outs[i] = 1})
    IN stable = MIDPOINT + 2 =>
         /\ highs = IF duty > MIDPOINT THEN duty - MIDPOINT ELSE MIDPOINT - duty
         /\ dir[1] = 1 <=> duty > MIDPOINT
         /\ dir[2] = 1 <=> duty < MIDPOINT

\* The inductive invariant behind it: how far a command that stays has come.
\* The pin of i edges ago was set by the count of that time, CountAgo(i).
Distance(duty) == IF duty < MIDPOINT THEN MIDPOINT - duty ELSE duty - MIDPOINT

CountAgo(i) == IF counter >= i THEN counter - i ELSE counter - i + MIDPOINT

PinInv ==
    /\ counter \in 0 .. MIDPOINT - 1 /\ stable \in 0 .. MIDPOINT + 2
    /\ stable >= 1 => local_duty = Duty(pwm)
    /\ stable >= 2 => /\ counter_set_point = Distance(Duty(pwm))
                      /\ dir = Side(Duty(pwm))
    /\ \A i \in 1 .. MIDPOINT :
          i + 2 <= stable =>
             outs[i] = IF CountAgo(i) < Distance(Duty(pwm)) THEN 1 ELSE 0
=============================================================================
