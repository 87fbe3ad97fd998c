------------------------ MODULE PositionControllers ------------------------
(***************************************************************************)
(* The two position controllers that 20-sim generated, one per axis        *)
(* (pitch_model/src, yaw_model/src): a PID behind a limiter.  They are     *)
(* pure operators here; the arrays the generated code keeps between calls  *)
(* are the record that a call takes and returns: s, the states, and R, the *)
(* rates, which are the states of the next step.                           *)
(*                                                                         *)
(* Signals are integers in thousandths, rounded down in each division.     *)
(* Parameters are scaled to integers: kp and tauI by 10, tauD and the step *)
(* size h by 100, beta by 1000.  The model time, the step counter and the  *)
(* flags of the simulator, which nothing reads, are left out.              *)
(***************************************************************************)
EXTENDS Integers, Sequences

CONSTANT NaN   \* not a number, as a signal

PITCH_XXModelInitialize_parameters ==
    [K |-> 0, kp |-> 16, tauD |-> 5, beta |-> 1, tauI |-> 105,
     minimum |-> -990, maximum |-> 990]
YAW_XXModelInitialize_parameters ==
    [K |-> 0, kp |-> 26, tauD |-> 5, beta |-> 170, tauI |-> 90,
     minimum |-> -990, maximum |-> 990]

pitch_xx_step_size == 1
yaw_xx_step_size == 1

PITCH_XXModelInitialize_states == [uD |-> 0, error |-> 0, uI |-> 0]
YAW_XXModelInitialize_states == [uD |-> 0, error |-> 0, uI |-> 0]

-----------------------------------------------------------------------------
(* The equations that both models share.                                   *)

\* The rates for the error e, from the states s.
Pid(P, h, s, e) ==
    LET uD == (P.tauD * P.beta * s.uD
               + 100 * P.kp * (P.tauD * (e - s.error) + h * e))
              \div (1000 * h + P.tauD * P.beta)
    IN [uD |-> uD, error |-> e, uI |-> s.uI + (h * uD) \div (10 * P.tauI)]

\* Mutant of SignalLimiter: the output is not limited.
SignalUnlimited(P, v) == IF v = NaN THEN {NaN, P.minimum, P.maximum} ELSE {v}

\* The limiter.  The build compares under -Ofast, which allows any outcome of a
\* comparison with NaN.
SignalLimiter(P, v) ==
    IF v = NaN THEN {NaN, P.minimum, P.maximum}
    ELSE {IF v < P.minimum THEN P.minimum
          ELSE IF v > P.maximum THEN P.maximum ELSE v}

-----------------------------------------------------------------------------
(* Pitch: inputs corr, in, position; output out.  The correction has gain 0 *)
(* but is added, so that a NaN there goes through.                          *)

PITCH_XXCalculateDynamic(s, u) ==
    LET P == PITCH_XXModelInitialize_parameters
        R == Pid(P, pitch_xx_step_size, s, u[2] - u[3])
        sum == IF u[1] = NaN THEN NaN ELSE P.K * u[1] + R.uI + R.uD
    IN [s |-> s, R |-> R, limited |-> SignalLimiter(P, sum)]

\* The output vectors that a call may leave.
PITCH_XXCopyVariablesToOutputs(V) == {<<out>> : out \in V.limited}

PITCH_XXInitializeSubmodel(u) ==
    PITCH_XXCalculateDynamic(PITCH_XXModelInitialize_states, u)

PITCH_XXDiscreteStep(V, u) == PITCH_XXCalculateDynamic(V.R, u)

PITCH_XXCalculateSubmodel(V, u) == PITCH_XXDiscreteStep(V, u)

-----------------------------------------------------------------------------
(* Yaw: inputs in, position; outputs corr, out.                             *)

YAW_XXCalculateDynamic(s, u) ==
    LET P == YAW_XXModelInitialize_parameters
        R == Pid(P, yaw_xx_step_size, s, u[1] - u[2])
    IN [s |-> s, R |-> R, corr |-> P.K * u[2],
        limited |-> SignalLimiter(P, R.uI + R.uD)]

YAW_XXCopyVariablesToOutputs(V) == {<<V.corr, out>> : out \in V.limited}

YAW_XXInitializeSubmodel(u) ==
    YAW_XXCalculateDynamic(YAW_XXModelInitialize_states, u)

YAW_XXDiscreteStep(V, u) == YAW_XXCalculateDynamic(V.R, u)

YAW_XXCalculateSubmodel(V, u) == YAW_XXDiscreteStep(V, u)
=============================================================================
