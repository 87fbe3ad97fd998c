-------------------------- MODULE ControlLoopProofs --------------------------
(***************************************************************************)
(* Proofs about a round of the control thread: no PWM value wraps or leaves *)
(* the range of the generators, the set point is safe once a center of mass *)
(* was accepted, and the angle is that of the shaft.  For any travel of the *)
(* shaft below half of the encoder's range, any centers of mass, any number *)
(* of rounds and any value that stands for NaN.                             *)
(***************************************************************************)
EXTENDS ControlLoop, TLAPS

Rates == [uD : Int, error : Int, uI : Int]

-----------------------------------------------------------------------------
(* The conversions.                                                        *)

\* The constants of config.mk.
LEMMA ConfigType ==
    ASSUME axis \in {"pitch", "yaw"}
    PROVE  /\ C.min \in Nat /\ C.max \in Nat /\ C.min < C.max
           /\ C.half \in Nat /\ C.scale \in 0 .. 2048
<1>1. CASE axis = "pitch"
  BY <1>1 DEF C, Config
<1>2. CASE axis = "yaw"
  BY <1>2 DEF C, Config
<1>3. QED
  BY <1>1, <1>2

\* The travel fits into half of the encoder's range, so that a count does not
\* wrap between the ends of the travel.
LEMMA CountExact ==
    ASSUME WiringInv, NEW x \in 0 .. Travel
    PROVE  /\ Count(x) = EncMax \div 2 + polarity * (x - origin)
           /\ Count(x) \in 0 .. EncMax - 1
<1> DEFINE d == polarity * (x - origin)
           h == EncMax \div 2
<1>1. d \in -Travel .. Travel
  BY TravelAssumption DEF WiringInv
<1>2. h \in Nat /\ Travel <= h /\ h + Travel < EncMax /\ EncMax \in Nat
  BY TravelAssumption
<1>3. h + d \in 0 .. EncMax - 1
  BY <1>1, <1>2, TravelAssumption
<1>4. (h + d) % EncMax = h + d
  BY <1>2, <1>3
<1>5. QED
  BY <1>3, <1>4 DEF Count

\* The angle of three counts at places of the shaft, whichever way the encoder
\* is wired: the sign of the wiring cancels.
LEMMA AngleOfCounts ==
    ASSUME WiringInv,
           NEW e \in [begin : 0 .. EncMax - 1, end : 0 .. EncMax - 1,
                      current : 0 .. EncMax - 1],
           NEW lo \in 0 .. Travel, NEW hi \in 0 .. Travel, NEW x \in 0 .. Travel,
           lo <= hi,
           e.begin = Count(lo), e.end = Count(hi), e.current = Count(x)
    PROVE  get_rad_from_encoder(e)
             = IF lo = hi THEN C.min
               ELSE C.min + ((x - lo) * (C.max - C.min)) \div (hi - lo)
<1>1. /\ polarity \in {1, -1} /\ origin \in 0 .. Travel
      /\ Travel \in Nat /\ EncMax \div 2 \in Int
      /\ C.max - C.min \in Int
  BY ConfigType, TravelAssumption DEF WiringInv
<1>2. /\ e.begin = EncMax \div 2 + polarity * (lo - origin)
      /\ e.end = EncMax \div 2 + polarity * (hi - origin)
      /\ e.current = EncMax \div 2 + polarity * (x - origin)
  BY CountExact
<1>3. CASE lo = hi
  BY <1>2, <1>3 DEF get_rad_from_encoder
<1>4. CASE lo # hi
  <2> DEFINE sign == IF e.end > e.begin THEN 1 ELSE -1
  <2>1. e.begin # e.end /\ sign = polarity
    BY <1>1, <1>2, <1>4
  <2>2. /\ sign * (e.current - e.begin) = x - lo
        /\ sign * (e.end - e.begin) = hi - lo
    BY <1>1, <1>2, <2>1
  <2>3. get_rad_from_encoder(e)
          = C.min + (sign * (e.current - e.begin) * (C.max - C.min))
                    \div (sign * (e.end - e.begin))
    BY <2>1 DEF get_rad_from_encoder
  <2>4. QED
    BY <1>4, <2>2, <2>3
<1>5. QED
  BY <1>3, <1>4

\* An angle is an integer.
LEMMA AngleType ==
    ASSUME axis \in {"pitch", "yaw"},
           NEW e \in [begin : 0 .. EncMax - 1, end : 0 .. EncMax - 1,
                      current : 0 .. EncMax - 1]
    PROVE  get_rad_from_encoder(e) \in Int
<1> DEFINE sign == IF e.end > e.begin THEN 1 ELSE -1
           num == sign * (e.current - e.begin) * (C.max - C.min)
           den == sign * (e.end - e.begin)
<1>1. e.begin \in Int /\ e.end \in Int /\ e.current \in Int /\ EncMax \in Int
  BY TravelAssumption
<1>2. C.min \in Int /\ C.max - C.min \in Int
  BY ConfigType
<1>3. num \in Int
  BY <1>1, <1>2
<1>4. e.begin # e.end => den \in Nat \ {0}
  BY <1>1
<1> HIDE DEF num, den
<1>5. e.begin # e.end => num \div den \in Int
  BY <1>3, <1>4
<1>6. get_rad_from_encoder(e) = IF e.begin = e.end THEN C.min ELSE C.min + num \div den
  BY DEF get_rad_from_encoder, num, den
<1>7. QED
  BY <1>2, <1>5, <1>6

\* A limited output, scaled for either axis.
LEMMA ScaledRange ==
    \A a \in 0 .. 990 :
      /\ (a * 512) \div 1000 \in 0 .. 2027
      /\ (a * 2048) \div 1000 \in 0 .. 2027
  BY SMT

\* An output of the limiter makes a PWM value in the range, NaN makes the mid
\* point.
LEMMA PwmOfOutput ==
    ASSUME axis \in {"pitch", "yaw"}, NEW out, out = NaN \/ out \in -990 .. 990
    PROVE  get_pwm_value(dir(out), requested_pwm(out)) \in 0 .. 2 * PWM_MID_POINT
<1>1. 2 ^ 16 = 65536
  BY SMT
<1>2. C.scale \in 0 .. 2048
  BY ConfigType
<1>3. CASE out = NaN
  BY <1>1, <1>3, SMT DEF get_pwm_value, dir, requested_pwm, PWM_MID_POINT
<1>4. CASE out # NaN /\ out \in -990 .. 990
  <2>1. (IF out <= 0 THEN -out ELSE out) \in 0 .. 990
    BY <1>4
  <2> PICK a \in 0 .. 990 : a = IF out <= 0 THEN -out ELSE out
    BY <2>1
  <2>2. C.scale = 512 \/ C.scale = 2048
    BY DEF C, Config
  <2> DEFINE r == (a * C.scale) \div 1000
  <2>3. r \in 0 .. 2027
    <3> HIDE DEF r
    <3>1. /\ (a * 512) \div 1000 \in 0 .. 2027
          /\ (a * 2048) \div 1000 \in 0 .. 2027
      BY ONLY a \in 0 .. 990, SMT
    <3> USE DEF r
    <3>2. r = (a * 512) \div 1000 \/ r = (a * 2048) \div 1000
      BY <2>2
    <3> HIDE DEF r
    <3>3. QED
      BY <3>1, <3>2
  <2>4. requested_pwm(out) = r
    BY <1>1, <1>4, <2>3, SMT DEF requested_pwm
  <2>5. dir(out) \in {1, -1}
    BY DEF dir
  <2> HIDE DEF r
  <2> PICK d \in {1, -1} : d = dir(out)
    BY <2>5
  <2>6. r * d = r \/ r * d = -r
    BY ONLY <2>3, d \in {1, -1}
  <2>7. PWM_MID_POINT + r * d \in 0 .. 2 * PWM_MID_POINT
    BY ONLY <2>3, <2>6 DEF PWM_MID_POINT
  <2> PICK v : v = PWM_MID_POINT + r * d
    OBVIOUS
  <2>8. v \in 0 .. 2 * PWM_MID_POINT
    BY <2>7
  <2>9. v % 65536 = v
    BY ONLY <2>8 DEF PWM_MID_POINT
  <2>10. get_pwm_value(dir(out), requested_pwm(out)) = v % 65536
    BY <1>1, <2>4 DEF get_pwm_value
  <2>11. QED
    BY <2>8, <2>9, <2>10
<1>5. QED
  BY <1>3, <1>4

-----------------------------------------------------------------------------
(* The controllers.                                                        *)

\* The rates are integers, whatever the error.
LEMMA PidType ==
    ASSUME NEW s \in Rates, NEW e \in Int
    PROVE  /\ Pid(PITCH_XXModelInitialize_parameters, pitch_xx_step_size, s, e) \in Rates
           /\ Pid(YAW_XXModelInitialize_parameters, yaw_xx_step_size, s, e) \in Rates
<1>1. s.uD \in Int /\ s.error \in Int /\ s.uI \in Int
  BY DEF Rates
<1>2. ASSUME NEW P \in {PITCH_XXModelInitialize_parameters,
                        YAW_XXModelInitialize_parameters}
      PROVE  Pid(P, 1, s, e) \in Rates
  <2> DEFINE num == P.tauD * P.beta * s.uD
                    + 100 * P.kp * (P.tauD * (e - s.error) + 1 * e)
             den == 1000 * 1 + P.tauD * P.beta
             uD == num \div den
  <2>1. /\ P.tauD \in Nat /\ P.beta \in Nat /\ P.kp \in Nat
        /\ P.tauI \in Nat \ {0}
    BY DEF PITCH_XXModelInitialize_parameters, YAW_XXModelInitialize_parameters
  <2>2. num \in Int /\ den \in Nat \ {0}
    BY <1>1, <2>1, SMT
  <2> HIDE DEF num, den
  <2>3. uD \in Int
    BY <2>2
  <2> HIDE DEF uD
  <2>4. s.uI + (1 * uD) \div (10 * P.tauI) \in Int
    BY <1>1, <2>1, <2>3
  <2>5. Pid(P, 1, s, e) = [uD |-> uD, error |-> e,
                           uI |-> s.uI + (1 * uD) \div (10 * P.tauI)]
    BY DEF Pid, num, den, uD
  <2>6. QED
    BY <2>3, <2>4, <2>5 DEF Rates
<1>3. QED
  BY <1>2 DEF pitch_xx_step_size, yaw_xx_step_size

\* The limiter lets only its range through, and NaN.
LEMMA LimiterRange ==
    ASSUME NEW P \in {PITCH_XXModelInitialize_parameters,
                     YAW_XXModelInitialize_parameters},
           NEW v, v = NaN \/ v \in Int,
           NEW out \in SignalLimiter(P, v)
    PROVE  out = NaN \/ out \in -990 .. 990
<1>1. P.minimum = -990 /\ P.maximum = 990
  BY DEF PITCH_XXModelInitialize_parameters, YAW_XXModelInitialize_parameters
<1>2. QED
  BY <1>1, SMT DEF SignalLimiter

\* What the limiter of either axis gives.
Outputs == {NaN} \cup -990 .. 990

\* A round computes rates and an output of the limiter, also when the
\* correction that nothing sets is NaN.
LEMMA CalculatedRange ==
    ASSUME WiringInv, ControlTypeOK, NEW sp \in Int
    PROVE  /\ Calculated(sp).R \in Rates
           /\ Calculated(sp).outs \subseteq Outputs
<1>1. R \in Rates /\ position \in Int /\ sp - position \in Int
  BY DEF ControlTypeOK, Rates
<1>2. CASE axis = "pitch"
  <2> DEFINE P == PITCH_XXModelInitialize_parameters
             r == Pid(P, pitch_xx_step_size, R, sp - position)
             sum == IF corr = NaN THEN NaN ELSE P.K * corr + r.uI + r.uD
  <2>1. r \in Rates
    BY <1>1, PidType
  <2>2. /\ Calculated(sp).R = r
        /\ Calculated(sp).outs = {y[1] : y \in {<<out>> : out \in SignalLimiter(P, sum)}}
    BY <1>2 DEF Calculated, PITCH_XXCalculateSubmodel, PITCH_XXDiscreteStep,
                PITCH_XXCalculateDynamic, PITCH_XXCopyVariablesToOutputs
  <2>3. sum = NaN \/ sum \in Int
    <3> HIDE DEF r
    <3>1. P.K = 0 /\ r.uI \in Int /\ r.uD \in Int
      BY <2>1 DEF Rates, PITCH_XXModelInitialize_parameters
    <3>2. QED
      BY <3>1 DEF WiringInv
  <2> HIDE DEF r, sum
  <2>4. QED
    BY <2>1, <2>2, <2>3, LimiterRange DEF Outputs
<1>3. CASE axis # "pitch"
  <2> DEFINE P == YAW_XXModelInitialize_parameters
             r == Pid(P, yaw_xx_step_size, R, sp - position)
             sum == r.uI + r.uD
  <2>1. r \in Rates
    BY <1>1, PidType
  <2>2. /\ Calculated(sp).R = r
        /\ Calculated(sp).outs
             = {y[2] : y \in {<<P.K * position, out>> : out \in SignalLimiter(P, sum)}}
    BY <1>3 DEF Calculated, YAW_XXCalculateSubmodel, YAW_XXDiscreteStep,
                YAW_XXCalculateDynamic, YAW_XXCopyVariablesToOutputs
  <2>3. sum \in Int
    BY <2>1 DEF Rates
  <2> HIDE DEF r, sum
  <2>4. QED
    BY <2>1, <2>2, <2>3, LimiterRange DEF Outputs
<1>4. QED
  BY <1>2, <1>3

\* The rates that the submodels start with.
LEMMA InitializedType ==
    ASSUME WiringInv, position' \in Int
    PROVE  Initialized \in Rates
<1> DEFINE zero == [uD |-> 0, error |-> 0, uI |-> 0]
<1>1. zero \in Rates /\ position' - position' \in Int
  BY DEF Rates
<1>2. CASE axis = "pitch"
  <2>1. Initialized = Pid(PITCH_XXModelInitialize_parameters, pitch_xx_step_size,
                          zero, position' - position')
    BY <1>2 DEF Initialized, PITCH_XXInitializeSubmodel, PITCH_XXCalculateDynamic,
                PITCH_XXModelInitialize_states
  <2>2. QED
    BY <1>1, <2>1, PidType
<1>3. CASE axis # "pitch"
  <2>1. Initialized = Pid(YAW_XXModelInitialize_parameters, yaw_xx_step_size,
                          zero, position' - position')
    BY <1>3 DEF Initialized, YAW_XXInitializeSubmodel, YAW_XXCalculateDynamic,
                YAW_XXModelInitialize_states
  <2>2. QED
    BY <1>1, <2>1, PidType
<1>4. QED
  BY <1>2, <1>3

-----------------------------------------------------------------------------
(* The steps.                                                              *)

Settings == [begin : 0 .. EncMax - 1, end : 0 .. EncMax - 1,
             current : 0 .. EncMax - 1]

\* The read of an encoder, in Start and in Round.
LEMMA ReadStep ==
    ASSUME LoopInv, pc # "ready", ReadPosition, UNCHANGED <<wiring, shaft>>
    PROVE  /\ settings' \in Settings /\ position' \in Int
           /\ WiringInv'
           /\ (settings.begin = Count(measured.lo))'
           /\ (settings.end = Count(measured.hi))'
           /\ (settings.current = Count(measured.read))'
           /\ (position = get_rad_from_encoder(settings))'
<1>1. /\ settings' = [settings EXCEPT !.current = Count(shaft)]
      /\ position' = get_rad_from_encoder(settings')
      /\ measured' = [measured EXCEPT !.read = shaft]
      /\ axis' = axis /\ polarity' = polarity /\ origin' = origin /\ corr' = corr
  BY DEF ReadPosition, wiring
<1>2. /\ settings \in Settings /\ shaft \in 0 .. Travel
      /\ WiringInv
      /\ settings.begin = Count(measured.lo) /\ settings.end = Count(measured.hi)
  BY DEF LoopInv, ControlTypeOK, CountsInv, Settings
<1>3. Count(shaft) \in 0 .. EncMax - 1
  BY <1>2, CountExact
<1>4. settings' \in Settings
  BY <1>1, <1>2, <1>3 DEF Settings
<1>5. position' \in Int
  BY <1>1, <1>2, <1>4, AngleType DEF Settings, WiringInv
<1>6. WiringInv'
  BY <1>1, <1>2 DEF WiringInv
<1>7. /\ measured'.lo = measured.lo /\ measured'.hi = measured.hi
      /\ measured'.read = shaft
      /\ settings'.begin = settings.begin /\ settings'.end = settings.end
      /\ settings'.current = Count(shaft)
  BY <1>1, <1>2 DEF WiringInv, Settings
<1>8. /\ (settings.begin = Count(measured.lo))'
      /\ (settings.end = Count(measured.hi))'
      /\ (settings.current = Count(measured.read))'
  BY <1>1, <1>2, <1>7 DEF Count
<1>9. (position = get_rad_from_encoder(settings))'
  BY <1>1 DEF get_rad_from_encoder, C
<1>10. QED
  BY <1>4, <1>5, <1>6, <1>8, <1>9

\* The COM of a round is a coordinate, none of an object or none at all.
LEMMA SetPointStep ==
    ASSUME LoopInv, NEW com \in Coordinates \cup {-1, None}
    PROVE  /\ SetPoint(com) \in Int
           /\ Accepted(com) => \/ SetPoint(com) \in C.min .. C.max
                               \/ SetPoint(com) = position
           /\ ~Accepted(com) => SetPoint(com) = set_point
<1>1. /\ C.half \in Int /\ C.min \in Int /\ C.max \in Int
      /\ position \in Int /\ set_point \in Int
  BY ConfigType DEF LoopInv, WiringInv, ControlTypeOK
<1>2. com # None => com \in Int
  BY <1>1, LoopBoundsAssumption DEF Coordinates
<1>3. CASE ~Accepted(com)
  BY <1>1, <1>3 DEF SetPoint
<1>4. CASE Accepted(com)
  <2>1. C.half - com \in Int
    BY <1>1, <1>2, <1>4 DEF Accepted
  <2>2. ASSUME NEW sp \in Int
        PROVE  Clip(sp) \in Int /\ (Clip(sp) \in C.min .. C.max \/ Clip(sp) = position)
    BY <1>1 DEF Clip
  <2> DEFINE e == C.half - com
             sp == IF e <= -50 \/ e >= 50 THEN position + e ELSE set_point
  <2>3. SetPoint(com) = Clip(sp)
    BY <1>4 DEF SetPoint
  <2>4. sp \in Int
    BY <1>1, <2>1
  <2> HIDE DEF sp
  <2>5. QED
    BY <1>4, <2>2, <2>3, <2>4
<1>5. QED
  BY <1>3, <1>4

\* Every variable of the round starts with its type.
LEMMA LoopInit == Init => LoopInv
<1> SUFFICES ASSUME Init PROVE LoopInv
  OBVIOUS
<1>1. /\ EncMax \in Nat \ {0} /\ EncMax \div 2 \in 0 .. EncMax - 1
      /\ Travel \in Nat /\ MaxEntries \in Nat \ {0}
  BY TravelAssumption, LoopBoundsAssumption
<1>2. ControlTypeOK
  BY <1>1 DEF Init, ControlTypeOK
<1>3. WiringInv /\ CountsInv
  BY <1>1 DEF Init, WiringInv, CountsInv
<1>4. PwmInRange /\ SetPointSafe
  BY SMT DEF Init, PwmInRange, SetPointSafe, PWM_MID_POINT
<1>5. QED
  BY <1>2, <1>3, <1>4 DEF LoopInv

LEMMA HomingStep == LoopInv /\ homing_sequence => LoopInv'
<1> SUFFICES ASSUME LoopInv, homing_sequence PROVE LoopInv'
  OBVIOUS
<1>1. PICK lo \in 0 .. shaft, hi \in 0 .. Travel :
         /\ lo <= hi
         /\ settings' = [settings EXCEPT !.begin = Count(lo), !.end = Count(hi)]
         /\ measured' = [measured EXCEPT !.lo = lo, !.hi = hi]
         /\ shaft' = hi
  BY DEF homing_sequence
<1>2. /\ pc' = "homed"
      /\ axis' = axis /\ polarity' = polarity /\ origin' = origin /\ corr' = corr
      /\ set_point' = set_point /\ position' = position /\ R' = R /\ pwm' = pwm
      /\ profile' = profile /\ held' = held
  BY DEF homing_sequence, wiring
<1>3. /\ shaft \in 0 .. Travel /\ settings \in Settings /\ WiringInv
      /\ measured \in [lo : 0 .. Travel, hi : 0 .. Travel, read : 0 .. Travel]
  BY DEF LoopInv, ControlTypeOK, WiringInv, Settings
<1>4. lo \in 0 .. Travel
  BY <1>1, <1>3, TravelAssumption
<1>5. Count(lo) \in 0 .. EncMax - 1 /\ Count(hi) \in 0 .. EncMax - 1
  BY <1>3, <1>4, CountExact
<1>6. settings' \in Settings
  BY <1>1, <1>3, <1>5 DEF Settings
<1>7. ControlTypeOK'
  BY <1>1, <1>2, <1>6 DEF LoopInv, ControlTypeOK, Settings
<1>8. WiringInv'
  BY <1>1, <1>2, <1>3, <1>4 DEF WiringInv
<1>9. CountsInv'
  <2>1. measured'.lo = lo /\ measured'.hi = hi
    BY <1>1, <1>3
  <2>2. settings'.begin = Count(lo) /\ settings'.end = Count(hi)
    BY <1>1, <1>3 DEF Settings
  <2>3. QED
    BY <1>2, <2>1, <2>2 DEF CountsInv, Count
<1>10. PwmInRange' /\ SetPointSafe'
  BY <1>2, SMT DEF LoopInv, PwmInRange, SetPointSafe, C
<1>11. QED
  BY <1>7, <1>8, <1>9, <1>10 DEF LoopInv

LEMMA StartStep == LoopInv /\ Start => LoopInv'
<1> SUFFICES ASSUME LoopInv, Start PROVE LoopInv'
  OBVIOUS
<1>1. /\ pc = "homed" /\ pc' = "loop" /\ R' = Initialized
      /\ ReadPosition /\ UNCHANGED <<wiring, shaft>>
      /\ axis' = axis /\ shaft' = shaft
      /\ set_point' = set_point /\ pwm' = pwm /\ profile' = profile /\ held' = held
  BY DEF Start, wiring
<1>2. /\ settings' \in Settings /\ position' \in Int /\ WiringInv'
      /\ CountsInv'
  BY <1>1, ReadStep DEF CountsInv
<1>3. R' \in Rates
  BY <1>1, <1>2, InitializedType DEF LoopInv
<1>4. ControlTypeOK'
  BY <1>1, <1>2, <1>3 DEF LoopInv, ControlTypeOK, Settings, Rates
<1>5. PwmInRange' /\ SetPointSafe'
  BY <1>1, SMT DEF LoopInv, PwmInRange, SetPointSafe, C
<1>6. QED
  BY <1>2, <1>4, <1>5 DEF LoopInv

\* A round of the loop (main.c:150-215).
LEMMA RoundStep ==
    ASSUME LoopInv, NEW com \in Coordinates \cup {-1, None}, Round(com)
    PROVE  LoopInv'
<1>1. /\ pc = "loop" /\ pc' = pc
      /\ set_point' = SetPoint(com)
      /\ held' = IF Accepted(com) THEN position ELSE held
      /\ ReadPosition /\ UNCHANGED <<wiring, shaft>>
      /\ axis' = axis /\ shaft' = shaft
      /\ store_time
      /\ R' = Calculated(set_point').R
  BY DEF Round, wiring
<1>2. PICK out \in Calculated(set_point').outs :
         pwm' = get_pwm_value(dir(out), requested_pwm(out))
  BY DEF Round
<1>3. /\ settings' \in Settings /\ position' \in Int /\ WiringInv'
      /\ CountsInv'
  BY <1>1, ReadStep DEF CountsInv
<1>4. set_point' \in Int
  BY <1>1, SetPointStep
<1>5. R' \in Rates /\ (out = NaN \/ out \in -990 .. 990)
  <2>1. WiringInv /\ ControlTypeOK
    BY DEF LoopInv
  <2> PICK sp \in Int : sp = set_point'
    BY <1>4
  <2>2. Calculated(sp).R \in Rates /\ Calculated(sp).outs \subseteq Outputs
    BY <2>1, CalculatedRange
  <2>3. R' \in Rates /\ out \in Outputs
    BY <1>1, <2>2
  <2>4. QED
    BY <2>3 DEF Outputs
<1>6. PwmInRange'
  <2>1. axis \in {"pitch", "yaw"}
    BY DEF LoopInv, WiringInv
  <2>2. get_pwm_value(dir(out), requested_pwm(out)) \in 0 .. 2 * PWM_MID_POINT
    BY <1>5, <2>1, PwmOfOutput
  <2>3. QED
    BY <1>2, <2>2 DEF PwmInRange, PWM_MID_POINT
<1>7. /\ profile'.start_count \in 0 .. MaxEntries
      /\ profile'.start_written <=> profile'.start_count = MaxEntries
  <2>1. /\ profile.start_count \in 0 .. MaxEntries
        /\ profile.start_written <=> profile.start_count = MaxEntries
    BY DEF LoopInv, ControlTypeOK
  <2>2. CASE profile.start_count < MaxEntries
    <3>1. profile' = [start_count |-> profile.start_count + 1,
                      start_written |-> profile.start_count + 1 = MaxEntries]
      BY <1>1, <2>2 DEF store_time
    <3>2. /\ profile'.start_count = profile.start_count + 1
          /\ profile'.start_written <=> profile.start_count + 1 = MaxEntries
      BY <3>1, Zenon
    <3>3. profile.start_count + 1 \in 0 .. MaxEntries
      BY <2>1, <2>2, LoopBoundsAssumption
    <3>4. QED
      BY <3>2, <3>3, Zenon
  <2>3. CASE ~(profile.start_count < MaxEntries)
    BY <1>1, <2>1, <2>3 DEF store_time
  <2>4. QED
    BY <2>2, <2>3
<1>8. ControlTypeOK'
  BY <1>1, <1>3, <1>4, <1>5, <1>7 DEF LoopInv, ControlTypeOK, Settings, Rates
<1>9. SetPointSafe'
  <2>1. C' = C
    BY <1>1 DEF C
  <2>2. QED
    BY <1>1, <2>1, SetPointStep DEF LoopInv, SetPointSafe
<1>10. QED
  BY <1>3, <1>6, <1>8, <1>9 DEF LoopInv

LEMMA MoveStep == LoopInv /\ Move => LoopInv'
<1> SUFFICES ASSUME LoopInv, Move PROVE LoopInv'
  OBVIOUS
<1>1. /\ shaft' \in 0 .. Travel
      /\ axis' = axis /\ polarity' = polarity /\ origin' = origin /\ corr' = corr
      /\ settings' = settings /\ pc' = pc /\ set_point' = set_point
      /\ position' = position /\ R' = R /\ pwm' = pwm /\ profile' = profile
      /\ measured' = measured /\ held' = held
  BY TravelAssumption DEF LoopInv, ControlTypeOK, Move, wiring
<1>2. QED
  BY <1>1, SMT DEF LoopInv, ControlTypeOK, WiringInv, CountsInv, PwmInRange,
                   SetPointSafe, C, Count, get_rad_from_encoder

-----------------------------------------------------------------------------
\* LoopInv holds of every state of the control loop.
THEOREM LoopInvariant == Spec => []LoopInv
<1>1. LoopInv /\ [Next]_vars => LoopInv'
  <2>1. LoopInv /\ UNCHANGED vars => LoopInv'
    BY SMT DEF vars, LoopInv, ControlTypeOK, WiringInv, CountsInv, PwmInRange,
               SetPointSafe, C, Count, get_rad_from_encoder
  <2>2. QED
    BY <2>1, HomingStep, StartStep, RoundStep, MoveStep DEF Next
<1>2. QED
  BY <1>1, LoopInit, PTL DEF Spec

\* The variables keep their types, and the record of a round goes inside the
\* array of store_time (profiling.c:58).
THEOREM ControlTypeCorrect == Spec => []ControlTypeOK
<1>1. LoopInv => ControlTypeOK
  BY DEF LoopInv
<1>2. QED
  BY <1>1, LoopInvariant, PTL

\* The PWM value never wraps and never leaves the range of the generators
\* (main.c:206), whatever the gains, the error and the correction make of the
\* output, NaN included.
THEOREM PwmAlwaysInRange == Spec => []PwmInRange
<1>1. LoopInv => PwmInRange
  BY DEF LoopInv
<1>2. QED
  BY <1>1, LoopInvariant, PTL

\* Once a center of mass was accepted, the set point is within the limits of
\* the motor or where the motor was (main.c:174).
THEOREM SetPointAlwaysSafe == Spec => []SetPointSafe
<1>1. LoopInv => SetPointSafe
  BY DEF LoopInv
<1>2. QED
  BY <1>1, LoopInvariant, PTL

\* The angle is that of the shaft between the ends that homing measured
\* (hw_interface.c:216), for either wiring and wherever the count was reset.
THEOREM PositionExact == Spec => []PositionFollowsShaft
<1>1. LoopInv => PositionFollowsShaft
  <2> SUFFICES ASSUME LoopInv, pc = "loop"
               PROVE  position = IF measured.lo = measured.hi THEN C.min
                                 ELSE C.min + ((measured.read - measured.lo)
                                               * (C.max - C.min))
                                              \div (measured.hi - measured.lo)
    BY DEF PositionFollowsShaft
  <2>1. /\ WiringInv /\ settings \in Settings
        /\ measured.lo \in 0 .. Travel /\ measured.hi \in 0 .. Travel
        /\ measured.read \in 0 .. Travel /\ measured.lo <= measured.hi
        /\ settings.begin = Count(measured.lo)
        /\ settings.end = Count(measured.hi)
        /\ settings.current = Count(measured.read)
        /\ position = get_rad_from_encoder(settings)
    BY DEF LoopInv, ControlTypeOK, WiringInv, CountsInv, Settings
  <2>2. QED
    BY <2>1, AngleOfCounts DEF Settings
<1>2. QED
  BY <1>1, LoopInvariant, PTL
=============================================================================
