---------------------------- MODULE JiwyAppProofs ----------------------------
(***************************************************************************)
(* Proofs about the application: the control thread never works on limits  *)
(* that homing has not measured, before END main and the control thread    *)
(* are never at the hardware together, and until state_start the motors    *)
(* stand still whenever the program waits.  For both builds, any number of *)
(* homing writes and any number of failing transfers.                      *)
(***************************************************************************)
EXTENDS JiwyApp, SequenceTheorems, TLAPS

Transfers == Seq([pwm : Pair, slot : 0 .. 3])

\* A transfer of homing, init_fpga or state_end has its type and its entry.
LEMMA WriteType ==
    ASSUME NEW p \in Pwm, NEW s \in 0 .. 3
    PROVE  Write(p, s) \in [pwm : Pair, slot : 0 .. 3] /\ Write(p, s).slot = s
  BY DEF Write, Both, Pair

\* Repeating a transfer n times gives a list of n transfers.
LEMMA TimesType ==
    ASSUME NEW n \in Nat, NEW w \in [pwm : Pair, slot : 0 .. 3]
    PROVE  /\ Times(n, w) \in Transfers
           /\ Len(Times(n, w)) = n
           /\ \A i \in 1 .. n : Times(n, w)[i] = w
<1>1. Times(n, w) = [i \in 1 .. n |-> w]
  BY DEF Times
<1>2. QED
  BY <1>1 DEF Transfers

\* A list of one transfer.
LEMMA OneTransfer ==
    ASSUME NEW w \in [pwm : Pair, slot : 0 .. 3]
    PROVE  <<w>> \in Transfers /\ <<w>> # <<>>
  BY DEF Transfers

\* The entries that a list of transfers reads.
Reads(s) == {s[i].slot : i \in DOMAIN s}

\* Appending a list keeps the entries that either part reads.
LEMMA ConcatReads ==
    ASSUME NEW a \in Transfers, NEW b \in Transfers
    PROVE  /\ a \o b \in Transfers
           /\ Reads(a) \cup Reads(b) \subseteq Reads(a \o b)
<1>1. /\ a \o b \in Transfers
      /\ Len(a \o b) = Len(a) + Len(b)
      /\ DOMAIN a = 1 .. Len(a) /\ DOMAIN b = 1 .. Len(b)
      /\ DOMAIN (a \o b) = 1 .. Len(a) + Len(b)
      /\ Len(a) \in Nat /\ Len(b) \in Nat
  BY DEF Transfers
<1>2. ASSUME NEW i \in DOMAIN a PROVE a[i].slot \in Reads(a \o b)
  <2>1. i \in DOMAIN (a \o b)
    BY <1>1
  <2>2. (a \o b)[i] = a[i]
    BY <1>1 DEF Transfers
  <2>3. QED
    BY <2>1, <2>2 DEF Reads
<1>3. ASSUME NEW i \in DOMAIN b PROVE b[i].slot \in Reads(a \o b)
  <2>1. Len(a) + i \in DOMAIN (a \o b)
    BY <1>1
  <2>2. (a \o b)[Len(a) + i] = b[i]
    BY <1>1 DEF Transfers
  <2>3. QED
    BY <2>1, <2>2 DEF Reads
<1>4. QED
  BY <1>1, <1>2, <1>3 DEF Reads

\* Homing (hw_interface.c:151-188) reads entries 1 and 2.
LEMMA HomingReadsBothEnds ==
    /\ homing_sequence \in Transfers
    /\ homing_sequence # <<>>
    /\ {1, 2} \subseteq Reads(homing_sequence)
<1> DEFINE s0 == <<Write("mid", 0)>>
           s1 == Times(HomingWrites, Write("neg", 1))
           s2 == Times(2, Write("mid", 1))
           s3 == Times(HomingWrites, Write("pos", 2))
           s4 == Times(2, Write("mid", 2))
<1>1. /\ \A p \in Pwm, s \in 0 .. 3 : Write(p, s) \in [pwm : Pair, slot : 0 .. 3]
      /\ Write("mid", 1).slot = 1 /\ Write("mid", 2).slot = 2
      /\ HomingWrites \in Nat
  BY WriteType, BoundsAssumption DEF Pwm
<1>2. s0 \in Transfers
  BY <1>1, OneTransfer DEF Pwm
<1>3. s1 \in Transfers /\ s3 \in Transfers
  BY <1>1, TimesType DEF Pwm
<1>4. ASSUME NEW s \in {1, 2}
      PROVE  Times(2, Write("mid", s)) \in Transfers /\ s \in Reads(Times(2, Write("mid", s)))
  <2>1. Write("mid", s) \in [pwm : Pair, slot : 0 .. 3] /\ Write("mid", s).slot = s
    BY <1>1 DEF Pwm
  <2>2. /\ Times(2, Write("mid", s)) \in Transfers
        /\ Len(Times(2, Write("mid", s))) = 2
        /\ \A i \in 1 .. 2 : Times(2, Write("mid", s))[i] = Write("mid", s)
    BY <2>1, TimesType
  <2>3. 1 \in DOMAIN Times(2, Write("mid", s))
    BY <2>2 DEF Transfers
  <2>4. Times(2, Write("mid", s))[1] = Write("mid", s)
    BY <2>2
  <2>5. QED
    BY <2>1, <2>2, <2>3, <2>4 DEF Reads
<1>5. s2 \in Transfers /\ 1 \in Reads(s2) /\ s4 \in Transfers /\ 2 \in Reads(s4)
  BY <1>4
<1> HIDE DEF s0, s1, s2, s3, s4
<1>6. (s0 \o s1) \in Transfers
  BY <1>2, <1>3, ConcatReads
<1>7. ((s0 \o s1) \o s2) \in Transfers /\ 1 \in Reads((s0 \o s1) \o s2)
  BY <1>5, <1>6, ConcatReads
<1>8. /\ (((s0 \o s1) \o s2) \o s3) \in Transfers
      /\ 1 \in Reads(((s0 \o s1) \o s2) \o s3)
  BY <1>3, <1>7, ConcatReads
<1> DEFINE h == (((s0 \o s1) \o s2) \o s3) \o s4
<1>9. h \in Transfers /\ 1 \in Reads(h) /\ 2 \in Reads(h)
  BY <1>5, <1>8, ConcatReads
<1>10. homing_sequence = h
  BY DEF homing_sequence, s0, s1, s2, s3, s4
<1> HIDE DEF h
<1>11. h # <<>>
  BY <1>9 DEF Reads
<1>12. QED
  BY <1>9, <1>10, <1>11

\* The other lists.
LEMMA ShortScripts ==
    /\ init_fpga \in Transfers /\ init_fpga # <<>>
    /\ state_end \in Transfers /\ state_end # <<>>
<1>1. Write("mid", 3) \in [pwm : Pair, slot : 0 .. 3]
  BY WriteType DEF Pwm
<1>2. QED
  BY <1>1, OneTransfer DEF init_fpga, state_end

\* Going on to the rest of a list leaves only its first entry behind.
LEMMA TailReads ==
    ASSUME NEW s \in Transfers, s # <<>>
    PROVE  /\ Tail(s) \in Transfers
           /\ Head(s) \in [pwm : Pair, slot : 0 .. 3]
           /\ Len(s) > 1 => Tail(s) # <<>>
           /\ ~(Len(s) > 1) => Reads(Tail(s)) = {}
           /\ Reads(s) \subseteq {Head(s).slot} \cup Reads(Tail(s))
<1>1. /\ Tail(s) \in Transfers /\ Head(s) \in [pwm : Pair, slot : 0 .. 3]
      /\ Len(Tail(s)) = Len(s) - 1
      /\ \A i \in 1 .. Len(Tail(s)) : Tail(s)[i] = s[i + 1]
  BY HeadTailProperties DEF Transfers
<1>2. /\ Head(s) = s[1]
      /\ Len(s) \in Nat /\ DOMAIN s = 1 .. Len(s)
      /\ DOMAIN Tail(s) = 1 .. Len(Tail(s))
  BY <1>1 DEF Transfers
<1>3. ASSUME NEW i \in DOMAIN s, i # 1
      PROVE  s[i].slot \in Reads(Tail(s))
  <2>1. i - 1 \in DOMAIN Tail(s)
    BY <1>1, <1>2, <1>3
  <2>2. Tail(s)[i - 1] = s[i]
    BY <1>1, <1>2, <2>1
  <2>3. QED
    BY <2>1, <2>2 DEF Reads
<1>4. Len(s) > 1 => Tail(s) # <<>>
  <2>1. Tail(s) = <<>> => Len(Tail(s)) = 0
    OBVIOUS
  <2>2. QED
    BY <1>1, <1>2, <2>1
<1>5. ~(Len(s) > 1) => Reads(Tail(s)) = {}
  <2>1. ~(Len(s) > 1) => DOMAIN Tail(s) = {}
    BY <1>1, <1>2
  <2>2. QED
    BY <2>1 DEF Reads
<1>6. Reads(s) \subseteq {Head(s).slot} \cup Reads(Tail(s))
  BY <1>2, <1>3 DEF Reads
<1>7. QED
  BY <1>1, <1>4, <1>5, <1>6

-----------------------------------------------------------------------------

\* Every variable keeps its type.
LEMMA TypeStep == JiwyInv /\ [Next]_vars => TypeOK'
<1> SUFFICES ASSUME JiwyInv, [Next]_vars PROVE TypeOK'
  OBVIOUS
<1> TypeOK /\ MainInv
  BY DEF JiwyInv
<1> USE DEF TypeOK, hwVars, Free, Transfers
<1>1. ASSUME NEW t \in {"main", "control"}, FillPitch(t) PROVE TypeOK'
  <2>1. Arg(t) \in Pair
    BY <1>1, TailReads DEF FillPitch, Calling, Arg, MainInv
  <2>2. QED
    BY <1>1, <2>1 DEF FillPitch, threadVars, Pair
<1>2. ASSUME NEW t \in {"main", "control"}, FillYaw(t) PROVE TypeOK'
  <2>1. Arg(t) \in Pair
    BY <1>2, TailReads DEF FillYaw, Arg, MainInv
  <2>2. QED
    BY <1>2, <2>1 DEF FillYaw, threadVars, Pair
<1>3. ASSUME NEW t \in {"main", "control"}, Send(t) PROVE TypeOK'
  BY <1>3, BoundsAssumption DEF Send, threadVars
<1>4. ASSUME NEW t \in {"main", "control"}, StoreRegister(t) PROVE TypeOK'
  <2>1. Arg(t) \in Pair
    BY <1>4, TailReads DEF StoreRegister, Calling, Arg, MainInv
  <2>2. QED
    BY <1>4, <2>1 DEF StoreRegister, threadVars
<1>5. CASE MainRead
  <2>1. Tail(script) \in Transfers /\ Head(script).slot \in 0 .. 3
    BY <1>5, TailReads DEF MainRead, MainInv
  <2>2. QED
    BY <1>5, <2>1 DEF MainRead
<1>6. CASE ControlRead
  BY <1>6 DEF ControlRead
<1>7. ASSUME NEW c \in Commands, Command(c) PROVE TypeOK'
  <2>1. /\ state' \in States
        /\ mpc' \in {"prompt", "reset", "transfer", "start_lock", "stop_lock"}
    BY <1>7 DEF Command, NextState, Handler, States
  <2>2. script' \in Transfers
    BY <1>7, HomingReadsBothEnds DEF Command
  <2>3. QED
    BY <1>7, <2>1, <2>2 DEF Command
<1>8. CASE EndOfInput
  BY <1>8 DEF EndOfInput
<1>9. CASE Reset
  <2>1. Mid \in Pair
    BY DEF Mid, Both, Pair, Pwm
  <2>2. QED
    BY <1>9, <2>1, ShortScripts DEF Reset
<1>10. CASE MainLock
  BY <1>10 DEF MainLock
<1>11. CASE StartSet
  BY <1>11 DEF StartSet
<1>12. CASE StartSignal
  BY <1>12 DEF StartSignal
<1>13. CASE StopSet
  BY <1>13 DEF StopSet
<1>14. CASE MainUnlock
  BY <1>14, ShortScripts DEF MainUnlock
<1>15. CASE Cancel
  BY <1>15 DEF Cancel
<1>16. CASE Join
  BY <1>16 DEF Join
<1>17. CASE ControlPrint
  BY <1>17 DEF ControlPrint, ControlGoto
<1>18. CASE ControlLock
  BY <1>18 DEF ControlLock, ControlGoto
<1>19. CASE ControlTest
  BY <1>19 DEF ControlTest, ControlGoto
<1>20. CASE InitializeSubmodels
  BY <1>20 DEF InitializeSubmodels, ControlGoto
<1>21. CASE LoopTest
  BY <1>21 DEF LoopTest, ControlGoto
<1>22. CASE CalculateSubmodels
  BY <1>22 DEF CalculateSubmodels, ControlGoto
<1>23. CASE CheckActive
  BY <1>23 DEF CheckActive, ControlGoto
<1>24. CASE Wake
  BY <1>24 DEF Wake, ControlGoto
<1>25. CASE Cancelled
  BY <1>25 DEF Cancelled, ControlGoto
<1>26. CASE SpuriousWakeup
  BY <1>26 DEF SpuriousWakeup, ControlGoto
<1>27. CASE UNCHANGED vars
  BY <1>27 DEF vars
<1>28. QED
  BY <1>1, <1>2, <1>3, <1>4, <1>5, <1>6, <1>7, <1>8, <1>9,
     <1>10, <1>11, <1>12, <1>13, <1>14, <1>15, <1>16, <1>17, <1>18,
     <1>19, <1>20, <1>21, <1>22, <1>23, <1>24, <1>25, <1>26, <1>27
  DEF Next, Operator, MainStep, ControlStep, Transfer

\* The handlers keep to their states.
LEMMA MainStepKeeps == JiwyInv /\ [Next]_vars => MainInv'
<1> SUFFICES ASSUME JiwyInv, [Next]_vars PROVE MainInv'
  OBVIOUS
<1> TypeOK /\ MainInv
  BY DEF JiwyInv
<1> /\ script \in Transfers
    /\ xpc \in [{"main", "control"} -> {"begin", "yaw", "send", "read"}]
  BY DEF TypeOK, Transfers
<1> USE DEF MainInv, hwVars
<1>1. ASSUME NEW t \in {"main", "control"}, FillPitch(t) PROVE MainInv'
  BY <1>1 DEF FillPitch, threadVars, Calling
<1>2. ASSUME NEW t \in {"main", "control"}, FillYaw(t) PROVE MainInv'
  BY <1>2 DEF FillYaw, threadVars
<1>3. ASSUME NEW t \in {"main", "control"}, Send(t) PROVE MainInv'
  BY <1>3 DEF Send, threadVars
<1>4. ASSUME NEW t \in {"main", "control"}, StoreRegister(t) PROVE MainInv'
  BY <1>4 DEF StoreRegister, threadVars, Calling
<1>5. CASE MainRead
  BY <1>5, TailReads DEF MainRead
<1>6. CASE ControlRead
  BY <1>6 DEF ControlRead
<1>7. ASSUME NEW c \in Commands, Command(c) PROVE MainInv'
  <2>1. state' \in States /\ mpc' = Handler(state')
    BY <1>7 DEF Command, NextState, States, TypeOK
  <2>2. xpc["main"] = "begin"
    BY <1>7 DEF Command
  <2>3. state' = "HOME" => script' # <<>>
    BY <1>7, HomingReadsBothEnds DEF Command
  <2>4. QED
    BY <1>7, <2>1, <2>2, <2>3 DEF Command, Handler, States
<1>8. CASE EndOfInput
  BY <1>8 DEF EndOfInput
<1>9. CASE Reset
  BY <1>9, ShortScripts DEF Reset
<1>10. CASE MainLock
  BY <1>10 DEF MainLock
<1>11. CASE StartSet
  BY <1>11 DEF StartSet
<1>12. CASE StartSignal
  BY <1>12 DEF StartSignal
<1>13. CASE StopSet
  BY <1>13 DEF StopSet
<1>14. CASE MainUnlock
  BY <1>14, ShortScripts DEF MainUnlock
<1>15. CASE Cancel
  BY <1>15 DEF Cancel
<1>16. CASE Join
  BY <1>16 DEF Join
<1>17. CASE ControlPrint
  BY <1>17 DEF ControlPrint, ControlGoto
<1>18. CASE ControlLock
  BY <1>18 DEF ControlLock, ControlGoto
<1>19. CASE ControlTest
  BY <1>19 DEF ControlTest, ControlGoto
<1>20. CASE InitializeSubmodels
  BY <1>20 DEF InitializeSubmodels, ControlGoto
<1>21. CASE LoopTest
  BY <1>21 DEF LoopTest, ControlGoto
<1>22. CASE CalculateSubmodels
  BY <1>22 DEF CalculateSubmodels, ControlGoto
<1>23. CASE CheckActive
  BY <1>23 DEF CheckActive, ControlGoto
<1>24. CASE Wake
  BY <1>24 DEF Wake, ControlGoto
<1>25. CASE Cancelled
  BY <1>25 DEF Cancelled, ControlGoto
<1>26. CASE SpuriousWakeup
  BY <1>26 DEF SpuriousWakeup, ControlGoto
<1>27. CASE UNCHANGED vars
  BY <1>27 DEF vars
<1>28. QED
  BY <1>1, <1>2, <1>3, <1>4, <1>5, <1>6, <1>7, <1>8, <1>9,
     <1>10, <1>11, <1>12, <1>13, <1>14, <1>15, <1>16, <1>17, <1>18,
     <1>19, <1>20, <1>21, <1>22, <1>23, <1>24, <1>25, <1>26, <1>27
  DEF Next, Operator, MainStep, ControlStep, Transfer

\* Before START the control thread does not run.
LEMMA PhaseStep == JiwyInv /\ [Next]_vars => PhaseInv'
<1> SUFFICES ASSUME JiwyInv, [Next]_vars PROVE PhaseInv'
  OBVIOUS
<1> TypeOK /\ MainInv /\ PhaseInv
  BY DEF JiwyInv
<1> xpc \in [{"main", "control"} -> {"begin", "yaw", "send", "read"}]
  BY DEF TypeOK
<1> USE DEF PhaseInv, Running, hwVars
<1>1. ASSUME NEW t \in {"main", "control"}, FillPitch(t) PROVE PhaseInv'
  BY <1>1 DEF FillPitch, threadVars, Calling
<1>2. ASSUME NEW t \in {"main", "control"}, FillYaw(t) PROVE PhaseInv'
  BY <1>2 DEF FillYaw, threadVars
<1>3. ASSUME NEW t \in {"main", "control"}, Send(t) PROVE PhaseInv'
  BY <1>3 DEF Send, threadVars
<1>4. ASSUME NEW t \in {"main", "control"}, StoreRegister(t) PROVE PhaseInv'
  BY <1>4 DEF StoreRegister, threadVars, Calling
<1>5. CASE MainRead
  BY <1>5 DEF MainRead
<1>6. CASE ControlRead
  BY <1>6 DEF ControlRead
<1>7. ASSUME NEW c \in Commands, Command(c) PROVE PhaseInv'
  <2>1. state \in {"START", "END"} => state' \in {"START", "END"}
    BY <1>7 DEF Command, NextState
  <2>2. QED
    BY <1>7, <2>1 DEF Command
<1>8. CASE EndOfInput
  BY <1>8 DEF EndOfInput
<1>9. CASE Reset
  BY <1>9 DEF Reset
<1>10. CASE MainLock
  BY <1>10 DEF MainLock
<1>11. CASE StartSet
  BY <1>11 DEF StartSet, MainInv
<1>12. CASE StartSignal
  BY <1>12 DEF StartSignal
<1>13. CASE StopSet
  BY <1>13 DEF StopSet
<1>14. CASE MainUnlock
  BY <1>14 DEF MainUnlock
<1>15. CASE Cancel
  BY <1>15 DEF Cancel
<1>16. CASE Join
  BY <1>16 DEF Join
<1>17. CASE ControlPrint
  BY <1>17 DEF ControlPrint, ControlGoto
<1>18. CASE ControlLock
  BY <1>18 DEF ControlLock, ControlGoto
<1>19. CASE ControlTest
  BY <1>19 DEF ControlTest, ControlGoto
<1>20. CASE InitializeSubmodels
  BY <1>20 DEF InitializeSubmodels, ControlGoto
<1>21. CASE LoopTest
  BY <1>21 DEF LoopTest, ControlGoto
<1>22. CASE CalculateSubmodels
  BY <1>22 DEF CalculateSubmodels, ControlGoto
<1>23. CASE CheckActive
  BY <1>23 DEF CheckActive, ControlGoto
<1>24. CASE Wake
  BY <1>24 DEF Wake, ControlGoto
<1>25. CASE Cancelled
  <2>1. /\ cpc \in {"print", "sleep", "initialize", "wait"} /\ cpc' = "done"
        /\ state' = state /\ active' = active /\ xpc' = xpc
    BY <1>25 DEF Cancelled, ControlGoto
  <2>2. QED
    BY <2>1
<1>26. CASE SpuriousWakeup
  BY <1>26 DEF SpuriousWakeup, ControlGoto
<1>27. CASE UNCHANGED vars
  BY <1>27 DEF vars
<1>28. QED
  BY <1>1, <1>2, <1>3, <1>4, <1>5, <1>6, <1>7, <1>8, <1>9,
     <1>10, <1>11, <1>12, <1>13, <1>14, <1>15, <1>16, <1>17, <1>18,
     <1>19, <1>20, <1>21, <1>22, <1>23, <1>24, <1>25, <1>26, <1>27
  DEF Next, Operator, MainStep, ControlStep, Transfer

\* A homing that is over has read both ends.
LEMMA HomedStep == JiwyInv /\ [Next]_vars => HomedInv'
<1> SUFFICES ASSUME JiwyInv, [Next]_vars PROVE HomedInv'
  OBVIOUS
<1> TypeOK /\ MainInv /\ HomedInv
  BY DEF JiwyInv
<1> script \in Transfers
  BY DEF TypeOK, Transfers
<1> USE DEF HomedInv, SlotsToRead, Reads, hwVars
<1>1. ASSUME NEW t \in {"main", "control"}, FillPitch(t) PROVE HomedInv'
  BY <1>1 DEF FillPitch, threadVars
<1>2. ASSUME NEW t \in {"main", "control"}, FillYaw(t) PROVE HomedInv'
  BY <1>2 DEF FillYaw, threadVars
<1>3. ASSUME NEW t \in {"main", "control"}, Send(t) PROVE HomedInv'
  BY <1>3 DEF Send, threadVars
<1>4. ASSUME NEW t \in {"main", "control"}, StoreRegister(t) PROVE HomedInv'
  BY <1>4 DEF StoreRegister, threadVars
<1>5. CASE MainRead
  <2>1. script # <<>> /\ mpc = "transfer"
    BY <1>5 DEF MainRead, MainInv
  <2>a. SlotsToRead = Reads(script) /\ SlotsToRead' = Reads(Tail(script))
    BY <1>5 DEF MainRead
  <2> HIDE DEF SlotsToRead, Reads
  <2>2. SlotsToRead \subseteq {Head(script).slot} \cup SlotsToRead'
    BY <2>a, <2>1, TailReads
  <2>3. mpc' # "transfer" => SlotsToRead' = {}
    BY <1>5, <2>a, <2>1, TailReads DEF MainRead
  <2>4. enc' = enc \cup {Head(script).slot} /\ state' = state
    BY <1>5 DEF MainRead
  <2>5. QED
    BY <2>2, <2>3, <2>4
<1>6. CASE ControlRead
  BY <1>6 DEF ControlRead
<1>7. ASSUME NEW c \in Commands, Command(c) PROVE HomedInv'
  <2>1. enc' = enc
    BY <1>7 DEF Command
  <2>2. CASE state' = "HOME"
    <3>1. mpc' = "transfer" /\ script' = homing_sequence
      BY <1>7, <2>2 DEF Command, Handler
    <3>2. QED
      BY <2>2, <3>1, HomingReadsBothEnds
  <2>3. CASE state' \in {"START", "END"}
    <3>1. state \in {"HOME", "START", "END"} /\ mpc = "prompt"
      BY <1>7, <2>3 DEF Command, NextState
    <3>2. QED
      BY <2>1, <2>3, <3>1
  <2>4. QED
    BY <2>2, <2>3
<1>8. CASE EndOfInput
  BY <1>8 DEF EndOfInput
<1>9. CASE Reset
  BY <1>9 DEF Reset, MainInv
<1>10. CASE MainLock
  BY <1>10 DEF MainLock, MainInv
<1>11. CASE StartSet
  BY <1>11 DEF StartSet
<1>12. CASE StartSignal
  BY <1>12 DEF StartSignal
<1>13. CASE StopSet
  BY <1>13 DEF StopSet
<1>14. CASE MainUnlock
  BY <1>14 DEF MainUnlock, MainInv
<1>15. CASE Cancel
  BY <1>15 DEF Cancel
<1>16. CASE Join
  BY <1>16 DEF Join
<1>17. CASE ControlPrint
  BY <1>17 DEF ControlPrint, ControlGoto
<1>18. CASE ControlLock
  BY <1>18 DEF ControlLock, ControlGoto
<1>19. CASE ControlTest
  BY <1>19 DEF ControlTest, ControlGoto
<1>20. CASE InitializeSubmodels
  BY <1>20 DEF InitializeSubmodels, ControlGoto
<1>21. CASE LoopTest
  BY <1>21 DEF LoopTest, ControlGoto
<1>22. CASE CalculateSubmodels
  BY <1>22 DEF CalculateSubmodels, ControlGoto
<1>23. CASE CheckActive
  BY <1>23 DEF CheckActive, ControlGoto
<1>24. CASE Wake
  BY <1>24 DEF Wake, ControlGoto
<1>25. CASE Cancelled
  BY <1>25 DEF Cancelled, ControlGoto
<1>26. CASE SpuriousWakeup
  BY <1>26 DEF SpuriousWakeup, ControlGoto
<1>27. CASE UNCHANGED vars
  BY <1>27 DEF vars
<1>28. QED
  BY <1>1, <1>2, <1>3, <1>4, <1>5, <1>6, <1>7, <1>8, <1>9,
     <1>10, <1>11, <1>12, <1>13, <1>14, <1>15, <1>16, <1>17, <1>18,
     <1>19, <1>20, <1>21, <1>22, <1>23, <1>24, <1>25, <1>26, <1>27
  DEF Next, Operator, MainStep, ControlStep, Transfer

-----------------------------------------------------------------------------
\* The last transfer of a list leaves the motors at the mid point.
EndsStill(s) == s # <<>> => s[Len(s)].pwm = Mid

\* A list stays so when its first transfer is done, and a list of one transfer
\* is that transfer.
LEMMA TailEndsStill ==
    ASSUME NEW s \in Transfers, s # <<>>, EndsStill(s)
    PROVE  /\ EndsStill(Tail(s))
           /\ ~(Len(s) > 1) => Head(s).pwm = Mid
<1>1. /\ Tail(s) \in Transfers
      /\ Len(Tail(s)) = Len(s) - 1
      /\ \A i \in 1 .. Len(Tail(s)) : Tail(s)[i] = s[i + 1]
      /\ Len(s) \in Nat /\ Len(s) > 0 /\ Head(s) = s[1]
  BY HeadTailProperties DEF Transfers
<1>2. Tail(s) # <<>> => Len(Tail(s)) \in 1 .. Len(Tail(s))
  <2>1. Tail(s) # <<>> => Len(Tail(s)) # 0
    BY <1>1 DEF Transfers
  <2>2. QED
    BY <1>1, <2>1
<1>3. Tail(s) # <<>> => Tail(s)[Len(Tail(s))] = s[Len(s)]
  BY <1>1, <1>2
<1>4. ~(Len(s) > 1) => Len(s) = 1
  BY <1>1
<1>5. QED
  BY <1>1, <1>3, <1>4 DEF EndsStill

\* Appending a list that ends still gives one that ends still.
LEMMA ConcatEndsStill ==
    ASSUME NEW a \in Transfers, NEW b \in Transfers, b # <<>>, EndsStill(b)
    PROVE  EndsStill(a \o b)
<1>1. /\ Len(a \o b) = Len(a) + Len(b)
      /\ Len(a) \in Nat /\ Len(b) \in Nat /\ Len(b) # 0
  BY DEF Transfers
<1>2. (a \o b)[Len(a) + Len(b)] = b[Len(b)]
  BY <1>1 DEF Transfers
<1>3. QED
  BY <1>1, <1>2 DEF EndsStill

\* Homing, init_fpga and state_end end at the mid point.
LEMMA HandlersEndStill ==
    EndsStill(homing_sequence) /\ EndsStill(init_fpga) /\ EndsStill(state_end)
<1> DEFINE a == <<Write("mid", 0)>>
               \o Times(HomingWrites, Write("neg", 1)) \o Times(2, Write("mid", 1))
               \o Times(HomingWrites, Write("pos", 2))
           b == Times(2, Write("mid", 2))
<1>1. /\ \A p \in Pwm, s \in 0 .. 3 : Write(p, s) \in [pwm : Pair, slot : 0 .. 3]
      /\ \A s \in 0 .. 3 : Write("mid", s).pwm = Mid
      /\ HomingWrites \in Nat
  BY WriteType, BoundsAssumption DEF Write, Mid, Both, Pair, Pwm
<1>2. a \in Transfers
  <2>1. <<Write("mid", 0)>> \in Transfers
    BY <1>1, OneTransfer DEF Pwm
  <2>2. /\ Times(HomingWrites, Write("neg", 1)) \in Transfers
        /\ Times(HomingWrites, Write("pos", 2)) \in Transfers
        /\ Times(2, Write("mid", 1)) \in Transfers
    BY <1>1, TimesType DEF Pwm
  <2> HIDE DEF a
  <2>3. <<Write("mid", 0)>> \o Times(HomingWrites, Write("neg", 1)) \in Transfers
    BY <2>1, <2>2, ConcatReads
  <2>4. (<<Write("mid", 0)>> \o Times(HomingWrites, Write("neg", 1)))
            \o Times(2, Write("mid", 1)) \in Transfers
    BY <2>2, <2>3, ConcatReads
  <2>5. QED
    BY <2>2, <2>4, ConcatReads DEF a
<1>3. b \in Transfers /\ b # <<>> /\ EndsStill(b)
  <2>1. Write("mid", 2) \in [pwm : Pair, slot : 0 .. 3] /\ Write("mid", 2).pwm = Mid
    BY <1>1 DEF Pwm
  <2>2. /\ b \in Transfers /\ Len(b) = 2
        /\ \A i \in 1 .. 2 : b[i] = Write("mid", 2)
    BY <2>1, TimesType
  <2> HIDE DEF b
  <2>3. b[2] = Write("mid", 2) /\ b # <<>>
    BY <2>2 DEF Transfers
  <2>4. QED
    BY <2>1, <2>2, <2>3 DEF EndsStill
<1>4. homing_sequence = a \o b
  BY DEF homing_sequence
<1> HIDE DEF a, b
<1>5. EndsStill(homing_sequence)
  BY <1>2, <1>3, <1>4, ConcatEndsStill
<1>6. EndsStill(<<Write("mid", 3)>>)
  BY <1>1 DEF EndsStill
<1>7. QED
  BY <1>5, <1>6 DEF init_fpga, state_end

\* Until state_start runs main is alone at the hardware, and what it leaves
\* there is the end of a list.
LEMMA StillStep == JiwyInv /\ StillInv /\ [Next]_vars => StillInv'
<1> SUFFICES ASSUME JiwyInv, StillInv, [Next]_vars PROVE StillInv'
  OBVIOUS
<1> TypeOK /\ MainInv /\ PhaseInv
  BY DEF JiwyInv
<1> /\ script \in Transfers
    /\ TXBuf \in Pair /\ motor \in Pair /\ errors \in Nat
    /\ xpc \in [{"main", "control"} -> {"begin", "yaw", "send", "read"}]
  BY BoundsAssumption DEF TypeOK, Transfers
<1> USE DEF StillInv, MainSends, Running, hwVars
<1>1. ASSUME NEW t \in {"main", "control"}, FillPitch(t) PROVE StillInv'
  <2>1. CASE t = "main"
    <3>1. /\ TXBuf'.pitch = Head(script).pwm.pitch
          /\ xpc'["main"] = "yaw"
      BY <1>1, <2>1 DEF FillPitch, Arg, Pair
    <3>2. QED
      BY <1>1, <3>1 DEF FillPitch, threadVars
  <2>2. CASE t = "control"
    BY <1>1, <2>2 DEF FillPitch, threadVars, Calling
  <2>3. QED
    BY <2>1, <2>2
<1>2. ASSUME NEW t \in {"main", "control"}, FillYaw(t) PROVE StillInv'
  <2>1. CASE t = "main" /\ ~started
    <3>1. script # <<>>
      BY <1>2, <2>1 DEF FillYaw, MainInv
    <3>2. Head(script).pwm \in Pair
      BY <3>1, TailReads
    <3>3. TXBuf' = [TXBuf EXCEPT !.yaw = Head(script).pwm.yaw]
      BY <1>2, <2>1 DEF FillYaw, Arg
    <3>4. TXBuf.pitch = Head(script).pwm.pitch
      BY <1>2, <2>1 DEF FillYaw
    <3>5. TXBuf' = Head(script).pwm
      BY <3>2, <3>3, <3>4 DEF Pair
    <3>6. xpc'["main"] = "send"
      BY <1>2, <2>1 DEF FillYaw
    <3>7. QED
      BY <1>2, <3>5, <3>6 DEF FillYaw, threadVars
  <2>2. CASE t = "control"
    BY <1>2, <2>2 DEF FillYaw, threadVars, PhaseInv
  <2>3. CASE started
    BY <1>2, <2>3 DEF FillYaw, threadVars
  <2>4. QED
    BY <2>1, <2>2, <2>3
<1>3. ASSUME NEW t \in {"main", "control"}, Send(t) PROVE StillInv'
  <2>1. CASE t = "main" /\ ~started
    <3>1. xpc'["main"] = "read" /\ mpc = "transfer" /\ TXBuf = Head(script).pwm
      BY <1>3, <2>1 DEF Send, MainInv
    <3>2. errors' = 0 => motor' = Head(script).pwm
      BY <1>3, <3>1 DEF Send
    <3>3. QED
      BY <1>3, <3>1, <3>2 DEF Send, threadVars
  <2>2. CASE t = "control"
    BY <1>3, <2>2 DEF Send, threadVars, PhaseInv
  <2>3. CASE started
    BY <1>3, <2>3 DEF Send, threadVars
  <2>4. QED
    BY <2>1, <2>2, <2>3
<1>4. ASSUME NEW t \in {"main", "control"}, StoreRegister(t) PROVE StillInv'
  <2>1. CASE t = "main"
    BY <1>4, <2>1 DEF StoreRegister, threadVars, Calling, Arg
  <2>2. CASE t = "control"
    BY <1>4, <2>2 DEF StoreRegister, threadVars, Calling
  <2>3. QED
    BY <2>1, <2>2
<1>5. CASE MainRead
  <2>1. script # <<>> /\ EndsStill(script) /\ xpc["main"] = "read"
    BY <1>5 DEF MainRead, MainInv, EndsStill
  <2>2. /\ EndsStill(Tail(script))
        /\ ~(Len(script) > 1) => Head(script).pwm = Mid
    BY <2>1, TailEndsStill
  <2>3. ~started /\ errors = 0 => motor = Head(script).pwm
    BY <2>1
  <2>4. /\ mpc' # "transfer" => ~(Len(script) > 1)
        /\ xpc'["main"] = "begin" /\ script' = Tail(script)
        /\ UNCHANGED <<active, cpc, started, motor, errors>>
    BY <1>5 DEF MainRead
  <2>5. QED
    BY <2>2, <2>3, <2>4 DEF EndsStill
<1>6. CASE ControlRead
  BY <1>6 DEF ControlRead, PhaseInv
<1>7. ASSUME NEW c \in Commands, Command(c) PROVE StillInv'
  <2>1. /\ state' \in {"START", "END"} => state # "READY"
        /\ state' \in States
        /\ mpc = "prompt" /\ mpc' = Handler(state')
    BY <1>7 DEF Command, NextState, States, TypeOK
  <2>2. mpc' \notin {"reset", "transfer"} => state' \in {"READY", "START", "END"}
    BY <2>1 DEF Handler, States
  <2>3. EndsStill(script')
    BY <1>7, HandlersEndStill DEF Command, EndsStill
  <2>4. UNCHANGED <<active, cpc, started, xpc, motor, errors>> /\ xpc["main"] = "begin"
    BY <1>7 DEF Command, MainInv
  <2>5. QED
    BY <2>1, <2>2, <2>3, <2>4 DEF EndsStill
<1>8. CASE EndOfInput
  BY <1>8 DEF EndOfInput
<1>9. CASE Reset
  BY <1>9, HandlersEndStill DEF Reset, EndsStill, MainInv
<1>10. CASE MainLock
  BY <1>10 DEF MainLock
<1>11. CASE StartSet
  BY <1>11 DEF StartSet
<1>12. CASE StartSignal
  BY <1>12 DEF StartSignal
<1>13. CASE StopSet
  BY <1>13 DEF StopSet
<1>14. CASE MainUnlock
  BY <1>14, HandlersEndStill DEF MainUnlock, EndsStill, MainInv
<1>15. CASE Cancel
  BY <1>15 DEF Cancel
<1>16. CASE Join
  BY <1>16 DEF Join
<1>17. CASE ControlPrint
  BY <1>17 DEF ControlPrint, ControlGoto
<1>18. CASE ControlLock
  BY <1>18 DEF ControlLock, ControlGoto
<1>19. CASE ControlTest
  BY <1>19 DEF ControlTest, ControlGoto
<1>20. CASE InitializeSubmodels
  BY <1>20 DEF InitializeSubmodels, ControlGoto
<1>21. CASE LoopTest
  BY <1>21 DEF LoopTest, ControlGoto
<1>22. CASE CalculateSubmodels
  BY <1>22 DEF CalculateSubmodels, ControlGoto
<1>23. CASE CheckActive
  BY <1>23 DEF CheckActive, ControlGoto
<1>24. CASE Wake
  BY <1>24 DEF Wake, ControlGoto
<1>25. CASE Cancelled
  <2>1. /\ cpc' = "done" /\ UNCHANGED <<state, active, mpc, script, started>>
        /\ UNCHANGED <<xpc, TXBuf, motor, errors>>
    BY <1>25 DEF Cancelled, ControlGoto
  <2>2. QED
    BY <2>1
<1>26. CASE SpuriousWakeup
  BY <1>26 DEF SpuriousWakeup, ControlGoto
<1>27. CASE UNCHANGED vars
  BY <1>27 DEF vars
<1>28. QED
  BY <1>1, <1>2, <1>3, <1>4, <1>5, <1>6, <1>7, <1>8, <1>9,
     <1>10, <1>11, <1>12, <1>13, <1>14, <1>15, <1>16, <1>17, <1>18,
     <1>19, <1>20, <1>21, <1>22, <1>23, <1>24, <1>25, <1>26, <1>27
  DEF Next, Operator, MainStep, ControlStep, Transfer

\* The program starts in StillInv.
LEMMA StillInit == Init => StillInv
  BY DEF Init, StillInv, MainSends, Running

-----------------------------------------------------------------------------
\* The program starts in JiwyInv.
LEMMA InvInit == Init => JiwyInv
<1> SUFFICES ASSUME Init PROVE JiwyInv
  OBVIOUS
<1>1. TypeOK
  <2>1. Mid \in Pair /\ \A p \in Pwm : Both(p) \in Pair
    BY DEF Mid, Both, Pair, Pwm
  <2>2. script \in Seq([pwm : Pair, slot : 0 .. 3])
    BY DEF Init
  <2>3. errors \in 0 .. MaxErrors /\ enc \subseteq 0 .. 3
    BY BoundsAssumption DEF Init
  <2>4. pwm \in Pair /\ TXBuf \in Pair /\ motor \in Pair
    BY <2>1 DEF Init
  <2>5. /\ platform \in Platforms /\ state \in States
        /\ active \in BOOLEAN /\ cancel \in BOOLEAN /\ started \in BOOLEAN
        /\ xpc \in [{"main", "control"} -> {"begin", "yaw", "send", "read"}]
    BY DEF Init, States
  <2>6. QED
    BY <2>2, <2>3, <2>4, <2>5 DEF Init, TypeOK, Free
<1>2. MainInv
  BY DEF Init, MainInv
<1>3. PhaseInv /\ HomedInv
  BY DEF Init, PhaseInv, HomedInv, Running
<1>4. QED
  BY <1>1, <1>2, <1>3 DEF JiwyInv

\* JiwyInv holds of every state of the application.
THEOREM JiwyInvariant == Spec => []JiwyInv
<1>1. JiwyInv /\ [Next]_vars => JiwyInv'
  BY TypeStep, MainStepKeeps, PhaseStep, HomedStep DEF JiwyInv
<1>2. QED
  BY <1>1, InvInit, PTL DEF Spec

\* Every variable keeps its type: the encoder settings have four entries and
\* none beyond them is written.
THEOREM TypeCorrect == Spec => []TypeOK
<1>1. JiwyInv => TypeOK
  BY DEF JiwyInv
<1>2. QED
  BY <1>1, JiwyInvariant, PTL

\* The control thread computes only with the ends that homing has measured
\* (main.c:130, hw_interface.c:216-230), whatever the operator types.
THEOREM HomedBeforeControl == Spec => []LoopOnlyWhenHomed
<1>1. JiwyInv => LoopOnlyWhenHomed
  BY DEF JiwyInv, PhaseInv, HomedInv, Running, LoopOnlyWhenHomed
<1>2. QED
  BY <1>1, JiwyInvariant, PTL

\* Before END main and the control thread never transfer at the same time, so
\* TXBuf (hw_interface.c:31) needs no lock until then.
THEOREM OneAtTheHardware == Spec => []HardwareExclusiveBeforeEnd
<1>1. JiwyInv => HardwareExclusiveBeforeEnd
  BY DEF JiwyInv, MainInv, PhaseInv, Running, HardwareExclusiveBeforeEnd, Calling
<1>2. QED
  BY <1>1, JiwyInvariant, PTL

\* Until state_start (main.c:239) the motors stand still whenever the program
\* waits for a command after init or has ended, unless a transfer failed.
THEOREM StillBeforeStart == Spec => []StillUnlessStarted
<1>1. JiwyInv /\ [Next]_vars => JiwyInv'
  BY TypeStep, MainStepKeeps, PhaseStep, HomedStep DEF JiwyInv
<1>2. StillInv => StillUnlessStarted
  BY DEF StillInv, StillUnlessStarted
<1>3. QED
  BY <1>1, <1>2, InvInit, StillInit, StillStep, PTL DEF Spec
=============================================================================
