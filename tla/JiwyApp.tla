------------------------------- MODULE JiwyApp -------------------------------
(***************************************************************************)
(* The application of the pan/tilt head (app/src/main.c, hw_interface.c):  *)
(* the main thread reads the operator's commands and runs the state        *)
(* machine READY, INIT, HOME, START, END; the control thread sleeps on     *)
(* start_cond until "start" and then writes a PWM pair and reads the       *)
(* encoders in every round.  Both write the same FPGA registers.           *)
(*                                                                         *)
(* A PWM value is abstracted to its side of PWM_MID_POINT, where the motor *)
(* stands still.  What the control law computes is any pair (the law is    *)
(* not part of this module), encoder values are left out and only which    *)
(* entries of the encoder settings have been read is kept.                 *)
(***************************************************************************)
EXTENDS Naturals, Sequences

CONSTANTS Platforms,     \* builds considered: a subset of {"RPI", "DE10"}
          HomingWrites,  \* bound: rounds of each homing loop (1000 in the code)
          MaxErrors      \* bound: SPI transfers that fail in a behaviour

ASSUME PlatformsAssumption == Platforms \subseteq {"RPI", "DE10"}
ASSUME BoundsAssumption == HomingWrites \in Nat \ {0} /\ MaxErrors \in Nat

VARIABLES
    platform,  \* the build
    state,     \* current_state
    active,    \* start_thread_active
    lock,      \* the owner of start_thread_lock, or Free
    mpc, cpc,  \* where the main and the control thread are
    script,    \* the transfers that the handler in main has yet to make
    pwm,       \* pitch_pwm, yaw_pwm: locals of the control thread
    cancel,    \* pthread_cancel(start_thread) was called
    xpc,       \* per thread: where it is inside read_write_encoder_pwm
    TXBuf,     \* the SPI send buffer, one for both threads (RPI)
    motor,     \* the PWM pair in the registers of the FPGA
    enc,       \* the entries of the encoder settings that were read
    errors,    \* history: transfers that failed
    started    \* history: state_start ran

threadVars == <<state, active, lock, mpc, cpc, script, pwm, cancel, started>>
hwVars == <<xpc, TXBuf, motor, enc, errors>>
vars == <<platform, state, active, lock, mpc, cpc, script, pwm, cancel, xpc,
          TXBuf, motor, enc, errors, started>>

Free == "free"
Pwm == {"neg", "mid", "pos"}
Pair == [pitch : Pwm, yaw : Pwm]
Both(p) == [pitch |-> p, yaw |-> p]
Mid == Both("mid")
States == {"READY", "INIT", "HOME", "START", "END"}
Commands == {"init", "home", "start", "end", "other"}

-----------------------------------------------------------------------------
(* The transfers that each handler makes, with the entry of the encoder    *)
(* settings that the answer goes to: start 0, begin 1, end 2, current 3.   *)

Write(p, slot) == [pwm |-> Both(p), slot |-> slot]
Times(n, w) == [i \in 1 .. n |-> w]

init_fpga == <<Write("mid", 3)>>

\* Mutant of homing_sequence: the end goes to the entry after the last one.
homing_sequence_off_by_two ==
    <<Write("mid", 0)>>
    \o Times(HomingWrites, Write("neg", 1)) \o Times(2, Write("mid", 1))
    \o Times(HomingWrites, Write("pos", 4)) \o Times(2, Write("mid", 4))

\* Mutant of homing_sequence: the motors are not stopped at the second end.
homing_sequence_no_stop ==
    <<Write("mid", 0)>>
    \o Times(HomingWrites, Write("neg", 1)) \o Times(2, Write("mid", 1))
    \o Times(HomingWrites, Write("pos", 2))

homing_sequence ==
    <<Write("mid", 0)>>
    \o Times(HomingWrites, Write("neg", 1)) \o Times(2, Write("mid", 1))
    \o Times(HomingWrites, Write("pos", 2)) \o Times(2, Write("mid", 2))
state_end == <<Write("mid", 3)>>

-----------------------------------------------------------------------------
(* read_write_encoder_pwm, called by the main or by the control thread.    *)

\* The thread is at such a call, with this pair.
Calling(t) ==
    IF t = "main" THEN mpc = "transfer"
                  ELSE cpc \in {"first_transfer", "loop_transfer"}
Arg(t) == IF t = "main" THEN Head(script).pwm ELSE pwm

\* RPI: the four bytes go into TXBuf, the pitch half first.
FillPitch(t) ==
    /\ platform = "RPI" /\ Calling(t) /\ xpc[t] = "begin"
    /\ TXBuf' = [TXBuf EXCEPT !.pitch = Arg(t).pitch]
    /\ xpc' = [xpc EXCEPT ![t] = "yaw"]
    /\ UNCHANGED <<platform, threadVars, motor, enc, errors>>

FillYaw(t) ==
    /\ xpc[t] = "yaw"
    /\ TXBuf' = [TXBuf EXCEPT !.yaw = Arg(t).yaw]
    /\ xpc' = [xpc EXCEPT ![t] = "send"]
    /\ UNCHANGED <<platform, threadVars, motor, enc, errors>>

\* RPI: spiXfer sends what TXBuf holds now.  If the ioctl fails nothing is
\* sent, and the caller does not look at the result.
Send(t) ==
    /\ xpc[t] = "send"
    /\ \/ motor' = TXBuf /\ UNCHANGED errors
       \/ errors < MaxErrors /\ errors' = errors + 1 /\ UNCHANGED motor
    /\ xpc' = [xpc EXCEPT ![t] = "read"]
    /\ UNCHANGED <<platform, threadVars, TXBuf, enc>>

\* DE10: one 32-bit store to base[0] writes both values.
StoreRegister(t) ==
    /\ platform = "DE10" /\ Calling(t) /\ xpc[t] = "begin"
    /\ motor' = Arg(t)
    /\ xpc' = [xpc EXCEPT ![t] = "read"]
    /\ UNCHANGED <<platform, threadVars, TXBuf, enc, errors>>

\* The encoder values are stored and the call returns.
MainRead ==
    /\ xpc["main"] = "read"
    /\ enc' = enc \cup {Head(script).slot}
    /\ xpc' = [xpc EXCEPT !["main"] = "begin"]
    /\ script' = Tail(script)
    /\ mpc' = IF Len(script) > 1 THEN "transfer"
              ELSE IF state = "END" THEN "cancel" ELSE "prompt"
    /\ UNCHANGED <<platform, state, active, lock, cpc, pwm, cancel, started,
                   TXBuf, motor, errors>>

ControlRead ==
    /\ xpc["control"] = "read"
    /\ enc' = enc \cup {3}
    /\ xpc' = [xpc EXCEPT !["control"] = "begin"]
    /\ cpc' = IF cpc = "first_transfer" THEN "initialize" ELSE "check"
    /\ UNCHANGED <<platform, state, active, lock, mpc, script, pwm, cancel,
                   started, TXBuf, motor, errors>>

Transfer(t) == FillPitch(t) \/ FillYaw(t) \/ Send(t) \/ StoreRegister(t)

-----------------------------------------------------------------------------
(* The main thread.                                                        *)

\* Mutant of NextState: "start" is taken before homing.
NextStateEarlyStart(c) ==
    CASE c = "init" /\ state = "READY" -> "INIT"
      [] c = "home" /\ state = "INIT" -> "HOME"
      [] c = "start" /\ state \in {"INIT", "HOME"} -> "START"
      [] c = "end" /\ state \in {"HOME", "START"} -> "END"
      [] OTHER -> state

\* Mutant of NextState: "home" is taken while the control thread runs.
NextStateRehome(c) ==
    CASE c = "init" /\ state = "READY" -> "INIT"
      [] c = "home" /\ state \in {"INIT", "START"} -> "HOME"
      [] c = "start" /\ state = "HOME" -> "START"
      [] c = "end" /\ state \in {"HOME", "START"} -> "END"
      [] OTHER -> state

\* The state that a command leads to; a command that does not fit leaves it.
NextState(c) ==
    CASE c = "init" /\ state = "READY" -> "INIT"
      [] c = "home" /\ state = "INIT" -> "HOME"
      [] c = "start" /\ state = "HOME" -> "START"
      [] c = "end" /\ state \in {"HOME", "START"} -> "END"
      [] OTHER -> state

\* The handler that the switch runs, also when the command was invalid.
Handler(s) ==
    CASE s = "READY" -> "prompt"
      [] s = "INIT" -> "reset"
      [] s = "HOME" -> "transfer"
      [] s = "START" -> "start_lock"
      [] s = "END" -> "stop_lock"

\* In the code stop_start_thread comes before current_state = STATE_END; no
\* other thread looks at the state, so here it changes with the command.
Command(c) ==
    /\ mpc = "prompt"
    /\ state' = NextState(c)
    /\ mpc' = Handler(state')
    /\ script' = IF state' = "HOME" THEN homing_sequence ELSE <<>>
    /\ UNCHANGED <<platform, active, lock, cpc, pwm, cancel, started, hwVars>>

\* readline returned NULL: the loop ends without state_end.
EndOfInput ==
    /\ mpc = "prompt"
    /\ mpc' = "cancel"
    /\ UNCHANGED <<platform, state, active, lock, cpc, script, pwm, cancel,
                   started, hwVars>>

\* reset_fpga: a pulse on the reset line (RPI; the line may not be had, which
\* nobody looks at) or a store of the mid points (DE10).  init_fpga goes on
\* with a transfer.
Reset ==
    /\ mpc = "reset"
    /\ \/ motor' = Mid
       \/ platform = "RPI" /\ UNCHANGED motor
    /\ mpc' = "transfer"
    /\ script' = init_fpga
    /\ UNCHANGED <<platform, state, active, lock, cpc, pwm, cancel, started,
                   xpc, TXBuf, enc, errors>>

\* state_start and stop_start_thread: lock, set the flag, signal, unlock.
MainLock ==
    /\ mpc \in {"start_lock", "stop_lock"}
    /\ lock = Free
    /\ lock' = "main"
    /\ mpc' = IF mpc = "start_lock" THEN "start_set" ELSE "stop_set"
    /\ UNCHANGED <<platform, state, active, cpc, script, pwm, cancel, started,
                   hwVars>>

StartSet ==
    /\ mpc = "start_set"
    /\ active' = TRUE
    /\ started' = TRUE
    /\ mpc' = "start_signal"
    /\ UNCHANGED <<platform, state, lock, cpc, script, pwm, cancel, hwVars>>

\* Mutant of StartSignal: the condition is not signalled.
StartNoSignal ==
    /\ mpc = "start_signal"
    /\ mpc' = "unlock"
    /\ UNCHANGED <<platform, state, active, lock, cpc, script, pwm, cancel,
                   started, hwVars>>

StartSignal ==
    /\ mpc = "start_signal"
    /\ cpc' = IF cpc = "wait" THEN "relock" ELSE cpc
    /\ mpc' = "unlock"
    /\ UNCHANGED <<platform, state, active, lock, script, pwm, cancel, started,
                   hwVars>>

StopSet ==
    /\ mpc = "stop_set"
    /\ active' = FALSE
    /\ mpc' = "unlock"
    /\ UNCHANGED <<platform, state, lock, cpc, script, pwm, cancel, started,
                   hwVars>>

\* After stop_start_thread comes state_end, after state_start the prompt.
MainUnlock ==
    /\ mpc = "unlock"
    /\ lock' = Free
    /\ mpc' = IF state = "END" THEN "transfer" ELSE "prompt"
    /\ script' = IF state = "END" THEN state_end ELSE <<>>
    /\ UNCHANGED <<platform, state, active, cpc, pwm, cancel, started, hwVars>>

\* Mutant of Cancel: main joins the control thread without cancelling it.
CancelNothing ==
    /\ mpc = "cancel"
    /\ mpc' = "join"
    /\ UNCHANGED <<platform, state, active, lock, cpc, script, pwm, cancel,
                   started, hwVars>>

Cancel ==
    /\ mpc = "cancel"
    /\ cancel' = TRUE
    /\ mpc' = "join"
    /\ UNCHANGED <<platform, state, active, lock, cpc, script, pwm, started,
                   hwVars>>

Join ==
    /\ mpc = "join"
    /\ cpc = "done"
    /\ mpc' = "exit"
    /\ UNCHANGED <<platform, state, active, lock, cpc, script, pwm, cancel,
                   started, hwVars>>

-----------------------------------------------------------------------------
(* The control thread.                                                     *)

ControlGoto(from, to) ==
    /\ cpc = from
    /\ cpc' = to
    /\ UNCHANGED <<platform, state, active, mpc, script, cancel, started, hwVars>>

\* The thread prints its scales.
ControlPrint == ControlGoto("print", "lock") /\ UNCHANGED <<lock, pwm>>

ControlLock ==
    /\ ControlGoto("lock", "test") \/ ControlGoto("relock", "test")
    /\ lock = Free
    /\ lock' = "control"
    /\ UNCHANGED pwm

\* while (!start_thread_active) pthread_cond_wait(...)
ControlTest ==
    /\ lock' = Free
    /\ \/ ~active /\ ControlGoto("test", "wait")
       \/ active /\ ControlGoto("test", "first_transfer")
    /\ UNCHANGED pwm

\* POSIX lets the wait end unsignalled; a pending cancellation comes first.
SpuriousWakeup ==
    /\ ~cancel
    /\ ControlGoto("wait", "relock")
    /\ UNCHANGED <<lock, pwm>>

\* The submodels are initialised from the first position.
InitializeSubmodels == ControlGoto("initialize", "loop") /\ UNCHANGED <<lock, pwm>>

\* while (start_thread_active): one round computes the next pair, or the
\* thread goes back to wait.
LoopTest ==
    /\ \/ active /\ ControlGoto("loop", "calculate")
       \/ ~active /\ ControlGoto("loop", "lock")
    /\ UNCHANGED <<lock, pwm>>

CalculateSubmodels ==
    /\ ControlGoto("calculate", "loop_transfer")
    /\ pwm' \in Pair
    /\ UNCHANGED lock

\* if (!start_thread_active) return NULL; else usleep.
CheckActive ==
    /\ \/ active /\ ControlGoto("check", "sleep")
       \/ ~active /\ ControlGoto("check", "done")
    /\ UNCHANGED <<lock, pwm>>

\* usleep is over; it does not return with a cancellation pending.
Wake ==
    /\ ~cancel
    /\ ControlGoto("sleep", "loop")
    /\ UNCHANGED <<lock, pwm>>

\* Deferred cancellation: in usleep, in printf, or in pthread_cond_wait, which
\* takes the mutex before the thread dies and so leaves it locked.
Cancelled ==
    /\ cancel
    /\ \/ ControlGoto("print", "done") /\ UNCHANGED lock
       \/ ControlGoto("sleep", "done") /\ UNCHANGED lock
       \/ ControlGoto("initialize", "done") /\ UNCHANGED lock
       \/ ControlGoto("wait", "done") /\ lock = Free /\ lock' = "control"
    /\ UNCHANGED pwm

-----------------------------------------------------------------------------
\* A register that a run before this one may have left anywhere.
Init ==
    /\ platform \in Platforms
    /\ state = "READY"
    /\ active = FALSE
    /\ lock = Free
    /\ mpc = "prompt" /\ cpc = "print"
    /\ script = <<>>
    /\ pwm = Mid
    /\ cancel = FALSE
    /\ xpc = [t \in {"main", "control"} |-> "begin"]
    /\ TXBuf = Mid
    /\ motor \in {Both(p) : p \in Pwm}
    /\ enc = {}
    /\ errors = 0
    /\ started = FALSE

Operator == EndOfInput \/ \E c \in Commands : Command(c)

MainStep ==
    \/ Transfer("main") \/ MainRead \/ Reset
    \/ MainLock \/ StartSet \/ StartSignal \/ StopSet \/ MainUnlock
    \/ Cancel \/ Join

ControlStep ==
    \/ Transfer("control") \/ ControlRead
    \/ ControlPrint \/ ControlLock \/ ControlTest \/ InitializeSubmodels \/ LoopTest
    \/ CalculateSubmodels \/ CheckActive \/ Wake \/ Cancelled

Next == Operator \/ MainStep \/ ControlStep \/ SpuriousWakeup

\* The threads keep running, and a thread blocked on the mutex gets it if it
\* is free again and again.  Nothing is assumed of the operator.
Fairness ==
    /\ WF_vars(MainStep)
    /\ WF_vars(ControlStep)
    /\ SF_vars(MainLock)
    /\ SF_vars(ControlLock)

Spec == Init /\ [][Next]_vars /\ Fairness

-----------------------------------------------------------------------------
(* Properties.                                                             *)

\* Every variable has its type; of the encoder settings only the entries 0 to
\* 3 that were allocated are ever written, and a thread is inside a transfer
\* only at one of its steps.
TypeOK ==
    /\ platform \in Platforms
    /\ state \in States
    /\ active \in BOOLEAN /\ cancel \in BOOLEAN /\ started \in BOOLEAN
    /\ lock \in {"main", "control", Free}
    /\ mpc \in {"prompt", "reset", "transfer", "start_lock", "stop_lock",
                "start_set", "stop_set", "start_signal", "unlock", "cancel",
                "join", "exit"}
    /\ cpc \in {"print", "lock", "relock", "test", "wait", "first_transfer",
                "initialize", "loop", "calculate", "loop_transfer", "check",
                "sleep", "done"}
    /\ script \in Seq([pwm : Pair, slot : 0 .. 3])
    /\ pwm \in Pair /\ TXBuf \in Pair /\ motor \in Pair
    /\ xpc \in [{"main", "control"} -> {"begin", "yaw", "send", "read"}]
    /\ enc \subseteq 0 .. 3
    /\ errors \in 0 .. MaxErrors

\* The control thread computes only when homing has read both ends of each
\* axis: get_rad_from_encoder never works on limits that were not measured.
LoopOnlyWhenHomed ==
    cpc \in {"initialize", "loop", "calculate", "loop_transfer", "check", "sleep"}
        => {1, 2} \subseteq enc

\* The two threads are inside read_write_encoder_pwm together, sharing TXBuf
\* and the registers, only in END: nothing but the order of the states keeps
\* them apart.
HardwareExclusiveBeforeEnd == Calling("main") /\ Calling("control") => state = "END"

\* The inductive invariant behind these two.  MainInv: which handlers belong to
\* which state, and that a transfer of main has something to send.  PhaseInv:
\* the control thread is asleep or not yet waiting before START.  HomedInv: a
\* homing that is over, and so START and END, has read both ends of each axis;
\* one that is under way has them in what it has yet to do.
Running == {"first_transfer", "initialize", "loop", "calculate",
            "loop_transfer", "check", "sleep"}

MainInv ==
    /\ mpc = "reset" => state = "INIT"
    /\ mpc = "transfer" => state \in {"INIT", "HOME", "END"} /\ script # <<>>
    /\ mpc \in {"start_lock", "start_set", "start_signal"} => state = "START"
    /\ mpc \in {"stop_lock", "stop_set"} => state = "END"
    /\ mpc = "unlock" => state \in {"START", "END"}
    /\ xpc["main"] # "begin" => mpc = "transfer"

PhaseInv ==
    /\ active \/ cpc \in Running => state \in {"START", "END"}
    /\ xpc["control"] # "begin" => cpc \in {"first_transfer", "loop_transfer"}

SlotsToRead == {script[i].slot : i \in DOMAIN script}

HomedInv ==
    /\ state \in {"START", "END"} => {1, 2} \subseteq enc
    /\ state = "HOME" /\ mpc # "transfer" => {1, 2} \subseteq enc
    /\ state = "HOME" => {1, 2} \subseteq enc \cup SlotsToRead

JiwyInv == TypeOK /\ MainInv /\ PhaseInv /\ HomedInv

\* Until the control thread is started, the motors stand still whenever the
\* program is waiting for a command after init or has ended: homing, repeated
\* by an invalid command or not, always ends at the mid point.  A transfer
\* that failed is the exception.
StillUnlessStarted ==
    mpc \in {"prompt", "exit"} /\ state # "READY" /\ ~started /\ errors = 0
        => motor = Mid

\* The inductive invariant behind StillUnlessStarted: the control thread stays
\* away until state_start, every list of transfers ends at the mid point, and
\* what is in TXBuf and then in the registers is what main is sending.
MainSends ==
    /\ xpc["main"] = "yaw" => TXBuf.pitch = Head(script).pwm.pitch
    /\ xpc["main"] = "send" => TXBuf = Head(script).pwm
    /\ xpc["main"] = "read" /\ errors = 0 => motor = Head(script).pwm

StillInv ==
    /\ active \/ cpc \in Running => started
    /\ script # <<>> => script[Len(script)].pwm = Mid
    /\ ~started => MainSends
    /\ mpc \notin {"reset", "transfer"} /\ state # "READY" /\ ~started /\ errors = 0
        => motor = Mid

\* "start" reaches the control thread, wherever it was when start_cond was
\* signalled, unless the program is ended first.
StartTakesEffect ==
    state = "START" ~> cpc = "loop_transfer" \/ mpc \in {"cancel", "join", "exit"}
                       \/ state = "END"

\* Once the command loop is left, by "end" or at the end of the input, the
\* control thread ends and main returns from pthread_join.
EndsOnRequest == state = "END" \/ mpc = "cancel" ~> mpc = "exit"

\* "[END] Stopping system and exiting" (main.c:64): when the program has ended
\* after the command "end" the motors stand still.
StoppedAtEnd == mpc = "exit" /\ state = "END" => motor = Mid
=============================================================================
