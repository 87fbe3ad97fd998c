---------------------------- MODULE EncoderBench ----------------------------
(***************************************************************************)
(* A motor on the bench, its encoder connected to the CPU (CpuEncoder) or  *)
(* to the DE10 (De10Board).                                                *)
(***************************************************************************)
EXTENDS CpuEncoder, De10Board

VARIABLE setup  \* "cpu" or "de10"

vars == <<shaft, cpuVars, de10Vars, setup>>

Init ==
    /\ setup \in {"cpu", "de10"}
    /\ shaft \in 0 .. 3
    /\ CpuInit /\ De10Init
    /\ setup = "cpu" => core = 0
    /\ setup = "de10" => program = "motor_test"

Cpu == setup = "cpu" /\ CpuNext /\ UNCHANGED <<setup, de10Vars>>
De10 == setup = "de10" /\ De10Next /\ UNCHANGED <<setup, cpuVars>>

Next == Cpu \/ De10

\* A step of a program's thread, with everything else as it is.
Thread(A) == A /\ UNCHANGED <<setup, de10Vars>>

\* The scheduler runs every thread, and a thread that finds state_lock free
\* again and again gets it.
Fairness ==
    /\ WF_vars(Thread(main_thread))
    /\ WF_vars(Thread(controller_thread))
    /\ \A t \in Watchers :
         /\ WF_vars(Thread(watch_line(t)))
         /\ SF_vars(Thread(Lock(t)))

Spec == Init /\ [][Next]_vars /\ Fairness

-----------------------------------------------------------------------------
(* Properties.                                                             *)

\* Either decoder is in step with the shaft once it has caught up.
InStep == CpuInStep /\ De10InStep

\* The inductive invariant behind it.
BenchInv ==
    /\ shaft \in 0 .. Turns - 1
    /\ setup \in {"cpu", "de10"}
    /\ setup = "cpu" => base = NoBase
    /\ setup = "de10" => main = "open"
    /\ De10Inv /\ CpuInv

\* The shaft crosses an edge of line t.
EdgeOf(t) == Lines(shaft)[t] # Lines(shaft')[t]

\* A stop request ends motor_test, with the motor off, provided that both lines
\* go on having edges: a watcher waits for one without a timeout, and main joins
\* it before it takes the motor's drive away.
StopCompletes ==
    (\A t \in Watchers : []<><<EdgeOf(t)>>_shaft)
        => (stop_requested ~> main = "done" /\ ~drive)
=============================================================================
