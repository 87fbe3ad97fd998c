----------------------------- MODULE CpuEncoder -----------------------------
(***************************************************************************)
(* The bench programs that decode the encoder on the CPU: encoder_reader.c *)
(* and motor_test.c, which adds a controller and a shutdown.  A thread per *)
(* line waits for an edge of it; whichever has seen one reads both lines   *)
(* under state_lock and counts.  The edges of a line wait in a queue of    *)
(* the kernel, which drops them when it is full, and the shaft turns on    *)
(* between any two steps.                                                  *)
(***************************************************************************)
EXTENDS QuadShaft

CONSTANT MaxEvents  \* edges that the kernel keeps of a line (16)

ASSUME EventsAssumption == MaxEvents \in Nat \ {0}

Watchers == {1, 2}  \* thread_a and thread_b, the index of their line
None == 0

VARIABLES
    program,          \* "encoder_reader" or "motor_test"
    main, watcher, control,  \* where the threads are
    stop_requested,
    events,           \* of each line: edges not read
    state_lock,       \* its owner, or None
    new_a,            \* of each thread: line A as it read it
    last,             \* last_a and last_b
    position,         \* modulo Turns
    drive,            \* the wave drives the motor, in either direction
    parity,           \* history: of last when the threads start
    slow, origin      \* history: the shaft turned only in quiet moments so far,
                      \* and then where it was when the threads start

threads == <<program, main, watcher, control>>
decoder == <<events, state_lock, new_a, last, position, parity, slow, origin>>
cpuVars == <<program, main, watcher, control, stop_requested, events,
             state_lock, new_a, last, position, drive, parity, slow, origin>>

Requested == main \notin {"open", "done"}

\* Nothing is left to decode.
Quiet ==
    /\ main \notin {"open", "last_a", "last_b", "create", "done"}
    /\ events = [t \in Watchers |-> 0]
    /\ \A t \in Watchers : watcher[t] \in {"test", "wait", "end"}

-----------------------------------------------------------------------------
(* The environment: the shaft and a signal.                                *)

\* The lines change and the kernel notes the edge, if it has room.
CpuTurn(step) ==
    /\ Turn(step)
    /\ events' = [t \in Watchers |->
                    IF Requested /\ t \in Edges(step) /\ events[t] < MaxEvents
                    THEN events[t] + 1 ELSE events[t]]
    /\ slow' = (slow /\ Quiet)
    /\ origin' = IF slow' THEN origin ELSE 0
    /\ UNCHANGED <<threads, stop_requested, drive, state_lock, new_a, last,
                   position, parity>>

\* SIGINT or SIGTERM.  One thread handles it, the main thread or another one;
\* for a thread that waits for an edge the wait fails (EINTR) and it goes round.
handle_signal ==
    /\ program = "motor_test" /\ main # "done"
    /\ stop_requested' = TRUE
    /\ watcher' \in {watcher} \cup
         {[watcher EXCEPT ![t] = "test"] :
            t \in {u \in Watchers : watcher[u] = "wait"}}
    /\ UNCHANGED <<program, main, control, drive, decoder, shaft>>

-----------------------------------------------------------------------------
(* The main thread.                                                        *)

\* The chip and the lines; from here on edges are noted.  Opening may fail.
Open ==
    /\ main = "open" /\ main' \in {"last_a", "done"}
    /\ UNCHANGED <<program, watcher, control, stop_requested, drive,
                   decoder, shaft>>

LastA ==
    /\ main = "last_a" /\ main' = "last_b"
    /\ last' = [last EXCEPT ![1] = Lines(shaft)[1]]
    /\ UNCHANGED <<program, watcher, control, stop_requested, drive, events,
                   state_lock, new_a, position, parity, slow, origin, shaft>>

LastB ==
    /\ main = "last_b" /\ main' = "create"
    /\ last' = [last EXCEPT ![2] = Lines(shaft)[2]]
    /\ parity' = (last'[1] + last'[2]) % 2
    /\ origin' = IF slow THEN shaft ELSE 0
    /\ UNCHANGED <<program, watcher, control, stop_requested, drive, events,
                   state_lock, new_a, position, slow, shaft>>

\* motor_test gives up when pigpio does not start.
Create ==
    /\ main = "create"
    /\ \/ /\ main' = IF program = "motor_test" THEN "join_control" ELSE "print"
          /\ watcher' = [t \in Watchers |-> "test"]
          /\ control' = IF program = "motor_test" THEN "test" ELSE control
       \/ /\ program = "motor_test"
          /\ main' = "done" /\ UNCHANGED <<watcher, control>>
    /\ UNCHANGED <<program, stop_requested, drive,
                   decoder, shaft>>

\* The threads are joined in this order; then cleanup ends the wave.
Join ==
    /\ \/ main = "join_control" /\ control = "end" /\ main' = "join_a"
       \/ main = "join_a" /\ watcher[1] = "end" /\ main' = "join_b"
       \/ main = "join_b" /\ watcher[2] = "end" /\ main' = "cleanup"
    /\ UNCHANGED <<program, watcher, control, stop_requested, drive,
                   decoder, shaft>>

cleanup ==
    /\ main = "cleanup" /\ main' = "done" /\ drive' = FALSE
    /\ UNCHANGED <<program, watcher, control, stop_requested, decoder, shaft>>

-----------------------------------------------------------------------------
(* The threads of the lines.                                               *)

\* Mutant of Test: the loop of encoder_reader, without an end.
TestAlways(t) ==
    /\ watcher[t] = "test"
    /\ watcher' = [watcher EXCEPT ![t] = "wait"]
    /\ UNCHANGED <<program, main, control, stop_requested, drive,
                   decoder, shaft>>

Test(t) ==
    /\ watcher[t] = "test"
    /\ watcher' = [watcher EXCEPT
                      ![t] = IF stop_requested THEN "end" ELSE "wait"]
    /\ UNCHANGED <<program, main, control, stop_requested, drive,
                   decoder, shaft>>

\* An edge is there and is read.
Event(t) ==
    /\ watcher[t] = "wait" /\ events[t] > 0
    /\ watcher' = [watcher EXCEPT ![t] = "lock"]
    /\ events' = [events EXCEPT ![t] = @ - 1]
    /\ UNCHANGED <<program, main, control, stop_requested, drive, state_lock,
                   new_a, last, position, parity, slow, origin, shaft>>

Locked(t) ==
    /\ watcher[t] = "lock"
    /\ watcher' = [watcher EXCEPT ![t] = "read_a"]
    /\ state_lock' = t
    /\ UNCHANGED <<program, main, control, stop_requested, drive, events, new_a,
                   last, position, parity, slow, origin, shaft>>

\* Mutant of Lock: the lock is free for everyone.
LockIgnored(t) == Locked(t)

Lock(t) == state_lock = None /\ Locked(t)

ReadA(t) ==
    /\ watcher[t] = "read_a"
    /\ watcher' = [watcher EXCEPT ![t] = "read_b"]
    /\ new_a' = [new_a EXCEPT ![t] = Lines(shaft)[1]]
    /\ UNCHANGED <<program, main, control, stop_requested, drive, events,
                   state_lock, last, position, parity, slow, origin, shaft>>

\* Line B is read, the transition is counted and the lock is given back.
process_transition(t) ==
    LET curr == <<new_a[t], Lines(shaft)[2]>>
    IN /\ watcher[t] = "read_b"
       /\ watcher' = [watcher EXCEPT ![t] = "test"]
       /\ position' = (position + Delta(last, curr)) % Turns
       /\ last' = curr
       /\ state_lock' = None
       /\ new_a' = [new_a EXCEPT ![t] = 0]
       /\ UNCHANGED <<program, main, control, stop_requested, drive, events,
                      parity, slow, origin, shaft>>

watch_line(t) ==
    Test(t) \/ Event(t) \/ Lock(t) \/ ReadA(t) \/ process_transition(t)

\* A round of the controller of motor_test, which may drive or not.
controller_thread ==
    /\ control = "test"
    /\ IF stop_requested THEN control' = "end" /\ UNCHANGED drive
                         ELSE drive' \in BOOLEAN /\ UNCHANGED control
    /\ UNCHANGED <<program, main, watcher, stop_requested, decoder, shaft>>

-----------------------------------------------------------------------------
CpuInit ==
    /\ program \in {"encoder_reader", "motor_test"}
    /\ main = "open" /\ control = "off"
    /\ watcher = [t \in Watchers |-> "off"]
    /\ stop_requested = FALSE
    /\ events = [t \in Watchers |-> 0] /\ new_a = [t \in Watchers |-> 0]
    /\ state_lock = None
    /\ last = <<0, 0>> /\ position = 0
    /\ drive = FALSE
    /\ parity = 0 /\ slow = TRUE /\ origin = 0

main_thread == Open \/ LastA \/ LastB \/ Create \/ Join \/ cleanup

CpuNext ==
    \/ \E step \in {-1, 1} : CpuTurn(step)
    \/ handle_signal
    \/ main_thread
    \/ \E t \in Watchers : watch_line(t)
    \/ controller_thread

-----------------------------------------------------------------------------
(* Properties.                                                             *)

\* When no edge is left to decode, the decoder knows the lines as they are,
\* however fast the shaft turned and whatever the kernel dropped; the position
\* has not slipped by one line against them (a double step is lost whole); and
\* a shaft that waited for each count is where the position says.
CpuInStep ==
    Quiet =>
        /\ last = Lines(shaft)
        /\ (position + parity + last[1] + last[2]) % 2 = 0
        /\ slow => position = (shaft - origin) % Turns

\* The inductive invariant behind it.  LockInv: state_lock keeps the threads
\* apart while they read the lines, and before they start nothing is counted.
\* NoticedInv: a line that is not as the decoder knows it has an edge in the
\* kernel's queue, or a thread is about to read it.  ParityInv: a count changes
\* one line and the position by one, or neither by an odd number.  SlowInv: a
\* shaft that waits is at most one step ahead, and that step is under way once.
Starting == {"open", "last_a", "last_b", "create"}
Reading == {"lock", "read_a", "read_b"}

CpuTypeOK ==
    /\ main \in Starting \cup {"print", "join_control", "join_a", "join_b",
                               "cleanup", "done"}
    /\ watcher \in [Watchers -> Reading \cup {"off", "test", "wait", "end"}]
    /\ events \in [Watchers -> 0 .. MaxEvents]
    /\ state_lock \in Watchers \cup {None}
    /\ new_a \in [Watchers -> 0 .. 1]
    /\ last \in {<<a, b>> : a \in 0 .. 1, b \in 0 .. 1}
    /\ position \in 0 .. Turns - 1
    /\ parity \in 0 .. 1 /\ slow \in BOOLEAN /\ origin \in 0 .. Turns - 1

LockInv ==
    /\ \A t \in Watchers : watcher[t] \in {"read_a", "read_b"} => state_lock = t
    /\ main \in Starting =>
         /\ \A t \in Watchers : watcher[t] = "off"
         /\ position = 0

Noticed1 ==
    \/ events[1] > 0
    \/ \E t \in Watchers : watcher[t] \in {"lock", "read_a"}
    \/ \E t \in Watchers : watcher[t] = "read_b" /\ new_a[t] = Lines(shaft)[1]
    \/ last[1] = Lines(shaft)[1] /\ \A t \in Watchers : watcher[t] # "read_b"

Noticed2 ==
    \/ events[2] > 0
    \/ \E t \in Watchers : watcher[t] \in Reading
    \/ last[2] = Lines(shaft)[2]

NoticedInv ==
    /\ main \notin {"open", "last_a", "done"} => Noticed1
    /\ main \notin {"open", "last_a", "last_b", "done"} => Noticed2

ParityInv ==
    main \notin {"open", "last_a", "last_b", "done"}
        => (position + parity + last[1] + last[2]) % 2 = 0

\* Nothing is noticed, or exactly one edge that is now being decoded.
NoneNoticed == \A t \in Watchers : events[t] = 0 /\ watcher[t] \notin Reading

OneNoticed ==
    \E t \in Watchers :
        /\ events[3 - t] = 0
        /\ \/ /\ events[t] = 1
              /\ \A u \in Watchers : watcher[u] \notin Reading
           \/ /\ events[t] = 0
              /\ watcher[t] \in Reading /\ watcher[3 - t] \notin Reading
              /\ watcher[t] = "read_b" => new_a[t] = Lines(shaft)[1]

DecodedTo(x) == last = Lines(x) /\ position = (x - origin) % Turns

SlowInv ==
    slow =>
        /\ main \in Starting => NoneNoticed
        /\ main \notin {"open", "last_a", "last_b", "done"} =>
             \/ NoneNoticed /\ DecodedTo(shaft)
             \/ OneNoticed /\ \E y \in 0 .. Turns - 1 :
                                 shaft \in Beside(y) /\ DecodedTo(y)

CpuInv == CpuTypeOK /\ LockInv /\ NoticedInv /\ ParityInv /\ SlowInv
=============================================================================
