--------------------------- MODULE GreenMaskQueue ---------------------------
(***************************************************************************)
(* The queue of green masks between the two image threads.                *)
(*                                                                         *)
(* green_mask_thread (green_mask.c) pulls a camera sample, thresholds it  *)
(* into its local green_mask and copies that into the ring                 *)
(* green_mask_queue; com_calculator_thread (com_calculator.c) copies the   *)
(* oldest mask out and computes its centre of mass.  The ring is guarded   *)
(* by one mutex and the condition variables not_full and not_empty.        *)
(*                                                                         *)
(* A mask is abstracted to the number of the camera frame it was computed  *)
(* from; 0 is the content of green_mask before any frame was mapped.       *)
(* Every statement group that another thread could see apart from its      *)
(* neighbours is a step of its own, inside the mutex too, so that the      *)
(* mutex is what makes the model correct and not the size of its steps.    *)
(***************************************************************************)
EXTENDS Naturals, Sequences

CONSTANTS GREEN_MASK_QUEUE_SIZE,  \* slots of the ring (config.mk: 5)
          MaxFrames               \* bound: masks the producer handles in a behaviour

ASSUME SizeAssumption == GREEN_MASK_QUEUE_SIZE \in Nat \ {0}
ASSUME FramesAssumption == MaxFrames \in Nat

VARIABLES
    queue,         \* green_mask_queue: slot -> mask
    front, rear,   \* green_mask_queue_front, green_mask_queue_rear
    count,         \* green_mask_queue_count
    mutex,         \* the owner of green_mask_queue_mutex, or Free
    pc,            \* where each thread is
    green_mask,    \* local of the producer
    mask,          \* local of the consumer
    com,           \* the mask of the last centre of mass computed
    stop,          \* stop_image_processing
    produced,      \* history: masks the producer copied in, oldest first
    taken     \* history: how many masks the consumer has taken

dataVars == <<queue, front, rear, count>>
histVars == <<produced, taken>>
queueVars == <<queue, front, rear, count, mutex, pc, green_mask, mask, com,
               stop, produced, taken>>

Threads == {"green", "com"}
Free == "free"
Slots == 0 .. GREEN_MASK_QUEUE_SIZE - 1
Frames == 0 .. MaxFrames

Other(t) == IF t = "green" THEN "com" ELSE "green"

\* Mutant of Succ: the index is not taken modulo the size.
SuccNoWrap(i) == i + 1

\* (i + 1) % GREEN_MASK_QUEUE_SIZE, for front and for rear.
Succ(i) == (i + 1) % GREEN_MASK_QUEUE_SIZE

Goto(t, label) == pc' = [pc EXCEPT ![t] = label]

-----------------------------------------------------------------------------
(* The producer, from its set-up to the moment it wants the mutex.         *)

\* gst elements, links and the state change to PLAYING: any of them may fail,
\* and then the thread returns NULL.
GreenSetup ==
    /\ pc["green"] = "setup"
    /\ Goto("green", "pull") \/ Goto("green", "exit")
    /\ UNCHANGED <<dataVars, mutex, green_mask, mask, com, stop, histVars>>

\* gst_app_sink_try_pull_sample returned NULL after two seconds: continue.
NoSample ==
    /\ pc["green"] = "pull"
    /\ UNCHANGED queueVars

\* A sample arrived.  If gst_buffer_map succeeds green_mask is recomputed;
\* if it fails the thread goes on with the green_mask of the round before.
PullSample ==
    /\ pc["green"] = "pull"
    /\ Len(produced) < MaxFrames
    /\ \/ green_mask' = Len(produced) + 1
       \/ UNCHANGED green_mask
    /\ Goto("green", "lock")
    /\ UNCHANGED <<dataVars, mutex, mask, com, stop, histVars>>

-----------------------------------------------------------------------------
(* The monitor, the same for both threads.                                 *)

\* Mutant of Lock: the mutex is taken although somebody holds it.
LockAnyway(t) ==
    /\ pc[t] \in {"lock", "relock"}
    /\ mutex' = t
    /\ Goto(t, "test")
    /\ UNCHANGED <<dataVars, green_mask, mask, com, stop, histVars>>

\* Mutant of Lock: an if in place of the producer's while around the wait.
LockNoRetest(t) ==
    /\ pc[t] \in {"lock", "relock"}
    /\ mutex = Free
    /\ mutex' = t
    /\ Goto(t, IF t = "green" /\ pc[t] = "relock" THEN "copy" ELSE "test")
    /\ UNCHANGED <<dataVars, green_mask, mask, com, stop, histVars>>

\* pthread_mutex_lock, on entry or when pthread_cond_wait returns.
Lock(t) ==
    /\ pc[t] \in {"lock", "relock"}
    /\ mutex = Free
    /\ mutex' = t
    /\ Goto(t, "test")
    /\ UNCHANGED <<dataVars, green_mask, mask, com, stop, histVars>>

\* The condition of the while loop around pthread_cond_wait.
MustWait(t) ==
    IF t = "green" THEN count = GREEN_MASK_QUEUE_SIZE ELSE count = 0

\* Mutant of Test: a thread sleeps with the mutex in its hands.
TestKeepsMutex(t) ==
    /\ pc[t] = "test"
    /\ Goto(t, IF MustWait(t) THEN "wait" ELSE "copy")
    /\ UNCHANGED <<dataVars, mutex, green_mask, mask, com, stop, histVars>>

\* One test of that condition: wait (the mutex is released) or go on.
Test(t) ==
    /\ pc[t] = "test"
    /\ \/ /\ MustWait(t)
          /\ mutex' = Free
          /\ Goto(t, "wait")
       \/ /\ ~MustWait(t)
          /\ Goto(t, "copy")
          /\ UNCHANGED mutex
    /\ UNCHANGED <<dataVars, green_mask, mask, com, stop, histVars>>

\* POSIX lets pthread_cond_wait return although nobody signalled.
SpuriousWakeup(t) ==
    /\ pc[t] = "wait"
    /\ Goto(t, "relock")
    /\ UNCHANGED <<dataVars, mutex, green_mask, mask, com, stop, histVars>>

\* pthread_cond_signal: each condition variable has one thread that waits on
\* it, the other one.  A signal nobody waits for is lost.
Woken(t) == IF pc[t] = "wait" THEN "relock" ELSE pc[t]

\* Mutant of Signal: each thread signals the condition it waits on itself.
SignalWrongCondition(t) ==
    /\ pc[t] = "signal"
    /\ Goto(t, "unlock")
    /\ UNCHANGED <<dataVars, mutex, green_mask, mask, com, stop, histVars>>

Signal(t) ==
    /\ pc[t] = "signal"
    /\ pc' = [pc EXCEPT ![t] = "unlock", ![Other(t)] = Woken(Other(t))]
    /\ UNCHANGED <<dataVars, mutex, green_mask, mask, com, stop, histVars>>

Unlock(t) ==
    /\ pc[t] = "unlock"
    /\ mutex' = Free
    /\ Goto(t, IF t = "green" THEN "pull" ELSE "calculate")
    /\ UNCHANGED <<dataVars, green_mask, mask, com, stop, histVars>>

-----------------------------------------------------------------------------
(* What each thread does to the ring while it holds the mutex.             *)

GreenCopy ==
    /\ pc["green"] = "copy"
    /\ queue' = [queue EXCEPT ![rear] = green_mask]
    /\ Goto("green", "advance")
    /\ UNCHANGED <<front, rear, count, mutex, green_mask, mask, com, stop, histVars>>

GreenAdvance ==
    /\ pc["green"] = "advance"
    /\ rear' = Succ(rear)
    /\ count' = count + 1
    /\ produced' = Append(produced, green_mask)
    /\ Goto("green", "signal")
    /\ UNCHANGED <<queue, front, mutex, green_mask, mask, com, stop, taken>>

ComCopy ==
    /\ pc["com"] = "copy"
    /\ mask' = queue[front]
    /\ Goto("com", "advance")
    /\ UNCHANGED <<dataVars, mutex, green_mask, com, stop, histVars>>

\* Mutant of ComAdvance: front stays where it is.
ComAdvanceKeepsFront ==
    /\ pc["com"] = "advance"
    /\ count' = count - 1
    /\ taken' = taken + 1
    /\ Goto("com", "signal")
    /\ UNCHANGED <<queue, front, rear, mutex, green_mask, mask, com, stop, produced>>

ComAdvance ==
    /\ pc["com"] = "advance"
    /\ front' = Succ(front)
    /\ count' = count - 1
    /\ taken' = taken + 1
    /\ Goto("com", "signal")
    /\ UNCHANGED <<queue, rear, mutex, green_mask, mask, com, stop, produced>>

\* calculate_com on the local copy; where its result goes is module ComQueue.
CalculateCom ==
    /\ pc["com"] = "calculate"
    /\ com' = mask
    /\ Goto("com", "check")
    /\ UNCHANGED <<dataVars, mutex, green_mask, mask, stop, histVars>>

\* The stop flag is looked at once per mask.  If it is set the thread first
\* unlocks a mutex that it does not hold: undefined by POSIX; glibc's default
\* mutex becomes free, whoever holds it.
CheckStop ==
    /\ pc["com"] = "check"
    /\ \/ /\ stop
          /\ mutex' = Free
          /\ Goto("com", "exit")
       \/ /\ ~stop
          /\ Goto("com", "lock")
          /\ UNCHANGED mutex
    /\ UNCHANGED <<dataVars, green_mask, mask, com, stop, histVars>>

-----------------------------------------------------------------------------
QueueInit ==
    /\ queue = [s \in Slots |-> 0]
    /\ front = 0 /\ rear = 0 /\ count = 0
    /\ mutex = Free
    /\ green_mask = 0 /\ mask = 0 /\ com = 0
    /\ stop = FALSE
    /\ produced = <<>> /\ taken = 0

\* A thread's own steps, without its waits for the camera and the scheduler.
ThreadStep(t) ==
    \/ Lock(t) \/ Test(t) \/ Signal(t) \/ Unlock(t)
    \/ t = "green" /\ (GreenSetup \/ GreenCopy \/ GreenAdvance)
    \/ t = "com" /\ (ComCopy \/ ComAdvance \/ CalculateCom \/ CheckStop)

QueueNext ==
    \/ NoSample \/ PullSample
    \/ \E t \in Threads : ThreadStep(t) \/ SpuriousWakeup(t)

-----------------------------------------------------------------------------
(* Properties.                                                             *)

Labels == {"off", "setup", "pull", "lock", "relock", "test", "wait", "copy",
           "advance", "signal", "unlock", "calculate", "check", "exit"}

\* Every variable holds a value of its C type: the indices stay inside
\* green_mask_queue and the count between 0 and GREEN_MASK_QUEUE_SIZE.
TypeOK ==
    /\ queue \in [Slots -> Frames]
    /\ front \in Slots /\ rear \in Slots
    /\ count \in 0 .. GREEN_MASK_QUEUE_SIZE
    /\ mutex \in Threads \cup {Free}
    /\ pc \in [Threads -> Labels]
    /\ green_mask \in Frames /\ mask \in Frames /\ com \in Frames
    /\ stop \in BOOLEAN
    /\ produced \in Seq(Frames)
    /\ Len(produced) <= MaxFrames
    /\ taken \in Nat

\* Inside the section that the mutex guards.
InCS(t) == pc[t] \in {"test", "copy", "advance", "signal", "unlock"}

\* The two threads are never inside the guarded section together, so neither
\* memcpy of a mask (green_mask.c:306, com_calculator.c:61) can be torn; also
\* when the consumer unlocks the mutex that the producer holds on its way out.
MutualExclusion == ~(InCS("green") /\ InCS("com"))

\* How far slot s lies behind slot f, round the ring.
Offset(f, s) == IF s >= f THEN s - f ELSE s - f + GREEN_MASK_QUEUE_SIZE

\* The masks in the ring are exactly the ones copied in and not yet taken, in
\* the order of their frames: nothing is overwritten, skipped or taken twice,
\* and the consumer's local copy is the oldest mask it had not yet seen.
FifoContents ==
    /\ count = Len(produced) - taken
    /\ \A s \in Slots :
          Offset(front, s) < count =>
              queue[s] = produced[taken + Offset(front, s) + 1]
    /\ pc["com"] = "advance" => mask = produced[taken + 1]
    /\ pc["com"] \in {"signal", "unlock", "calculate"} => mask = produced[taken]

\* No wakeup is lost: a thread sleeps on its condition variable while it could
\* go on only until the other one, already past its update, has signalled.
NoLostWakeup ==
    \A t \in Threads :
        pc[t] = "wait" /\ ~MustWait(t) => pc[Other(t)] = "signal"

=============================================================================
