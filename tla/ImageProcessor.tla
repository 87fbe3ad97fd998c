--------------------------- MODULE ImageProcessor ---------------------------
(***************************************************************************)
(* The life cycle of the two image threads (image_processor.c), over the   *)
(* mask queue they share: start_image_processor creates the producer and   *)
(* then the consumer, stop_image_processor raises the stop flag, wakes     *)
(* both condition variables and joins the threads.  The application calls  *)
(* start_image_processor once and ignores what it returns.                 *)
(***************************************************************************)
EXTENDS GreenMaskQueue

VARIABLES mpc,   \* where the caller is
          joins  \* the threads that stop_image_processor has yet to join

vars == <<queueVars, mpc, joins>>

Init ==
    /\ QueueInit
    /\ pc = [t \in Threads |-> "off"]
    /\ mpc = "create_producer"
    /\ joins = <<>>

\* start_green_mask_thread; if it fails nothing was started.
CreateProducer ==
    /\ mpc = "create_producer"
    /\ \/ mpc' = "create_consumer" /\ Goto("green", "setup")
       \/ mpc' = "start_failed" /\ UNCHANGED pc
    /\ UNCHANGED <<dataVars, mutex, green_mask, mask, com, stop, histVars, joins>>

\* start_com_calculator_thread; if it fails the producer is left running.
CreateConsumer ==
    /\ mpc = "create_consumer"
    /\ \/ mpc' = "started" /\ Goto("com", "lock")
       \/ mpc' = "start_failed" /\ UNCHANGED pc
    /\ UNCHANGED <<dataVars, mutex, green_mask, mask, com, stop, histVars, joins>>

RaiseStop ==
    /\ mpc = "started"
    /\ stop' = TRUE
    /\ mpc' = "wake_com"
    /\ UNCHANGED <<dataVars, mutex, pc, green_mask, mask, com, histVars, joins>>

\* pthread_cond_broadcast, without the mutex.
WakeCom ==
    /\ mpc = "wake_com"
    /\ Goto("com", Woken("com"))
    /\ mpc' = "wake_green"
    /\ UNCHANGED <<dataVars, mutex, green_mask, mask, com, stop, histVars, joins>>

WakeGreen ==
    /\ mpc = "wake_green"
    /\ Goto("green", Woken("green"))
    /\ mpc' = "join"
    /\ joins' = <<"green", "com">>
    /\ UNCHANGED <<dataVars, mutex, green_mask, mask, com, stop, histVars>>

\* pthread_join: of the producer, then of the consumer.
Join ==
    /\ mpc = "join"
    /\ joins # <<>>
    /\ pc[Head(joins)] = "exit"
    /\ joins' = Tail(joins)
    /\ UNCHANGED <<queueVars, mpc>>

StartStep == CreateProducer \/ CreateConsumer
StopStep == RaiseStop \/ WakeCom \/ WakeGreen \/ Join

Next ==
    \/ QueueNext /\ UNCHANGED <<mpc, joins>>
    \/ StartStep
    \/ StopStep

\* A thread that can take a step takes it in the end, and so does a caller
\* that is inside start or stop; a thread blocked on the mutex gets it if it
\* is free again and again (the kernel wakes a futex waiter at each unlock,
\* and the two threads are pinned to different cores).  Nothing is assumed of
\* the camera, of spurious wakeups or of stop_image_processor being called.
Fairness ==
    /\ \A t \in Threads :
          /\ WF_vars(ThreadStep(t) /\ UNCHANGED <<mpc, joins>>)
          /\ SF_vars(Lock(t) /\ UNCHANGED <<mpc, joins>>)
    /\ WF_vars(StartStep)
    /\ WF_vars(WakeCom \/ WakeGreen \/ Join)

Spec == Init /\ [][Next]_vars /\ Fairness

-----------------------------------------------------------------------------
(* Properties.                                                             *)

Callers == {"create_producer", "create_consumer", "started", "start_failed",
            "wake_com", "wake_green", "join"}

\* TypeOK of the queue, and the caller is at a point of start or stop.
ImageTypeOK == TypeOK /\ mpc \in Callers /\ joins \in Seq(Threads)

\* The inductive invariant behind MutualExclusion, FifoContents and
\* NoLostWakeup: which labels each thread has, who owns the mutex, how the
\* indices and the count agree, what a thread knows between its test and its
\* update, and that the consumer's copy is a mask already recorded.
GreenLabels == Labels \ {"calculate", "check"}
ComLabels == Labels \ {"setup", "pull"}

LifeInv ==
    /\ pc["green"] \in GreenLabels /\ pc["com"] \in ComLabels
    /\ mpc = "create_producer" => pc["green"] = "off"
    /\ mpc \in {"create_producer", "create_consumer"} => pc["com"] = "off"

LockInv ==
    /\ InCS("com") => mutex = "com"
    /\ InCS("green") => mutex = "green" \/ pc["com"] = "exit"

\* The slot n places behind slot f.
Plus(f, n) == IF f + n < GREEN_MASK_QUEUE_SIZE
              THEN f + n ELSE f + n - GREEN_MASK_QUEUE_SIZE

RingInv ==
    /\ rear = Plus(front, count)
    /\ pc["green"] \in {"copy", "advance"} => count < GREEN_MASK_QUEUE_SIZE
    /\ pc["com"] \in {"copy", "advance"} => count > 0
    /\ pc["green"] = "advance" => queue[rear] = green_mask
    /\ pc["com"] \in {"signal", "unlock", "calculate"} => taken > 0
    /\ pc["green"] \in {"lock", "relock", "test", "wait", "copy", "advance"}
          => Len(produced) < MaxFrames

ImageInv ==
    /\ ImageTypeOK
    /\ LifeInv
    /\ LockInv
    /\ RingInv
    /\ FifoContents
    /\ NoLostWakeup

\* The queue seen from outside: the masks between front and rear.
Held == [i \in 1 .. count |-> queue[(front + i - 1) % GREEN_MASK_QUEUE_SIZE]]

\* Between the memcpy and the update of front the consumer has a mask that
\* the ring still holds: it counts as taken when front moves.
LastTaken == IF pc["com"] = "advance" THEN com ELSE mask

\* The consumer copies a mask only when it is done with the one before.
CopyInv == pc["com"] \notin {"advance", "signal", "unlock", "calculate"} => com = mask

Fifo == INSTANCE BoundedFifo WITH
            Capacity <- GREEN_MASK_QUEUE_SIZE, Item <- Frames, NoItem <- 0,
            q <- Held, out <- LastTaken

\* The ring, its mutex and its condition variables implement a first-in
\* first-out queue of GREEN_MASK_QUEUE_SIZE masks.
ImplementsFifo == Fifo!Spec

\* Every mask copied into the queue is taken and has its centre of mass
\* computed in the end, unless the consumer never started or was told to
\* stop: no wakeup is lost and the threads never wait for each other.
EveryMaskCalculated ==
    \A k \in 1 .. MaxFrames :
        Len(produced) >= k ~>
            \/ taken >= k /\ pc["com"] \notin {"signal", "unlock", "calculate"}
            \/ stop
            \/ mpc = "start_failed"

\* stop_image_processor returns, having printed "Threads terminated."
\* (image_processor.c:49), once it has been called.
StopReturns == mpc = "join" ~> (mpc = "join" /\ joins = <<>>)
=============================================================================
