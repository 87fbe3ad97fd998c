------------------------------ MODULE ComQueue ------------------------------
(***************************************************************************)
(* The COM queue as the application uses it.                               *)
(*                                                                         *)
(* The COM thread runs from the start of the program, the control thread   *)
(* dequeues only once the operator has given "start", so the queue fills.  *)
(* When spsc_enqueue says full, com_calculator_thread itself calls         *)
(* spsc_dequeue to discard the oldest COM and enqueues again, without      *)
(* looking at what either call returned: the queue then has two consumers. *)
(*                                                                         *)
(* The steps are those of SpscQueue.  They are meant, checked and proved   *)
(* about with stores that are seen at once (Delayed = FALSE): what goes    *)
(* wrong here goes wrong on any memory.                                    *)
(***************************************************************************)
EXTENDS SpscQueue

VARIABLES active,  \* the control thread is in its control loop
          again,   \* the COM thread is in its second spsc_enqueue for a COM
          raced    \* history: both threads were inside spsc_dequeue at once

comVars == <<active, again>>
vars == <<spscVars, active, again, raced>>

InDequeue(t) == pc[t] \in {"deq_head", "deq_read", "deq_store"}

Init ==
    /\ SpscInit
    /\ active = FALSE /\ again = FALSE /\ raced = FALSE

\* The operator's "start" lets the control thread into its loop.
Start ==
    /\ ~active
    /\ active' = TRUE
    /\ UNCHANGED <<spscVars, again>>

\* if (!spsc_enqueue(&com_queue, value))
FirstEnqueue ==
    \/ EnqLoadHead("idle") /\ UNCHANGED comVars
    \/ (EnqLoadTail \/ EnqWrite) /\ UNCHANGED comVars
    \/ EnqStore /\ again' = FALSE /\ UNCHANGED active

\* Mutant of DropStore: the oldest COM is read but stays in the queue.
DropNothing ==
    /\ pc["com"] = "deq_store"
    /\ Goto("com", "retry")
    /\ UNCHANGED <<buffer, indexVars, enqVars, deqVars>>

\* spsc_dequeue(&com_queue, &discarded_com), by the COM thread.
DropStore ==
    /\ pc["com"] = "deq_store"
    /\ StoreTail("com")
    /\ Goto("com", "retry")
    /\ UNCHANGED <<buffer, head, head_view, enqVars, deqVars>>

Discard ==
    /\ \/ ~again /\ DeqLoadTail("com", "full")
       \/ DeqLoadHead("com", "retry")
       \/ DeqRead("com")
       \/ DropStore
    /\ UNCHANGED comVars

\* spsc_enqueue(&com_queue, value) once more.
SecondEnqueue ==
    /\ EnqLoadHead("retry")
    /\ again' = TRUE
    /\ UNCHANGED active

\* It found the queue full again: the new COM is gone.
GiveUp ==
    /\ pc["com"] = "full" /\ again
    /\ Goto("com", "idle")
    /\ again' = FALSE
    /\ UNCHANGED <<buffer, indexVars, enqVars, deqVars, active>>

ControlDequeue ==
    /\ active
    /\ Dequeue
    /\ UNCHANGED comVars

Next ==
    /\ \/ Start \/ FirstEnqueue \/ Discard \/ SecondEnqueue \/ GiveUp
       \/ ControlDequeue
    /\ raced' = (raced \/ (InDequeue("com")' /\ InDequeue("control")'))

Spec == Init /\ [][Next]_vars

-----------------------------------------------------------------------------
(* Properties.                                                             *)

\* As long as the two threads were never inside spsc_dequeue at once, the
\* second spsc_enqueue, whose result com_calculator.c:75 ignores, succeeds:
\* it is the oldest COM that a full queue costs and not the newest.
RetrySucceeds == ~raced => ~(again /\ pc["com"] = "full")

\* Likewise the queue then holds the newest COMs without a gap: those up to
\* the last one accepted, in order; only older ones were discarded
\* (com_calculator.c:72-76).
NewestKept ==
    ~raced =>
        \A s \in Slots :
            Dist(tail, s) < Dist(tail, head) =>
                buffer[s] + Dist(s, head) = sent + 1

\* And what the control thread gets, it gets in the order of acceptance.
DeliveredInOrder == [][~raced' /\ got' # got => got' > got]_vars

\* The inductive invariant behind these three.  What holds whoever dequeues:
\* the COM thread alone moves head.
ComTypeOK ==
    /\ buffer \in [Slots -> Values]
    /\ head \in Slots /\ tail \in Slots /\ head_view = head /\ tail_view = tail
    /\ pc \in [Threads -> EnqLabels \cup DeqLabels \cup {"retry"}]
    /\ pc["control"] \in DeqLabels
    /\ my_head \in Slots /\ my_tail \in [Threads -> Slots]
    /\ my_value \in [Threads -> Values]
    /\ got \in Values /\ sent \in Values
    /\ active \in BOOLEAN /\ again \in BOOLEAN /\ raced \in BOOLEAN

WriterInv ==
    /\ pc["com"] \in {"enq_tail", "enq_write", "enq_store"} =>
          my_head = head /\ sent < MaxValues
    /\ pc["com"] = "enq_store" => buffer[head] = sent + 1
    /\ again => pc["com"] \in {"enq_tail", "enq_write", "enq_store", "full"}

\* And until both were inside spsc_dequeue: one of them moves tail at a time,
\* what each found out about the room in the queue stays true, and the control
\* thread has been given only COMs older than those held.
TailInv ==
    /\ ~(InDequeue("com") /\ InDequeue("control"))
    /\ \A t \in Threads : InDequeue(t) => my_tail[t] = tail
    /\ \A t \in Threads : pc[t] \in {"deq_read", "deq_store"} => head # tail

RoomInv ==
    /\ pc["com"] \in {"enq_write", "enq_store", "retry"} => Succ(head) # tail
    /\ again /\ pc["com"] = "enq_tail" => Succ(head) # tail
    /\ pc["com"] = "full" => ~again

OrderInv ==
    /\ \A s \in Slots :
          Dist(tail, s) < Dist(tail, head) => buffer[s] + Dist(s, head) = sent + 1
    /\ pc["control"] = "deq_store" =>
          my_value["control"] + Dist(tail, head) = sent + 1
    /\ got + Dist(tail, head) <= sent

ComInv == ComTypeOK /\ WriterInv /\ (~raced => TailInv /\ RoomInv /\ OrderInv)

\* "tail is only changed by the consumer" (spsc_queue.h:47): from its load of
\* tail to its store the control thread's copy is the tail of the queue.
TailOnlyChangedByConsumer ==
    InDequeue("control") => tail = my_tail["control"]
=============================================================================
