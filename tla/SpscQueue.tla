------------------------------ MODULE SpscQueue ------------------------------
(***************************************************************************)
(* The lock-free queue of centres of mass (spsc_queue.h) between the COM   *)
(* thread, which enqueues, and the control thread, which dequeues.         *)
(*                                                                         *)
(* Each atomic load or store and each copy of a COM from or to the buffer  *)
(* is a step.  A thread always sees the index it owns; the other thread's  *)
(* index it may see late: head_view and tail_view are the values that an   *)
(* acquire load returns, and they follow the stores one by one and in      *)
(* order.  Release/acquire gives no more: the buffer accesses before a     *)
(* store are done when the store is seen, not that it is seen at once.     *)
(*                                                                         *)
(* A COM is abstracted to its number in the order of acceptance; 0 is the  *)
(* content of the buffer and of com_val before any COM.                    *)
(***************************************************************************)
EXTENDS Naturals, Sequences

CONSTANTS COM_QUEUE_SIZE,  \* slots of the ring (256)
          MaxValues,       \* bound: COMs accepted in a behaviour
          Delayed          \* whether a store may be seen late by the other thread

\* index & (COM_QUEUE_SIZE - 1) is index % COM_QUEUE_SIZE for powers of two.
ASSUME SizeAssumption ==
    /\ COM_QUEUE_SIZE \in Nat \ {0, 1}
    /\ \E k \in 1 .. 63 : COM_QUEUE_SIZE = 2 ^ k
ASSUME ValuesAssumption == MaxValues \in Nat
ASSUME DelayedAssumption == Delayed \in BOOLEAN

VARIABLES
    buffer,                \* q->buffer
    head, tail,            \* q->head, q->tail
    head_view, tail_view,  \* the head that "control" sees, the tail that "com" sees
    pc,                    \* where each thread is
    my_head,               \* "com": head loaded by spsc_enqueue
    my_tail,               \* per thread: tail loaded by spsc_dequeue
    my_value,              \* per thread: *value of spsc_dequeue
    got,                   \* com_val, after a dequeue of the control thread
    sent, taken            \* history: COMs accepted, COMs given to "control"

indexVars == <<head, tail, head_view, tail_view>>
enqVars == <<my_head, sent>>
deqVars == <<my_tail, my_value, got, taken>>
spscVars == <<buffer, head, tail, head_view, tail_view, pc, my_head, my_tail,
              my_value, got, sent, taken>>

Threads == {"com", "control"}
Slots == 0 .. COM_QUEUE_SIZE - 1
Values == 0 .. MaxValues

\* Mutant of Succ: the index is not masked.
SuccNoMask(i) == i + 1

\* (i + 1) & (COM_QUEUE_SIZE - 1)
Succ(i) == (i + 1) % COM_QUEUE_SIZE

Goto(t, label) == pc' = [pc EXCEPT ![t] = label]

\* spsc_init, and static storage is zero.
SpscInit ==
    /\ buffer = [s \in Slots |-> 0]
    /\ head = 0 /\ tail = 0 /\ head_view = 0 /\ tail_view = 0
    /\ pc = [t \in Threads |-> "idle"]
    /\ my_head = 0
    /\ my_tail = [t \in Threads |-> 0]
    /\ my_value = [t \in Threads |-> 0]
    /\ got = 0 /\ sent = 0 /\ taken = 0

\* What a thread loads from each index.
HeadSeen(t) == IF t = "com" THEN head ELSE head_view

\* Mutant of TailSeen: the producer keeps the tail it loaded first.
TailSeenOnce(t) == IF t = "com" THEN 0 ELSE tail

TailSeen(t) == IF t = "com" THEN tail_view ELSE tail

-----------------------------------------------------------------------------
(* spsc_enqueue, called by the COM thread with the next COM.               *)

EnqLoadHead(from) ==
    /\ pc["com"] = from
    /\ sent < MaxValues
    /\ my_head' = head
    /\ Goto("com", "enq_tail")
    /\ UNCHANGED <<buffer, indexVars, deqVars, sent>>

\* Mutant of EnqLoadTail: no test for a full queue.
EnqLoadTailNoTest ==
    /\ pc["com"] = "enq_tail"
    /\ Goto("com", "enq_write")
    /\ UNCHANGED <<buffer, indexVars, enqVars, deqVars>>

\* The acquire load of tail and the test for a full queue.
EnqLoadTail ==
    /\ pc["com"] = "enq_tail"
    /\ \/ /\ Succ(my_head) = TailSeen("com")
          /\ Goto("com", "full")
       \/ /\ Succ(my_head) # TailSeen("com")
          /\ Goto("com", "enq_write")
    /\ UNCHANGED <<buffer, indexVars, enqVars, deqVars>>

\* Mutant of EnqWrite: the COM goes into the slot after head.
EnqWriteNext ==
    /\ pc["com"] = "enq_write"
    /\ buffer' = [buffer EXCEPT ![Succ(my_head)] = sent + 1]
    /\ Goto("com", "enq_store")
    /\ UNCHANGED <<indexVars, enqVars, deqVars>>

EnqWrite ==
    /\ pc["com"] = "enq_write"
    /\ buffer' = [buffer EXCEPT ![my_head] = sent + 1]
    /\ Goto("com", "enq_store")
    /\ UNCHANGED <<indexVars, enqVars, deqVars>>

EnqStore ==
    /\ pc["com"] = "enq_store"
    /\ head' = Succ(my_head)
    /\ head_view' = IF Delayed THEN head_view ELSE Succ(my_head)
    /\ sent' = sent + 1
    /\ Goto("com", "idle")
    /\ UNCHANGED <<buffer, tail, tail_view, my_head, deqVars>>

-----------------------------------------------------------------------------
(* spsc_dequeue, called by thread t.                                       *)

DeqLoadTail(t, from) ==
    /\ pc[t] = from
    /\ my_tail' = [my_tail EXCEPT ![t] = TailSeen(t)]
    /\ Goto(t, "deq_head")
    /\ UNCHANGED <<buffer, indexVars, enqVars, my_value, got, taken>>

\* Mutant of DeqLoadHead: no test for an empty queue.
DeqLoadHeadNoTest(t, done) ==
    /\ pc[t] = "deq_head"
    /\ Goto(t, "deq_read")
    /\ UNCHANGED <<buffer, indexVars, enqVars, deqVars>>

\* The acquire load of head and the test for an empty queue.
DeqLoadHead(t, done) ==
    /\ pc[t] = "deq_head"
    /\ \/ /\ HeadSeen(t) = my_tail[t]
          /\ Goto(t, done)
       \/ /\ HeadSeen(t) # my_tail[t]
          /\ Goto(t, "deq_read")
    /\ UNCHANGED <<buffer, indexVars, enqVars, deqVars>>

\* Mutant of DeqRead: the COM is read after the index was advanced.
DeqReadNext(t) ==
    /\ pc[t] = "deq_read"
    /\ my_value' = [my_value EXCEPT ![t] = buffer[Succ(my_tail[t])]]
    /\ Goto(t, "deq_store")
    /\ UNCHANGED <<buffer, indexVars, enqVars, my_tail, got, taken>>

DeqRead(t) ==
    /\ pc[t] = "deq_read"
    /\ my_value' = [my_value EXCEPT ![t] = buffer[my_tail[t]]]
    /\ Goto(t, "deq_store")
    /\ UNCHANGED <<buffer, indexVars, enqVars, my_tail, got, taken>>

\* The release store of tail, by either thread.
StoreTail(t) ==
    /\ tail' = Succ(my_tail[t])
    /\ tail_view' = IF Delayed THEN tail_view ELSE Succ(my_tail[t])

\* The control thread returns from spsc_dequeue with a COM.
DeqStore ==
    /\ pc["control"] = "deq_store"
    /\ StoreTail("control")
    /\ got' = my_value["control"]
    /\ taken' = taken + 1
    /\ Goto("control", "idle")
    /\ UNCHANGED <<buffer, head, head_view, enqVars, my_tail, my_value>>

-----------------------------------------------------------------------------
(* The next store of an index becomes visible to the other thread.         *)

SeeHead ==
    /\ head_view # head
    /\ head_view' = Succ(head_view)
    /\ UNCHANGED <<buffer, head, tail, tail_view, pc, enqVars, deqVars>>

SeeTail ==
    /\ tail_view # tail
    /\ tail_view' = Succ(tail_view)
    /\ UNCHANGED <<buffer, head, tail, head_view, pc, enqVars, deqVars>>

-----------------------------------------------------------------------------
(* The queue used as its header asks: "com" only enqueues and "control"    *)
(* only dequeues.  A caller that finds the queue full or empty calls again *)
(* later.                                                                  *)

Enqueue ==
    \/ EnqLoadHead("idle") \/ EnqLoadHead("full")
    \/ EnqLoadTail \/ EnqWrite \/ EnqStore

Dequeue ==
    \/ DeqLoadTail("control", "idle")
    \/ DeqLoadHead("control", "idle")
    \/ DeqRead("control") \/ DeqStore

SpscNext == Enqueue \/ Dequeue \/ SeeHead \/ SeeTail

\* Both threads keep running (the control thread polls the queue every 5 ms
\* while it is active), and a store is seen in the end.
SpscSpec ==
    /\ SpscInit
    /\ [][SpscNext]_spscVars
    /\ WF_spscVars(Enqueue)
    /\ WF_spscVars(Dequeue)
    /\ WF_spscVars(SeeHead)
    /\ WF_spscVars(SeeTail)

-----------------------------------------------------------------------------
(* Properties.                                                             *)

EnqLabels == {"idle", "enq_tail", "full", "enq_write", "enq_store"}
DeqLabels == {"idle", "deq_head", "deq_read", "deq_store"}

\* Every index stays inside the buffer.
SpscTypeOK ==
    /\ buffer \in [Slots -> Values]
    /\ head \in Slots /\ tail \in Slots
    /\ head_view \in Slots /\ tail_view \in Slots
    /\ pc \in [Threads -> EnqLabels \cup DeqLabels]
    /\ my_head \in Slots
    /\ my_tail \in [Threads -> Slots]
    /\ my_value \in [Threads -> Values]
    /\ got \in Values /\ sent \in Values /\ taken \in Nat

\* Slots from a forward to b, round the ring.
Dist(a, b) == IF a <= b THEN b - a ELSE b - a + COM_QUEUE_SIZE

\* The control thread never copies a COM out of the slot that the COM thread
\* is copying one into (spsc_queue.h:40 and :54), so no COM is half old and
\* half new, however late each sees the other's index.
NoSlotRace ==
    pc["com"] = "enq_write" /\ pc["control"] = "deq_read" =>
        my_head # my_tail["control"]

\* The slots from tail to head hold the COMs accepted and not yet taken, in
\* order, and never more than COM_QUEUE_SIZE - 1 of them; the COM about to be
\* returned is the next one.  Nothing is overwritten, skipped or repeated.
SpscContents ==
    /\ Dist(tail, head) = sent - taken
    /\ \A s \in Slots :
          Dist(tail, s) < Dist(tail, head) => buffer[s] = taken + Dist(tail, s) + 1
    /\ pc["control"] = "deq_store" => my_value["control"] = taken + 1

\* The inductive invariant behind NoSlotRace and SpscContents: the indices
\* lie round the ring in the order tail_view, tail, head_view, head and do not
\* lap each other; a thread's copy of its own index is that index; and what it
\* saw of the other index, full or empty, only gets better while it acts.
ViewInv ==
    Dist(tail_view, tail) + Dist(tail, head_view) + Dist(head_view, head)
        = Dist(tail_view, head)

EnqInv ==
    /\ pc["com"] \in EnqLabels
    /\ pc["com"] \in {"enq_tail", "enq_write", "enq_store"} =>
          my_head = head /\ sent < MaxValues
    /\ pc["com"] \in {"enq_write", "enq_store"} => Succ(head) # tail_view
    /\ pc["com"] = "enq_store" => buffer[head] = sent + 1

DeqInv ==
    /\ pc["control"] \in DeqLabels
    /\ pc["control"] \in {"deq_head", "deq_read", "deq_store"} =>
          my_tail["control"] = tail
    /\ pc["control"] \in {"deq_read", "deq_store"} => head_view # tail

SpscInv == SpscTypeOK /\ ViewInv /\ EnqInv /\ DeqInv /\ SpscContents

\* The COMs between tail and head, oldest first.
Held ==
    [i \in 1 .. Dist(tail, head) |-> buffer[(tail + i - 1) % COM_QUEUE_SIZE]]

Fifo == INSTANCE BoundedFifo WITH
            Capacity <- COM_QUEUE_SIZE - 1, Item <- Values, NoItem <- 0,
            q <- Held, out <- got

\* The ring implements a first-in first-out queue of COM_QUEUE_SIZE - 1 COMs.
SpscImplementsFifo == Fifo!Spec

\* With both threads running every COM is accepted and delivered in the end:
\* a full or empty answer read from a late index is never the last word.
AllDelivered == <>(taken = MaxValues)
=============================================================================
