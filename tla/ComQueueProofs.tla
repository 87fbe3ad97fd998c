--------------------------- MODULE ComQueueProofs ---------------------------
(***************************************************************************)
(* Proofs about the lock-free queue of centres of mass, for any size of    *)
(* the ring and any number of COMs.                                        *)
(*                                                                         *)
(* First the queue used as its header asks (SpscQueue), whether or not the *)
(* threads see each other's stores late: SpscInv is inductive, each of its *)
(* conjuncts has a lemma that says that a step keeps it, and the queue     *)
(* implements a bounded FIFO.                                              *)
(*                                                                         *)
(* Then the queue as the application uses it (ComQueue), with stores seen  *)
(* at once: until both threads are inside spsc_dequeue at once, discarding *)
(* the oldest COM makes room for the new one, the newest are kept and they *)
(* are delivered in order.  ComInv is inductive.                           *)
(***************************************************************************)
EXTENDS ComQueue, SequenceTheorems, TLAPS

-----------------------------------------------------------------------------
\* Arithmetic of the ring.  Only these lemmas look inside Succ and Dist.
LEMMA SizeNat == COM_QUEUE_SIZE \in Nat /\ COM_QUEUE_SIZE > 1
  BY SizeAssumption

\* The index wraps from the last slot to slot 0.
LEMMA SuccWraps ==
    ASSUME NEW i \in Slots
    PROVE  /\ Succ(i) = IF i = COM_QUEUE_SIZE - 1 THEN 0 ELSE i + 1
           /\ Succ(i) \in Slots
<1>1. CASE i = COM_QUEUE_SIZE - 1
  BY <1>1, SizeNat DEF Succ, Slots
<1>2. CASE i # COM_QUEUE_SIZE - 1
  BY <1>2, SizeNat DEF Succ, Slots
<1>3. QED
  BY <1>1, <1>2

\* No two slots have the same successor.
LEMMA SuccInjective ==
    ASSUME NEW i \in Slots, NEW j \in Slots, Succ(i) = Succ(j)
    PROVE  i = j
  BY SuccWraps, SizeNat DEF Slots

\* A distance is less than the size of the ring, and 0 only from a slot to itself.
LEMMA DistRange ==
    ASSUME NEW a \in Slots, NEW b \in Slots
    PROVE  /\ Dist(a, b) \in Nat
           /\ Dist(a, b) < COM_QUEUE_SIZE
           /\ Dist(a, b) = 0 <=> a = b
  BY SizeNat DEF Dist, Slots

\* A slot is determined by its distance from another one.
LEMMA DistInjective ==
    ASSUME NEW a \in Slots, NEW b \in Slots, NEW c \in Slots,
           Dist(a, b) = Dist(a, c)
    PROVE  b = c
  BY SizeNat DEF Dist, Slots

\* The distance to an index grows by one when that index advances.
LEMMA DistGrows ==
    ASSUME NEW a \in Slots, NEW b \in Slots
    PROVE  /\ Succ(b) # a => Dist(a, Succ(b)) = Dist(a, b) + 1
           /\ Succ(b) = a => Dist(a, b) = COM_QUEUE_SIZE - 1
  BY SuccWraps, SizeNat DEF Dist, Slots

\* The distance from an index shrinks by one when that index advances.
LEMMA DistShrinks ==
    ASSUME NEW a \in Slots, NEW b \in Slots
    PROVE  Dist(Succ(a), b) = IF a = b THEN COM_QUEUE_SIZE - 1
                                       ELSE Dist(a, b) - 1
  BY SuccWraps, SizeNat DEF Dist, Slots

\* Distances add up, less a whole round.
LEMMA DistAdds ==
    ASSUME NEW a \in Slots, NEW b \in Slots, NEW c \in Slots
    PROVE  \/ Dist(a, b) + Dist(b, c) = Dist(a, c)
           \/ Dist(a, b) + Dist(b, c) = Dist(a, c) + COM_QUEUE_SIZE
  BY SizeNat DEF Dist, Slots

-----------------------------------------------------------------------------
\* The order of the four indices, taken apart: any of them between two others
\* splits the distance of those.
LEMMA ViewFacts ==
    ASSUME head \in Slots, tail \in Slots, head_view \in Slots,
           tail_view \in Slots, ViewInv
    PROVE  /\ Dist(tail_view, tail) + Dist(tail, head) = Dist(tail_view, head)
           /\ Dist(tail, head_view) + Dist(head_view, head) = Dist(tail, head)
<1>1. /\ Dist(tail_view, tail) \in Nat /\ Dist(tail, head_view) \in Nat
      /\ Dist(head_view, head) \in Nat /\ Dist(tail_view, head) \in Nat
      /\ Dist(tail, head) \in Nat
      /\ Dist(tail_view, head) < COM_QUEUE_SIZE
  BY DistRange
<1>2. \/ Dist(tail, head_view) + Dist(head_view, head) = Dist(tail, head)
      \/ Dist(tail, head_view) + Dist(head_view, head)
            = Dist(tail, head) + COM_QUEUE_SIZE
  BY DistAdds
<1>3. Dist(tail_view, tail) + Dist(tail, head_view) + Dist(head_view, head)
        = Dist(tail_view, head)
  BY DEF ViewInv
<1>4. Dist(tail, head_view) + Dist(head_view, head) = Dist(tail, head)
  BY <1>1, <1>2, <1>3, SizeNat
<1>5. QED
  BY <1>1, <1>3, <1>4

\* A COM can be stored in the slot after head without head meeting tail or
\* either view, and a COM that is seen is there to be taken.
LEMMA RoomFacts ==
    ASSUME SpscInv
    PROVE  /\ pc["com"] \in {"enq_write", "enq_store"} =>
                 Succ(head) # tail /\ Succ(head) # head_view
           /\ pc["control"] \in {"deq_read", "deq_store"} =>
                 head # tail /\ Succ(tail) # tail_view
<1>1. /\ head \in Slots /\ tail \in Slots
      /\ head_view \in Slots /\ tail_view \in Slots
      /\ ViewInv /\ EnqInv /\ DeqInv
  BY DEF SpscInv, SpscTypeOK
<1>2. /\ Dist(tail_view, tail) \in Nat /\ Dist(tail, head_view) \in Nat
      /\ Dist(head_view, head) \in Nat /\ Dist(tail_view, head) \in Nat
      /\ Dist(tail, head) \in Nat
      /\ Dist(tail_view, head) < COM_QUEUE_SIZE
      /\ Dist(tail_view, tail) = 0 <=> tail_view = tail
      /\ Dist(tail, head_view) = 0 <=> tail = head_view
      /\ Dist(tail, head) = 0 <=> tail = head
  BY <1>1, DistRange
<1>3. /\ Dist(tail_view, tail) + Dist(tail, head) = Dist(tail_view, head)
      /\ Dist(tail, head_view) + Dist(head_view, head) = Dist(tail, head)
  BY <1>1, ViewFacts
<1>4. ASSUME pc["com"] \in {"enq_write", "enq_store"}
      PROVE  Succ(head) # tail /\ Succ(head) # head_view
  <2>1. Succ(head) # tail_view
    BY <1>1, <1>4 DEF EnqInv
  <2>2. Succ(head) # tail
    <3>1. Succ(head) = tail => Dist(tail, head) = COM_QUEUE_SIZE - 1
      BY <1>1, DistGrows
    <3>2. QED
      BY <1>2, <1>3, <2>1, <3>1, SizeNat
  <2>3. Succ(head) # head_view
    <3>1. Succ(head) = head_view => Dist(head_view, head) = COM_QUEUE_SIZE - 1
      BY <1>1, DistGrows
    <3>2. QED
      BY <1>2, <1>3, <2>1, <3>1, SizeNat
  <2>4. QED
    BY <2>2, <2>3
<1>5. ASSUME pc["control"] \in {"deq_read", "deq_store"}
      PROVE  head # tail /\ Succ(tail) # tail_view
  <2>1. head_view # tail
    BY <1>1, <1>5 DEF DeqInv
  <2>2. head # tail
    BY <1>2, <1>3, <2>1
  <2>3. Succ(tail) = tail_view => Dist(tail_view, tail) = COM_QUEUE_SIZE - 1
    BY <1>1, DistGrows
  <2>4. QED
    BY <1>2, <1>3, <2>2, <2>3, SizeNat
<1>6. QED
  BY <1>4, <1>5

-----------------------------------------------------------------------------
\* Every variable keeps its type.
LEMMA TypeStep == SpscInv /\ [SpscNext]_spscVars => SpscTypeOK'
<1> SUFFICES ASSUME SpscInv, [SpscNext]_spscVars PROVE SpscTypeOK'
  OBVIOUS
<1> SpscTypeOK /\ EnqInv /\ DeqInv
  BY DEF SpscInv
<1> Succ(my_head) \in Slots /\ Succ(my_tail["control"]) \in Slots
    /\ Succ(head_view) \in Slots /\ Succ(tail_view) \in Slots
  BY SuccWraps DEF SpscTypeOK, Threads
<1> USE ValuesAssumption
    DEF SpscTypeOK, Goto, Threads, EnqLabels, DeqLabels, indexVars, enqVars, deqVars
<1>1. ASSUME NEW from, EnqLoadHead(from) PROVE SpscTypeOK'
  BY <1>1 DEF EnqLoadHead
<1>2. CASE EnqLoadTail
  BY <1>2 DEF EnqLoadTail
<1>3. CASE EnqWrite
  <2>1. sent + 1 \in Values
    BY <1>3 DEF EnqWrite, EnqInv, Values
  <2>2. QED
    BY <1>3, <2>1 DEF EnqWrite
<1>4. CASE EnqStore
  <2>1. sent + 1 \in Values
    BY <1>4 DEF EnqStore, EnqInv, Values
  <2>2. QED
    BY <1>4, <2>1 DEF EnqStore
<1>5. CASE DeqLoadTail("control", "idle")
  BY <1>5 DEF DeqLoadTail, TailSeen
<1>6. CASE DeqLoadHead("control", "idle")
  BY <1>6 DEF DeqLoadHead
<1>7. CASE DeqRead("control")
  BY <1>7 DEF DeqRead
<1>8. CASE DeqStore
  BY <1>8 DEF DeqStore, StoreTail
<1>9. CASE SeeHead
  BY <1>9 DEF SeeHead
<1>10. CASE SeeTail
  BY <1>10 DEF SeeTail
<1>11. CASE UNCHANGED spscVars
  BY <1>11 DEF spscVars
<1>12. QED
  BY <1>1, <1>2, <1>3, <1>4, <1>5, <1>6, <1>7, <1>8, <1>9, <1>10, <1>11
  DEF SpscNext, Enqueue, Dequeue

\* The indices keep their order round the ring.
LEMMA ViewStep == SpscInv /\ [SpscNext]_spscVars => ViewInv'
<1> SUFFICES ASSUME SpscInv, [SpscNext]_spscVars PROVE ViewInv'
  OBVIOUS
<1>a. /\ head \in Slots /\ tail \in Slots
      /\ head_view \in Slots /\ tail_view \in Slots
      /\ ViewInv /\ EnqInv /\ DeqInv
  BY DEF SpscInv, SpscTypeOK
<1>b. /\ Dist(tail_view, tail) \in Nat /\ Dist(tail, head_view) \in Nat
      /\ Dist(head_view, head) \in Nat /\ Dist(tail_view, head) \in Nat
      /\ Dist(tail, head) \in Nat
      /\ Dist(tail_view, head) < COM_QUEUE_SIZE
      /\ Dist(tail_view, tail) = 0 <=> tail_view = tail
      /\ Dist(head_view, head) = 0 <=> head_view = head
      /\ Dist(tail, head_view) = 0 <=> tail = head_view
      /\ Dist(tail_view, head) = 0 <=> tail_view = head
  BY <1>a, DistRange
<1>c. /\ Dist(tail_view, tail) + Dist(tail, head) = Dist(tail_view, head)
      /\ Dist(tail, head_view) + Dist(head_view, head) = Dist(tail, head)
  BY <1>a, ViewFacts
<1>1. CASE UNCHANGED indexVars
  BY <1>1, <1>a DEF ViewInv, indexVars
<1>2. CASE EnqStore
  <2>1. /\ head' = Succ(head) /\ tail' = tail /\ tail_view' = tail_view
        /\ head_view' = head_view \/ head_view' = Succ(head)
        /\ Succ(head) # tail_view
    BY <1>2, <1>a DEF EnqStore, EnqInv
  <2>2. Succ(head) # tail /\ Succ(head) # head_view
    BY <1>2, RoomFacts DEF EnqStore
  <2>3. /\ Dist(tail_view, head') = Dist(tail_view, head) + 1
        /\ Dist(tail, head') = Dist(tail, head) + 1
        /\ Dist(head_view, head') = Dist(head_view, head) + 1
        /\ Dist(head', head') = 0
    BY <1>a, <2>1, <2>2, DistGrows, DistRange, SuccWraps
  <2>4. CASE head_view' = head_view
    BY <1>b, <1>c, <2>1, <2>3, <2>4 DEF ViewInv
  <2>5. CASE head_view' = head'
    BY <1>b, <1>c, <2>1, <2>3, <2>5 DEF ViewInv
  <2>6. QED
    BY <2>1, <2>4, <2>5
<1>3. CASE DeqStore
  <2>1. /\ tail' = Succ(tail) /\ head' = head /\ head_view' = head_view
        /\ tail_view' = tail_view \/ tail_view' = Succ(tail)
        /\ head_view # tail
    BY <1>3, <1>a DEF DeqStore, DeqInv, StoreTail
  <2>2. head # tail /\ Succ(tail) # tail_view
    BY <1>3, RoomFacts DEF DeqStore
  <2>3. /\ Dist(tail_view, tail') = Dist(tail_view, tail) + 1
        /\ Dist(tail', head) = Dist(tail, head) - 1
        /\ Dist(tail', head_view) = Dist(tail, head_view) - 1
        /\ Dist(tail', tail') = 0
    BY <1>a, <2>1, <2>2, DistGrows, DistShrinks, DistRange, SuccWraps
  <2>4. CASE tail_view' = tail_view
    BY <1>b, <1>c, <2>1, <2>3, <2>4 DEF ViewInv
  <2>5. CASE tail_view' = tail'
    BY <1>b, <1>c, <2>1, <2>3, <2>5 DEF ViewInv
  <2>6. QED
    BY <2>1, <2>4, <2>5
<1>4. CASE SeeHead
  <2>1. /\ head_view' = Succ(head_view) /\ head_view # head
        /\ head' = head /\ tail' = tail /\ tail_view' = tail_view
    BY <1>4 DEF SeeHead
  <2>2. Succ(head_view) # tail
    <3>1. Succ(head_view) = tail => Dist(tail, head_view) = COM_QUEUE_SIZE - 1
      BY <1>a, DistGrows
    <3>2. QED
      BY <1>b, <1>c, <2>1, <3>1, SizeNat
  <2>3. /\ Dist(head_view', head) = Dist(head_view, head) - 1
        /\ Dist(tail, head_view') = Dist(tail, head_view) + 1
    BY <1>a, <2>1, <2>2, DistGrows, DistShrinks
  <2>4. QED
    BY <1>b, <1>c, <2>1, <2>3 DEF ViewInv
<1>5. CASE SeeTail
  <2>1. /\ tail_view' = Succ(tail_view) /\ tail_view # tail
        /\ head' = head /\ tail' = tail /\ head_view' = head_view
    BY <1>5 DEF SeeTail
  <2>2. tail_view # head
    BY <1>b, <1>c, <2>1
  <2>3. /\ Dist(tail_view', tail) = Dist(tail_view, tail) - 1
        /\ Dist(tail_view', head) = Dist(tail_view, head) - 1
    BY <1>a, <2>1, <2>2, DistShrinks
  <2>4. QED
    BY <1>b, <1>c, <2>1, <2>3 DEF ViewInv
<1>6. QED
  <2>1. UNCHANGED spscVars => UNCHANGED indexVars
    BY DEF spscVars, indexVars
  <2>2. EnqLoadHead("idle") \/ EnqLoadHead("full") \/ EnqLoadTail \/ EnqWrite
          => UNCHANGED indexVars
    BY DEF EnqLoadHead, EnqLoadTail, EnqWrite
  <2>3. DeqLoadTail("control", "idle") \/ DeqLoadHead("control", "idle")
          \/ DeqRead("control") => UNCHANGED indexVars
    BY DEF DeqLoadTail, DeqLoadHead, DeqRead
  <2>4. QED
    BY <1>1, <1>2, <1>3, <1>4, <1>5, <2>1, <2>2, <2>3 DEF SpscNext, Enqueue, Dequeue

\* What the COM thread knows between its loads and its store stays true: its
\* copy of head, the room it found, and the COM it wrote.
LEMMA EnqStep == SpscInv /\ [SpscNext]_spscVars => EnqInv'
<1> SUFFICES ASSUME SpscInv, [SpscNext]_spscVars PROVE EnqInv'
  OBVIOUS
<1> SpscTypeOK /\ ViewInv /\ EnqInv /\ DeqInv
  BY DEF SpscInv
<1> /\ head \in Slots /\ tail \in Slots /\ head_view \in Slots
    /\ tail_view \in Slots /\ pc \in [Threads -> EnqLabels \cup DeqLabels]
    /\ buffer \in [Slots -> Values]
  BY DEF SpscTypeOK
<1> USE DEF Goto, Threads, EnqLabels
<1>1. ASSUME NEW from \in {"idle", "full"}, EnqLoadHead(from) PROVE EnqInv'
  BY <1>1 DEF EnqLoadHead, EnqInv, indexVars
<1>2. CASE EnqLoadTail
  BY <1>2 DEF EnqLoadTail, EnqInv, TailSeen, indexVars, enqVars
<1>3. CASE EnqWrite
  BY <1>3 DEF EnqWrite, EnqInv, indexVars, enqVars
<1>4. CASE EnqStore
  BY <1>4 DEF EnqStore, EnqInv
<1>5. CASE DeqLoadTail("control", "idle")
  BY <1>5 DEF DeqLoadTail, EnqInv, indexVars, enqVars
<1>6. CASE DeqLoadHead("control", "idle")
  BY <1>6 DEF DeqLoadHead, EnqInv, indexVars, enqVars
<1>7. CASE DeqRead("control")
  BY <1>7 DEF DeqRead, EnqInv, indexVars, enqVars
<1>8. CASE DeqStore
  <2>1. /\ head' = head /\ my_head' = my_head /\ sent' = sent
        /\ buffer' = buffer /\ pc'["com"] = pc["com"]
        /\ tail_view' = tail_view \/ tail_view' = Succ(tail)
    BY <1>8 DEF DeqStore, DeqInv, StoreTail, enqVars
  <2>2. Succ(head) # Succ(tail)
    BY <1>8, RoomFacts, SuccInjective DEF DeqStore
  <2>3. QED
    BY <2>1, <2>2 DEF EnqInv
<1>9. CASE SeeHead
  BY <1>9 DEF SeeHead, EnqInv, enqVars
<1>10. CASE SeeTail
  <2>1. /\ head' = head /\ my_head' = my_head /\ sent' = sent
        /\ buffer' = buffer /\ pc' = pc
        /\ tail_view' = Succ(tail_view) /\ tail_view # tail
    BY <1>10 DEF SeeTail, enqVars
  <2>2. /\ Dist(tail_view, tail) \in Nat /\ Dist(tail, head) \in Nat
        /\ Dist(tail_view, tail) # 0
        /\ Dist(tail_view, head) = 0 <=> tail_view = head
    BY <2>1, DistRange
  <2>3. Dist(tail_view, tail) + Dist(tail, head) = Dist(tail_view, head)
    BY ViewFacts
  <2>4. tail_view # head
    BY <2>2, <2>3
  <2>5. Succ(head) # Succ(tail_view)
    BY <2>4, SuccInjective
  <2>6. QED
    BY <2>1, <2>5 DEF EnqInv
<1>11. CASE UNCHANGED spscVars
  BY <1>11 DEF spscVars, EnqInv
<1>12. QED
  BY <1>1, <1>2, <1>3, <1>4, <1>5, <1>6, <1>7, <1>8, <1>9, <1>10, <1>11
  DEF SpscNext, Enqueue, Dequeue

\* What the control thread knows stays true: its copy of tail, and that there
\* is a COM to take.
LEMMA DeqStep == SpscInv /\ [SpscNext]_spscVars => DeqInv'
<1> SUFFICES ASSUME SpscInv, [SpscNext]_spscVars PROVE DeqInv'
  OBVIOUS
<1> SpscTypeOK /\ ViewInv /\ EnqInv /\ DeqInv
  BY DEF SpscInv
<1> /\ head \in Slots /\ tail \in Slots /\ head_view \in Slots
    /\ tail_view \in Slots /\ pc \in [Threads -> EnqLabels \cup DeqLabels]
    /\ my_tail \in [Threads -> Slots]
  BY DEF SpscTypeOK
<1> USE DEF Goto, Threads, DeqLabels
<1>1. ASSUME NEW from, EnqLoadHead(from) PROVE DeqInv'
  BY <1>1 DEF EnqLoadHead, DeqInv, indexVars, deqVars
<1>2. CASE EnqLoadTail
  BY <1>2 DEF EnqLoadTail, DeqInv, indexVars, deqVars
<1>3. CASE EnqWrite
  BY <1>3 DEF EnqWrite, DeqInv, indexVars, deqVars
<1>4. CASE EnqStore
  <2>1. /\ tail' = tail /\ my_tail' = my_tail /\ pc'["control"] = pc["control"]
        /\ head_view' = head_view \/ head_view' = Succ(head)
    BY <1>4 DEF EnqStore, EnqInv, deqVars
  <2>2. Succ(head) # tail
    BY <1>4, RoomFacts DEF EnqStore
  <2>3. QED
    BY <2>1, <2>2 DEF DeqInv
<1>5. CASE DeqLoadTail("control", "idle")
  BY <1>5 DEF DeqLoadTail, DeqInv, TailSeen, indexVars
<1>6. CASE DeqLoadHead("control", "idle")
  BY <1>6 DEF DeqLoadHead, DeqInv, HeadSeen, indexVars, deqVars
<1>7. CASE DeqRead("control")
  BY <1>7 DEF DeqRead, DeqInv, indexVars
<1>8. CASE DeqStore
  BY <1>8 DEF DeqStore, DeqInv
<1>9. CASE SeeHead
  <2>1. /\ tail' = tail /\ my_tail' = my_tail /\ pc' = pc
        /\ head_view' = Succ(head_view) /\ head_view # head
    BY <1>9 DEF SeeHead, deqVars
  <2>2. /\ Dist(tail, head_view) \in Nat /\ Dist(head_view, head) \in Nat
        /\ Dist(head_view, head) # 0
        /\ Dist(tail, head) \in Nat /\ Dist(tail, head) < COM_QUEUE_SIZE
    BY <2>1, DistRange
  <2>3. Dist(tail, head_view) + Dist(head_view, head) = Dist(tail, head)
    BY ViewFacts
  <2>4. Succ(head_view) = tail => Dist(tail, head_view) = COM_QUEUE_SIZE - 1
    BY DistGrows
  <2>5. Succ(head_view) # tail
    BY <2>2, <2>3, <2>4, SizeNat
  <2>6. QED
    BY <2>1, <2>5 DEF DeqInv
<1>10. CASE SeeTail
  BY <1>10 DEF SeeTail, DeqInv, deqVars
<1>11. CASE UNCHANGED spscVars
  BY <1>11 DEF spscVars, DeqInv
<1>12. QED
  BY <1>1, <1>2, <1>3, <1>4, <1>5, <1>6, <1>7, <1>8, <1>9, <1>10, <1>11
  DEF SpscNext, Enqueue, Dequeue

\* The slots from tail to head stay the COMs not yet taken.
LEMMA ContentsStep == SpscInv /\ [SpscNext]_spscVars => SpscContents'
<1> SUFFICES ASSUME SpscInv, [SpscNext]_spscVars PROVE SpscContents'
  OBVIOUS
<1> SpscTypeOK /\ EnqInv /\ DeqInv /\ SpscContents
  BY DEF SpscInv
<1> /\ head \in Slots /\ tail \in Slots /\ head_view \in Slots
    /\ tail_view \in Slots /\ pc \in [Threads -> EnqLabels \cup DeqLabels]
    /\ buffer \in [Slots -> Values]
    /\ my_value \in [Threads -> Values]
    /\ sent \in Nat /\ taken \in Nat
  BY ValuesAssumption DEF SpscTypeOK, Values
<1> /\ Dist(tail, head) \in Nat /\ Dist(tail, head) < COM_QUEUE_SIZE
    /\ Dist(tail, head) = 0 <=> tail = head
    /\ Dist(tail, tail) = 0
    /\ \A s \in Slots : Dist(tail, s) \in Nat
  BY DistRange
<1> USE DEF Goto, Threads
<1>1. ASSUME NEW from, EnqLoadHead(from) PROVE SpscContents'
  BY <1>1 DEF EnqLoadHead, SpscContents, indexVars, deqVars
<1>2. CASE EnqLoadTail
  BY <1>2 DEF EnqLoadTail, SpscContents, indexVars, enqVars, deqVars
<1>3. CASE EnqWrite
  <2>1. /\ head' = head /\ tail' = tail /\ sent' = sent /\ taken' = taken
        /\ my_value' = my_value /\ pc'["control"] = pc["control"]
        /\ buffer' = [buffer EXCEPT ![head] = sent + 1]
    BY <1>3 DEF EnqWrite, EnqInv, indexVars, enqVars, deqVars
  <2>2. ASSUME NEW s \in Slots, Dist(tail, s) < Dist(tail, head)
        PROVE  buffer'[s] = taken + Dist(tail, s) + 1
    <3>1. s # head
      BY <2>2
    <3>2. QED
      BY <2>1, <2>2, <3>1 DEF SpscContents
  <2>3. QED
    BY <2>1, <2>2 DEF SpscContents
<1>4. CASE EnqStore
  <2>1. /\ head' = Succ(head) /\ tail' = tail /\ sent' = sent + 1
        /\ taken' = taken /\ buffer' = buffer /\ my_value' = my_value
        /\ pc'["control"] = pc["control"]
        /\ buffer[head] = sent + 1
    BY <1>4 DEF EnqStore, EnqInv, deqVars
  <2>2. Dist(tail, Succ(head)) = Dist(tail, head) + 1
    BY <1>4, RoomFacts, DistGrows DEF EnqStore
  <2>3. ASSUME NEW s \in Slots, Dist(tail, s) < Dist(tail, head) + 1
        PROVE  buffer[s] = taken + Dist(tail, s) + 1
    <3>1. CASE Dist(tail, s) < Dist(tail, head)
      BY <3>1 DEF SpscContents
    <3>2. CASE Dist(tail, s) = Dist(tail, head)
      <4>1. s = head
        BY <3>2, DistInjective
      <4>2. QED
        BY <2>1, <4>1 DEF SpscContents
    <3>3. QED
      BY <2>3, <3>1, <3>2
  <2>4. QED
    BY <2>1, <2>2, <2>3 DEF SpscContents
<1>5. CASE DeqLoadTail("control", "idle")
  BY <1>5 DEF DeqLoadTail, SpscContents, indexVars, enqVars
<1>6. CASE DeqLoadHead("control", "idle")
  BY <1>6 DEF DeqLoadHead, SpscContents, indexVars, enqVars, deqVars
<1>7. CASE DeqRead("control")
  <2>1. /\ head' = head /\ tail' = tail /\ sent' = sent /\ taken' = taken
        /\ buffer' = buffer /\ my_value'["control"] = buffer[tail]
    BY <1>7 DEF DeqRead, DeqInv, indexVars, enqVars
  <2>2. tail # head
    BY <1>7, RoomFacts DEF DeqRead
  <2>3. buffer[tail] = taken + 1
    BY <2>2 DEF SpscContents
  <2>4. QED
    BY <2>1, <2>3 DEF SpscContents
<1>8. CASE DeqStore
  <2>1. /\ tail' = Succ(tail) /\ head' = head /\ sent' = sent
        /\ taken' = taken + 1 /\ buffer' = buffer /\ pc'["control"] = "idle"
    BY <1>8 DEF DeqStore, DeqInv, StoreTail, enqVars
  <2>2. Dist(Succ(tail), head) = Dist(tail, head) - 1
    BY <1>8, RoomFacts, DistShrinks DEF DeqStore
  <2>3. ASSUME NEW s \in Slots, Dist(Succ(tail), s) < Dist(tail, head) - 1
        PROVE  buffer[s] = (taken + 1) + Dist(Succ(tail), s) + 1
    <3>1. Dist(Succ(tail), s) = IF tail = s THEN COM_QUEUE_SIZE - 1
                                            ELSE Dist(tail, s) - 1
      BY DistShrinks
    <3>2. tail # s
      BY <2>3, <3>1, SizeNat
    <3>3. QED
      BY <2>3, <3>1, <3>2 DEF SpscContents
  <2>4. QED
    BY <2>1, <2>2, <2>3 DEF SpscContents
<1>9. CASE SeeHead
  BY <1>9 DEF SeeHead, SpscContents, enqVars, deqVars
<1>10. CASE SeeTail
  BY <1>10 DEF SeeTail, SpscContents, enqVars, deqVars
<1>11. CASE UNCHANGED spscVars
  BY <1>11 DEF spscVars, SpscContents
<1>12. QED
  BY <1>1, <1>2, <1>3, <1>4, <1>5, <1>6, <1>7, <1>8, <1>9, <1>10, <1>11
  DEF SpscNext, Enqueue, Dequeue

\* The queue starts in SpscInv.
LEMMA InvInit == SpscInit => SpscInv
<1> SUFFICES ASSUME SpscInit PROVE SpscInv
  OBVIOUS
<1>1. 0 \in Slots /\ 0 \in Values
  BY SizeNat, ValuesAssumption DEF Slots, Values
<1>2. Dist(0, 0) = 0 /\ \A s \in Slots : Dist(0, s) \in Nat
  BY <1>1, DistRange
<1>3. SpscTypeOK
  BY <1>1 DEF SpscInit, SpscTypeOK, Threads, EnqLabels, DeqLabels
<1>4. ViewInv
  BY <1>2 DEF SpscInit, ViewInv
<1>5. EnqInv /\ DeqInv
  BY DEF SpscInit, EnqInv, DeqInv, Threads, EnqLabels, DeqLabels
<1>6. SpscContents
  BY <1>2 DEF SpscInit, SpscContents, Threads
<1>7. QED
  BY <1>3, <1>4, <1>5, <1>6 DEF SpscInv

-----------------------------------------------------------------------------
\* SpscInv holds of every state of the queue used by one producer and one
\* consumer.
THEOREM SpscInvariant == SpscSpec => []SpscInv
<1>1. SpscInv /\ [SpscNext]_spscVars => SpscInv'
  BY TypeStep, ViewStep, EnqStep, DeqStep, ContentsStep DEF SpscInv
<1>2. QED
  BY <1>1, InvInit, PTL DEF SpscSpec

\* No index leaves the buffer (spsc_queue.h:33, :40, :54, :55).
THEOREM SpscTypeCorrect == SpscSpec => []SpscTypeOK
<1>1. SpscInv => SpscTypeOK
  BY DEF SpscInv
<1>2. QED
  BY <1>1, SpscInvariant, PTL

\* The two threads never copy to and from the same slot at once
\* (spsc_queue.h:40 and :54), however late each sees the other's stores.
THEOREM NoTornValue == SpscSpec => []NoSlotRace
<1>1. SpscInv => NoSlotRace
  <2> SUFFICES ASSUME SpscInv, pc["com"] = "enq_write", pc["control"] = "deq_read"
               PROVE  my_head # my_tail["control"]
    BY DEF NoSlotRace
  <2>1. my_head = head /\ my_tail["control"] = tail
    BY DEF SpscInv, EnqInv, DeqInv
  <2>2. head # tail
    BY RoomFacts
  <2>3. QED
    BY <2>1, <2>2
<1>2. QED
  BY <1>1, SpscInvariant, PTL

\* The COMs are neither overwritten nor skipped nor repeated, and the control
\* thread is given them in the order in which they were accepted.
THEOREM ComsInOrder == SpscSpec => []SpscContents
<1>1. SpscInv => SpscContents
  BY DEF SpscInv
<1>2. QED
  BY <1>1, SpscInvariant, PTL

-----------------------------------------------------------------------------
(* The ring implements a first-in first-out queue: COMs are numbered in the *)
(* order of acceptance, so that the queue holds the numbers from taken + 1 *)
(* to sent.                                                                *)

CountUp(a, n) == [i \in 1 .. n |-> a + i]

\* What such a run of numbers is as a sequence.
LEMMA CountUpSeq ==
    ASSUME NEW a \in Nat, NEW n \in Nat
    PROVE  /\ CountUp(a, n) \in Seq(Nat) /\ Len(CountUp(a, n)) = n
           /\ CountUp(a, n) = <<>> <=> n = 0
           /\ Append(CountUp(a, n), a + n + 1) = CountUp(a, n + 1)
           /\ n > 0 => /\ Head(CountUp(a, n)) = a + 1
                       /\ Tail(CountUp(a, n)) = CountUp(a + 1, n - 1)
<1>1. ASSUME NEW b \in Nat, NEW m \in Nat
      PROVE  /\ CountUp(b, m) \in Seq(Nat) /\ Len(CountUp(b, m)) = m
             /\ \A i \in 1 .. m : CountUp(b, m)[i] = b + i
  BY DEF CountUp
<1> DEFINE c == CountUp(a, n)
<1>a. c \in Seq(Nat) /\ Len(c) = n /\ \A i \in 1 .. n : c[i] = a + i
  BY <1>1
<1> HIDE DEF c
<1>b. c = <<>> <=> n = 0
  BY <1>a, EmptySeq
<1>2. CountUp(a, n) = <<>> <=> n = 0
  BY <1>b DEF c
<1>3. Append(c, a + n + 1) = CountUp(a, n + 1)
  <2> DEFINE s == Append(c, a + n + 1)
             t == CountUp(a, n + 1)
  <2>1. a + n + 1 \in Nat /\ n + 1 \in Nat
    OBVIOUS
  <2>2. s \in Seq(Nat) /\ Len(s) = n + 1 /\ s[n + 1] = a + n + 1
        /\ \A i \in 1 .. n : s[i] = c[i]
    BY <1>a, <2>1, AppendProperties
  <2>3. t \in Seq(Nat) /\ Len(t) = n + 1 /\ \A i \in 1 .. n + 1 : t[i] = a + i
    BY <1>1, <2>1
  <2> HIDE DEF s, t
  <2>4. \A i \in 1 .. n + 1 : s[i] = t[i]
    BY <1>a, <2>2, <2>3
  <2>5. s = t
    BY <2>2, <2>3, <2>4, SeqEqual
  <2>6. QED BY <2>5 DEF s, t
<1>4. ASSUME n > 0
      PROVE  Head(c) = a + 1 /\ Tail(c) = CountUp(a + 1, n - 1)
  <2> DEFINE s == Tail(c)
             t == CountUp(a + 1, n - 1)
  <2>1. c # <<>> /\ a + 1 \in Nat /\ n - 1 \in Nat /\ 1 \in 1 .. n
    BY <1>b, <1>4
  <2>2. Head(c) = a + 1
    BY <1>a, <2>1
  <2>3. s \in Seq(Nat) /\ Len(s) = n - 1 /\ \A i \in 1 .. n - 1 : s[i] = c[i + 1]
    BY <1>a, <2>1, HeadTailProperties
  <2>4. t \in Seq(Nat) /\ Len(t) = n - 1 /\ \A i \in 1 .. n - 1 : t[i] = a + 1 + i
    BY <1>1, <2>1
  <2> HIDE DEF s, t
  <2>5. \A i \in 1 .. n - 1 : s[i] = t[i]
    BY <1>a, <2>1, <2>3, <2>4
  <2>6. s = t
    BY <2>3, <2>4, <2>5, SeqEqual
  <2>7. QED BY <2>2, <2>6 DEF s, t
<1>5. QED
  BY <1>a, <1>2, <1>3, <1>4 DEF c

\* The queue that the ring stands for.
HeldFacts ==
    /\ Held = CountUp(taken, sent - taken)
    /\ sent - taken \in 0 .. COM_QUEUE_SIZE - 1
    /\ sent \in Nat /\ taken \in Nat

LEMMA HeldIs == SpscInv => HeldFacts
<1> SUFFICES ASSUME SpscInv PROVE HeldFacts
  OBVIOUS
<1>1. /\ head \in Slots /\ tail \in Slots /\ sent \in Nat /\ taken \in Nat
      /\ Dist(tail, head) = sent - taken
      /\ \A s \in Slots :
            Dist(tail, s) < Dist(tail, head) => buffer[s] = taken + Dist(tail, s) + 1
  BY ValuesAssumption DEF SpscInv, SpscTypeOK, SpscContents, Values
<1>2. sent - taken \in 0 .. COM_QUEUE_SIZE - 1
  BY <1>1, DistRange, SizeNat
<1>3. ASSUME NEW i \in 1 .. sent - taken
      PROVE  buffer[(tail + i - 1) % COM_QUEUE_SIZE] = taken + i
  <2> DEFINE s == (tail + i - 1) % COM_QUEUE_SIZE
  <2>1. tail \in Nat /\ tail < COM_QUEUE_SIZE /\ i \in Nat /\ i >= 1 /\ i < COM_QUEUE_SIZE
    BY <1>1, <1>2, SizeNat DEF Slots
  <2>2. s = IF tail + i - 1 < COM_QUEUE_SIZE THEN tail + i - 1
                                             ELSE tail + i - 1 - COM_QUEUE_SIZE
    <3>1. CASE tail + i - 1 < COM_QUEUE_SIZE
      BY <2>1, <3>1, SizeNat
    <3>2. CASE tail + i - 1 >= COM_QUEUE_SIZE
      BY <2>1, <3>2, SizeNat
    <3>3. QED BY <2>1, <3>1, <3>2, SizeNat
  <2> HIDE DEF s
  <2>3. s \in Slots /\ Dist(tail, s) = i - 1
    BY <2>1, <2>2, SizeNat DEF Slots, Dist
  <2>4. buffer[s] = taken + i
    BY <1>1, <1>2, <2>1, <2>3
  <2>5. QED BY <2>4 DEF s
<1>4. Held = [i \in 1 .. sent - taken |-> buffer[(tail + i - 1) % COM_QUEUE_SIZE]]
  BY <1>1 DEF Held
<1>5. Held = CountUp(taken, sent - taken)
  BY <1>3, <1>4, Zenon DEF CountUp
<1>6. QED
  BY <1>1, <1>2, <1>5 DEF HeldFacts

\* Only the two stores of an index change the queue: the one of head puts a
\* COM in, the one of tail takes one out.
LEMMA StepImplements ==
    ASSUME SpscInv, SpscInv', [SpscNext]_spscVars
    PROVE  [Fifo!Next]_(Fifo!fifoVars)
<1>a. (SpscInv => HeldFacts)'
  BY HeldIs, PTL
<1>b. HeldFacts /\ HeldFacts'
  BY <1>a, HeldIs
<1> DEFINE n == sent - taken
<1>1. Held = CountUp(taken, n) /\ n \in Nat /\ n < COM_QUEUE_SIZE /\ taken \in Nat /\ sent = taken + n
  BY <1>b, SizeNat DEF HeldFacts
<1>2. /\ Held' = CountUp(taken', sent' - taken')
      /\ sent' - taken' \in 0 .. COM_QUEUE_SIZE - 1
  BY <1>b DEF HeldFacts
<1> HIDE DEF n
<1>c. /\ Len(Held) = n
      /\ Held = <<>> <=> n = 0
      /\ Append(Held, taken + n + 1) = CountUp(taken, n + 1)
      /\ n > 0 => /\ Head(Held) = taken + 1
                  /\ Tail(Held) = CountUp(taken + 1, n - 1)
  BY <1>1, CountUpSeq
<1>3. CASE EnqStore
  <2>1. sent' = sent + 1 /\ UNCHANGED <<taken, got>>
    BY <1>3 DEF EnqStore, deqVars
  <2>2. sent + 1 \in Values
    BY <2>1 DEF SpscInv, SpscTypeOK
  <2>3. Len(Held) < COM_QUEUE_SIZE - 1
    BY <1>1, <1>2, <1>c, <2>1, SizeNat
  <2>4. Held' = Append(Held, sent + 1)
    <3>1. taken + n + 1 = sent + 1 /\ n + 1 = sent' - taken'
      BY <1>1, <2>1
    <3>2. QED BY <1>2, <1>c, <2>1, <3>1
  <2>5. Fifo!Put(sent + 1)
    BY <2>1, <2>3, <2>4 DEF Fifo!Put
  <2>6. QED BY <2>2, <2>5 DEF Fifo!Next
<1>4. CASE DeqStore
  <2>1. taken' = taken + 1 /\ sent' = sent /\ got' = taken + 1
    BY <1>4 DEF DeqStore, enqVars, SpscInv, SpscContents
  <2>2. n > 0
    BY <1>1, <1>2, <2>1
  <2>3. /\ Held # <<>> /\ Head(Held) = taken + 1
        /\ Tail(Held) = CountUp(taken + 1, n - 1)
    BY <1>1, <1>c, <2>2
  <2>4. n - 1 = sent' - taken'
    BY <1>1, <2>1
  <2>5. Fifo!Get
    BY <1>2, <2>1, <2>3, <2>4 DEF Fifo!Get
  <2>6. QED BY <2>5 DEF Fifo!Next
<1>5. CASE UNCHANGED <<sent, taken, got>>
  BY <1>b, <1>5 DEF HeldFacts, Fifo!fifoVars
<1>6. QED
  <2>1. ~EnqStore /\ ~DeqStore => UNCHANGED <<sent, taken, got>>
    BY DEF SpscNext, Enqueue, Dequeue, EnqLoadHead, EnqLoadTail, EnqWrite,
           DeqLoadTail, DeqLoadHead, DeqRead, SeeHead, SeeTail, enqVars, deqVars,
           spscVars
  <2>2. QED BY <1>3, <1>4, <1>5, <2>1

\* The lock-free ring implements a first-in first-out queue of
\* COM_QUEUE_SIZE - 1 COMs (spsc_enqueue, spsc_dequeue).
THEOREM SpscRefinesFifo == SpscSpec => SpscImplementsFifo
<1>1. SpscInit => Fifo!Init
  <2> SUFFICES ASSUME SpscInit PROVE Fifo!Init
    OBVIOUS
  <2>1. sent = 0 /\ taken = 0 /\ got = 0
    BY DEF SpscInit
  <2>2. Held = <<>>
    BY <2>1, InvInit, HeldIs, CountUpSeq DEF HeldFacts
  <2>3. QED BY <2>1, <2>2 DEF Fifo!Init
<1>2. SpscInv /\ SpscInv' /\ [SpscNext]_spscVars => [Fifo!Next]_(Fifo!fifoVars)
  BY StepImplements
<1>3. QED
  BY <1>1, <1>2, SpscInvariant, PTL DEF SpscSpec, SpscImplementsFifo, Fifo!Spec

-----------------------------------------------------------------------------
(* The queue as the application uses it.                                   *)

\* The steps of Next one by one, without those that stores seen late would add.
Steps ==
    \/ Start
    \/ EnqLoadHead("idle") /\ UNCHANGED comVars
    \/ EnqLoadTail /\ UNCHANGED comVars
    \/ EnqWrite /\ UNCHANGED comVars
    \/ EnqStore /\ again' = FALSE /\ UNCHANGED active
    \/ ~again /\ DeqLoadTail("com", "full") /\ UNCHANGED comVars
    \/ DeqLoadHead("com", "retry") /\ UNCHANGED comVars
    \/ DeqRead("com") /\ UNCHANGED comVars
    \/ DropStore /\ UNCHANGED comVars
    \/ SecondEnqueue
    \/ GiveUp
    \/ DeqLoadTail("control", "idle") /\ UNCHANGED comVars
    \/ DeqLoadHead("control", "idle") /\ UNCHANGED comVars
    \/ DeqRead("control") /\ UNCHANGED comVars
    \/ DeqStore /\ UNCHANGED comVars

\* The ring has more than one slot.
LEMMA SuccMoves ==
    ASSUME NEW i \in Slots
    PROVE  Succ(i) # i
  BY SuccWraps, SizeNat DEF Slots

\* The steps of the two threads one by one.
LEMMA NextSteps ==
    ASSUME Next
    PROVE  /\ Steps
           /\ raced' = (raced \/ (InDequeue("com")' /\ InDequeue("control")'))
  BY DEF Next, FirstEnqueue, Discard, ControlDequeue, Dequeue, Steps

-----------------------------------------------------------------------------
(* What holds whoever dequeues.                                            *)

LEMMA ComTypeStep ==
    ASSUME Delayed = FALSE, ComInv, [Next]_vars
    PROVE  ComTypeOK'
<1> ComTypeOK /\ WriterInv
  BY DEF ComInv
<1> Succ(my_head) \in Slots /\ \A t \in Threads : Succ(my_tail[t]) \in Slots
  BY SuccWraps DEF ComTypeOK
<1> \A v \in Values : v < MaxValues => v + 1 \in Values
  BY ValuesAssumption DEF Values
<1> (raced \in BOOLEAN)'
  <2>1. Next => raced' \in BOOLEAN
    BY NextSteps
  <2>2. QED BY <2>1 DEF vars, ComTypeOK
<1> USE DEF ComTypeOK, Goto, Threads, EnqLabels, DeqLabels,
        comVars, indexVars, enqVars, deqVars, StoreTail
<1>1. CASE Start
  BY <1>1 DEF Start, spscVars
<1>2. CASE EnqLoadHead("idle") /\ UNCHANGED comVars
  BY <1>2 DEF EnqLoadHead
<1>3. CASE EnqLoadTail /\ UNCHANGED comVars
  BY <1>3 DEF EnqLoadTail
<1>4. CASE EnqWrite /\ UNCHANGED comVars
  BY <1>4 DEF EnqWrite, WriterInv
<1>5. CASE EnqStore /\ again' = FALSE /\ UNCHANGED active
  BY <1>5 DEF EnqStore, WriterInv
<1>6. CASE DeqLoadTail("com", "full") /\ UNCHANGED comVars
  BY <1>6 DEF DeqLoadTail, TailSeen
<1>7. CASE DeqLoadHead("com", "retry") /\ UNCHANGED comVars
  BY <1>7 DEF DeqLoadHead
<1>8. CASE DeqRead("com") /\ UNCHANGED comVars
  BY <1>8 DEF DeqRead
<1>9. CASE DropStore /\ UNCHANGED comVars
  BY <1>9 DEF DropStore
<1>10. CASE SecondEnqueue
  BY <1>10 DEF SecondEnqueue, EnqLoadHead
<1>11. CASE GiveUp
  BY <1>11 DEF GiveUp
<1>12. CASE DeqLoadTail("control", "idle") /\ UNCHANGED comVars
  BY <1>12 DEF DeqLoadTail, TailSeen
<1>13. CASE DeqLoadHead("control", "idle") /\ UNCHANGED comVars
  BY <1>13 DEF DeqLoadHead
<1>14. CASE DeqRead("control") /\ UNCHANGED comVars
  BY <1>14 DEF DeqRead
<1>15. CASE DeqStore /\ UNCHANGED comVars
  BY <1>15 DEF DeqStore
<1>16. CASE UNCHANGED vars
  BY <1>16 DEF vars, spscVars
<1>17. QED
  BY <1>1, <1>2, <1>3, <1>4, <1>5, <1>6, <1>7, <1>8, <1>9, <1>10, <1>11,
     <1>12, <1>13, <1>14, <1>15, <1>16, NextSteps DEF Steps

LEMMA WriterStep ==
    ASSUME ComInv, [Next]_vars
    PROVE  WriterInv'
<1> WriterInv
  BY DEF ComInv
<1> /\ pc \in [Threads -> EnqLabels \cup DeqLabels \cup {"retry"}]
    /\ pc["control"] \in DeqLabels
    /\ buffer \in [Slots -> Values] /\ my_head \in Slots /\ again \in BOOLEAN
  BY DEF ComInv, ComTypeOK
<1> USE DEF WriterInv, Goto, Threads, comVars, indexVars, enqVars, deqVars, StoreTail
<1>1. CASE Start
  BY <1>1 DEF Start, spscVars
<1>2. CASE EnqLoadHead("idle") /\ UNCHANGED comVars
  BY <1>2 DEF EnqLoadHead
<1>3. CASE EnqLoadTail /\ UNCHANGED comVars
  BY <1>3 DEF EnqLoadTail
<1>4. CASE EnqWrite /\ UNCHANGED comVars
  BY <1>4 DEF EnqWrite
<1>5. CASE EnqStore /\ again' = FALSE /\ UNCHANGED active
  BY <1>5 DEF EnqStore
<1>6. CASE ~again /\ DeqLoadTail("com", "full") /\ UNCHANGED comVars
  BY <1>6 DEF DeqLoadTail
<1>7. CASE DeqLoadHead("com", "retry") /\ UNCHANGED comVars
  BY <1>7 DEF DeqLoadHead
<1>8. CASE DeqRead("com") /\ UNCHANGED comVars
  BY <1>8 DEF DeqRead
<1>9. CASE DropStore /\ UNCHANGED comVars
  BY <1>9 DEF DropStore
<1>10. CASE SecondEnqueue
  BY <1>10 DEF SecondEnqueue, EnqLoadHead
<1>11. CASE GiveUp
  BY <1>11 DEF GiveUp
<1>12. CASE DeqLoadTail("control", "idle") /\ UNCHANGED comVars
  BY <1>12 DEF DeqLoadTail
<1>13. CASE DeqLoadHead("control", "idle") /\ UNCHANGED comVars
  BY <1>13 DEF DeqLoadHead
<1>14. CASE DeqRead("control") /\ UNCHANGED comVars
  BY <1>14 DEF DeqRead
<1>15. CASE DeqStore /\ UNCHANGED comVars
  BY <1>15 DEF DeqStore
<1>16. CASE UNCHANGED vars
  BY <1>16 DEF vars, spscVars
<1>17. QED
  BY <1>1, <1>2, <1>3, <1>4, <1>5, <1>6, <1>7, <1>8, <1>9, <1>10, <1>11,
     <1>12, <1>13, <1>14, <1>15, <1>16, NextSteps DEF Steps

-----------------------------------------------------------------------------
(* What holds until both threads were inside spsc_dequeue at once.         *)

\* A step that does not put both threads there starts from a state that
\* neither of them was raced in.
LEMMA NotRaced ==
    ASSUME ComInv, [Next]_vars, ~raced'
    PROVE  /\ TailInv /\ RoomInv /\ OrderInv /\ ~raced
           /\ (~(InDequeue("com") /\ InDequeue("control")))'
<1>1. ~raced
  <2>1. Next => ~raced
    BY NextSteps
  <2>2. QED BY <2>1 DEF vars
<1>2. TailInv /\ RoomInv /\ OrderInv
  BY <1>1 DEF ComInv
<1>3. (~(InDequeue("com") /\ InDequeue("control")))'
  <2>1. CASE Next
    BY <2>1, NextSteps
  <2>2. CASE UNCHANGED vars
    BY <1>2, <2>2 DEF vars, spscVars, TailInv, InDequeue
  <2>3. QED BY <2>1, <2>2
<1>4. QED
  BY <1>1, <1>2, <1>3

\* What a thread about to store an index knows of the ring.
LEMMA StoreFacts ==
    ASSUME ComInv, TailInv, RoomInv
    PROVE  /\ pc["com"] = "enq_store" => my_head = head /\ Succ(head) # tail
           /\ \A t \in Threads :
                 pc[t] = "deq_store" => /\ my_tail[t] = tail /\ head # tail
                                        /\ Succ(head) # Succ(tail)
<1>1. head \in Slots /\ tail \in Slots
  BY DEF ComInv, ComTypeOK
<1>2. head # tail => Succ(head) # Succ(tail)
  BY <1>1, SuccInjective
<1>3. pc["com"] = "enq_store" => my_head = head /\ Succ(head) # tail
  BY DEF ComInv, WriterInv, RoomInv
<1>4. ASSUME NEW t \in Threads, pc[t] = "deq_store"
      PROVE  my_tail[t] = tail /\ head # tail
  BY <1>4 DEF TailInv, InDequeue
<1>5. QED
  BY <1>2, <1>3, <1>4

LEMMA TailStep ==
    ASSUME ComInv, [Next]_vars, ~raced'
    PROVE  TailInv'
<1> /\ TailInv /\ RoomInv
    /\ (~(InDequeue("com") /\ InDequeue("control")))'
  BY NotRaced
<1> /\ pc \in [Threads -> EnqLabels \cup DeqLabels \cup {"retry"}]
    /\ head_view = head /\ tail_view = tail
    /\ my_tail \in [Threads -> Slots]
  BY DEF ComInv, ComTypeOK
<1> USE DEF TailInv, InDequeue, Goto, Threads, comVars, indexVars, enqVars, deqVars,
        StoreTail
<1>1. CASE Start
  BY <1>1 DEF Start, spscVars
<1>2. CASE EnqLoadHead("idle") /\ UNCHANGED comVars
  BY <1>2 DEF EnqLoadHead
<1>3. CASE EnqLoadTail /\ UNCHANGED comVars
  BY <1>3 DEF EnqLoadTail
<1>4. CASE EnqWrite /\ UNCHANGED comVars
  BY <1>4 DEF EnqWrite
<1>5. CASE EnqStore /\ again' = FALSE /\ UNCHANGED active
  BY <1>5, StoreFacts DEF EnqStore
<1>6. CASE ~again /\ DeqLoadTail("com", "full") /\ UNCHANGED comVars
  BY <1>6 DEF DeqLoadTail, TailSeen
<1>7. CASE DeqLoadHead("com", "retry") /\ UNCHANGED comVars
  BY <1>7 DEF DeqLoadHead, HeadSeen
<1>8. CASE DeqRead("com") /\ UNCHANGED comVars
  BY <1>8 DEF DeqRead
<1>9. CASE DropStore /\ UNCHANGED comVars
  BY <1>9, StoreFacts DEF DropStore
<1>10. CASE SecondEnqueue
  BY <1>10 DEF SecondEnqueue, EnqLoadHead
<1>11. CASE GiveUp
  BY <1>11 DEF GiveUp
<1>12. CASE DeqLoadTail("control", "idle") /\ UNCHANGED comVars
  BY <1>12 DEF DeqLoadTail, TailSeen
<1>13. CASE DeqLoadHead("control", "idle") /\ UNCHANGED comVars
  BY <1>13 DEF DeqLoadHead, HeadSeen
<1>14. CASE DeqRead("control") /\ UNCHANGED comVars
  BY <1>14 DEF DeqRead
<1>15. CASE DeqStore /\ UNCHANGED comVars
  BY <1>15, StoreFacts DEF DeqStore
<1>16. CASE UNCHANGED vars
  BY <1>16 DEF vars, spscVars
<1>17. QED
  BY <1>1, <1>2, <1>3, <1>4, <1>5, <1>6, <1>7, <1>8, <1>9, <1>10, <1>11,
     <1>12, <1>13, <1>14, <1>15, <1>16, NextSteps DEF Steps

LEMMA RoomStep ==
    ASSUME ComInv, [Next]_vars, ~raced'
    PROVE  RoomInv'
<1> TailInv /\ RoomInv
  BY NotRaced
<1> /\ pc \in [Threads -> EnqLabels \cup DeqLabels \cup {"retry"}]
    /\ pc["control"] \in DeqLabels
    /\ head \in Slots /\ tail \in Slots
    /\ head_view = head /\ tail_view = tail
    /\ my_head \in Slots /\ again \in BOOLEAN
    /\ WriterInv /\ Succ(head) # head
  BY SuccMoves DEF ComInv, ComTypeOK
<1> USE DEF RoomInv, WriterInv, Goto, Threads, comVars, indexVars, enqVars, deqVars,
        StoreTail
<1>1. CASE Start
  BY <1>1 DEF Start, spscVars
<1>2. CASE EnqLoadHead("idle") /\ UNCHANGED comVars
  BY <1>2 DEF EnqLoadHead
<1>3. CASE EnqLoadTail /\ UNCHANGED comVars
  BY <1>3 DEF EnqLoadTail, TailSeen
<1>4. CASE EnqWrite /\ UNCHANGED comVars
  BY <1>4 DEF EnqWrite
<1>5. CASE EnqStore /\ again' = FALSE /\ UNCHANGED active
  BY <1>5, StoreFacts DEF EnqStore
<1>6. CASE ~again /\ DeqLoadTail("com", "full") /\ UNCHANGED comVars
  BY <1>6 DEF DeqLoadTail, TailSeen
<1>7. CASE DeqLoadHead("com", "retry") /\ UNCHANGED comVars
  <2>1. my_tail["com"] = tail
    BY <1>7 DEF DeqLoadHead, TailInv, InDequeue
  <2>2. QED BY <1>7, <2>1 DEF DeqLoadHead, HeadSeen
<1>8. CASE DeqRead("com") /\ UNCHANGED comVars
  BY <1>8 DEF DeqRead
<1>9. CASE DropStore /\ UNCHANGED comVars
  BY <1>9, StoreFacts DEF DropStore
<1>10. CASE SecondEnqueue
  BY <1>10 DEF SecondEnqueue, EnqLoadHead
<1>11. CASE GiveUp
  BY <1>11 DEF GiveUp
<1>12. CASE DeqLoadTail("control", "idle") /\ UNCHANGED comVars
  BY <1>12 DEF DeqLoadTail, TailSeen
<1>13. CASE DeqLoadHead("control", "idle") /\ UNCHANGED comVars
  BY <1>13 DEF DeqLoadHead, HeadSeen
<1>14. CASE DeqRead("control") /\ UNCHANGED comVars
  BY <1>14 DEF DeqRead
<1>15. CASE DeqStore /\ UNCHANGED comVars
  BY <1>15, StoreFacts DEF DeqStore, DeqLabels
<1>16. CASE UNCHANGED vars
  BY <1>16 DEF vars, spscVars
<1>17. QED
  BY <1>1, <1>2, <1>3, <1>4, <1>5, <1>6, <1>7, <1>8, <1>9, <1>10, <1>11,
     <1>12, <1>13, <1>14, <1>15, <1>16, NextSteps DEF Steps

\* The store of tail, by either thread, takes the oldest COM out.
LEMMA OldestGoes ==
    ASSUME head \in Slots, tail \in Slots, head # tail, OrderInv,
           buffer \in [Slots -> Values], sent \in Nat, NEW g \in Nat,
           g + Dist(tail, head) <= sent + 1
    PROVE  /\ \A s \in Slots :
                Dist(Succ(tail), s) < Dist(Succ(tail), head) =>
                    buffer[s] + Dist(s, head) = sent + 1
           /\ g + Dist(Succ(tail), head) <= sent
<1>1. /\ Dist(tail, head) \in Nat /\ Dist(tail, head) < COM_QUEUE_SIZE
      /\ Dist(tail, head) # 0
  BY DistRange
<1>2. Dist(Succ(tail), head) = Dist(tail, head) - 1
  BY DistShrinks
<1>3. ASSUME NEW s \in Slots, Dist(Succ(tail), s) < Dist(tail, head) - 1
      PROVE  buffer[s] + Dist(s, head) = sent + 1
  <2>1. Dist(tail, s) \in Nat
    BY DistRange
  <2>2. Dist(Succ(tail), s) = IF tail = s THEN COM_QUEUE_SIZE - 1
                                          ELSE Dist(tail, s) - 1
    BY DistShrinks
  <2>3. Dist(tail, s) < Dist(tail, head)
    BY <1>1, <1>3, <2>1, <2>2, SizeNat
  <2>4. QED BY <2>3 DEF OrderInv
<1>4. QED
  BY <1>1, <1>2, <1>3

LEMMA OrderStep ==
    ASSUME ComInv, [Next]_vars, ~raced'
    PROVE  OrderInv'
<1> TailInv /\ RoomInv /\ OrderInv /\ (~(InDequeue("com") /\ InDequeue("control")))'
  BY NotRaced
<1> /\ pc \in [Threads -> EnqLabels \cup DeqLabels \cup {"retry"}]
    /\ head \in Slots /\ tail \in Slots /\ head_view = head
    /\ my_tail \in [Threads -> Slots]
    /\ my_value \in [Threads -> Values]
    /\ buffer \in [Slots -> Values] /\ Values \subseteq Nat
    /\ sent \in Nat /\ got \in Nat
    /\ WriterInv
  BY ValuesAssumption DEF ComInv, ComTypeOK, Values
<1> /\ Dist(tail, head) \in Nat
    /\ Dist(tail, head) = 0 <=> tail = head
    /\ Dist(tail, tail) = 0
    /\ \A s \in Slots : Dist(tail, s) \in Nat /\ Dist(s, head) \in Nat
  BY DistRange
<1> USE DEF OrderInv, Goto, Threads, comVars, indexVars, enqVars, deqVars, StoreTail
<1>1. CASE Start
  BY <1>1 DEF Start, spscVars
<1>2. CASE EnqLoadHead("idle") /\ UNCHANGED comVars
  BY <1>2 DEF EnqLoadHead
<1>3. CASE EnqLoadTail /\ UNCHANGED comVars
  BY <1>3 DEF EnqLoadTail
<1>4. CASE EnqWrite /\ UNCHANGED comVars
  <2>1. /\ UNCHANGED <<head, tail, sent, got, my_value>> /\ pc'["control"] = pc["control"]
        /\ buffer' = [buffer EXCEPT ![head] = sent + 1]
    BY <1>4 DEF EnqWrite, WriterInv
  <2>2. ASSUME NEW s \in Slots, Dist(tail, s) < Dist(tail, head)
        PROVE  buffer'[s] + Dist(s, head) = sent + 1
    <3>1. s # head
      BY <2>2
    <3>2. QED BY <2>1, <2>2, <3>1
  <2>3. QED BY <2>1, <2>2
<1>5. CASE EnqStore /\ again' = FALSE /\ UNCHANGED active
  <2>1. /\ head' = Succ(head) /\ tail' = tail /\ sent' = sent + 1
        /\ UNCHANGED <<buffer, got, my_value>> /\ pc'["control"] = pc["control"]
        /\ buffer[head] = sent + 1
    BY <1>5 DEF EnqStore, WriterInv
  <2>2. Succ(head) # tail /\ Succ(head) \in Slots
    BY <1>5, StoreFacts, SuccWraps DEF EnqStore
  <2>3. Dist(tail, Succ(head)) = Dist(tail, head) + 1
    BY <2>2, DistGrows
  <2>4. ASSUME NEW s \in Slots, Dist(tail, s) < Dist(tail, head) + 1
        PROVE  buffer[s] + Dist(s, Succ(head)) = sent + 1 + 1
    <3>1. CASE Dist(tail, s) < Dist(tail, head)
      <4>1. Succ(head) # s
        BY <2>3, <3>1
      <4>2. Dist(s, Succ(head)) = Dist(s, head) + 1
        BY <4>1, DistGrows
      <4>3. buffer[s] + Dist(s, head) = sent + 1 /\ buffer[s] \in Nat
        BY <3>1
      <4>4. QED BY <4>2, <4>3
    <3>2. CASE Dist(tail, s) = Dist(tail, head)
      <4>1. s = head
        BY <3>2, DistInjective
      <4>2. Succ(head) # head
        BY SuccMoves
      <4>3. Dist(head, Succ(head)) = Dist(head, head) + 1 /\ Dist(head, head) = 0
        BY <4>2, DistGrows, DistRange
      <4>4. QED BY <2>1, <4>1, <4>3
    <3>3. QED BY <2>4, <3>1, <3>2
  <2>5. pc["control"] = "deq_store" =>
          my_value["control"] + (Dist(tail, head) + 1) = sent + 1 + 1
    <3>1. my_value["control"] \in Nat
      OBVIOUS
    <3>2. QED BY <3>1
  <2>6. got + (Dist(tail, head) + 1) <= sent + 1
    OBVIOUS
  <2>7. QED BY <2>1, <2>3, <2>4, <2>5, <2>6
<1>6. CASE ~again /\ DeqLoadTail("com", "full") /\ UNCHANGED comVars
  BY <1>6 DEF DeqLoadTail
<1>7. CASE DeqLoadHead("com", "retry") /\ UNCHANGED comVars
  BY <1>7 DEF DeqLoadHead
<1>8. CASE DeqRead("com") /\ UNCHANGED comVars
  BY <1>8 DEF DeqRead
<1>9. CASE DropStore /\ UNCHANGED comVars
  <2>1. /\ tail' = Succ(tail) /\ head # tail
        /\ UNCHANGED <<head, buffer, sent, got>>
    BY <1>9, StoreFacts DEF DropStore
  <2>2. pc'["control"] # "deq_store"
    BY <1>9 DEF DropStore, TailInv, InDequeue
  <2>3. got + Dist(tail, head) <= sent + 1
    OBVIOUS
  <2>4. QED BY <2>1, <2>2, <2>3, OldestGoes
<1>10. CASE SecondEnqueue
  BY <1>10 DEF SecondEnqueue, EnqLoadHead
<1>11. CASE GiveUp
  BY <1>11 DEF GiveUp
<1>12. CASE DeqLoadTail("control", "idle") /\ UNCHANGED comVars
  BY <1>12 DEF DeqLoadTail
<1>13. CASE DeqLoadHead("control", "idle") /\ UNCHANGED comVars
  BY <1>13 DEF DeqLoadHead
<1>14. CASE DeqRead("control") /\ UNCHANGED comVars
  <2>1. my_tail["control"] = tail /\ head # tail
    BY <1>14 DEF DeqRead, TailInv, InDequeue
  <2>2. buffer[tail] + Dist(tail, head) = sent + 1
    BY <2>1
  <2>3. my_value'["control"] = buffer[tail] /\ UNCHANGED <<head, tail, buffer, sent, got>>
    BY <1>14, <2>1 DEF DeqRead
  <2>4. QED BY <2>2, <2>3
<1>15. CASE DeqStore /\ UNCHANGED comVars
  <2>1. /\ tail' = Succ(tail) /\ head # tail /\ pc'["control"] = "idle"
        /\ UNCHANGED <<head, buffer, sent>> /\ got' = my_value["control"]
    BY <1>15, StoreFacts DEF DeqStore
  <2>2. my_value["control"] \in Nat /\ my_value["control"] + Dist(tail, head) <= sent + 1
    BY <1>15 DEF DeqStore
  <2>3. QED BY <2>1, <2>2, OldestGoes
<1>16. CASE UNCHANGED vars
  BY <1>16 DEF vars, spscVars
<1>17. QED
  BY <1>1, <1>2, <1>3, <1>4, <1>5, <1>6, <1>7, <1>8, <1>9, <1>10, <1>11,
     <1>12, <1>13, <1>14, <1>15, <1>16, NextSteps DEF Steps

-----------------------------------------------------------------------------
LEMMA ComInvInit == Init => ComInv
<1> SUFFICES ASSUME Init PROVE ComInv
  OBVIOUS
<1>1. 0 \in Slots /\ 0 \in Values
  BY SizeNat, ValuesAssumption DEF Slots, Values
<1>2. Dist(0, 0) = 0 /\ \A s \in Slots : Dist(0, s) \in Nat
  BY <1>1, DistRange
<1>3. ComTypeOK /\ WriterInv
  BY <1>1 DEF Init, SpscInit, ComTypeOK, WriterInv, Threads, EnqLabels, DeqLabels
<1>4. TailInv /\ RoomInv
  BY DEF Init, SpscInit, TailInv, RoomInv, InDequeue, Threads
<1>5. OrderInv
  BY <1>2 DEF Init, SpscInit, OrderInv, Threads
<1>6. QED
  BY <1>3, <1>4, <1>5 DEF ComInv

THEOREM ComInvariant ==
    ASSUME Delayed = FALSE
    PROVE  Spec => []ComInv
<1>1. ComInv /\ [Next]_vars => ComInv'
  BY ComTypeStep, WriterStep, TailStep, RoomStep, OrderStep DEF ComInv
<1>2. QED
  BY <1>1, ComInvInit, PTL DEF Spec

\* The second spsc_enqueue finds room (com_calculator.c:75).
THEOREM RetryAlwaysSucceeds ==
    ASSUME Delayed = FALSE
    PROVE  Spec => []RetrySucceeds
<1>1. ComInv => RetrySucceeds
  BY DEF ComInv, RoomInv, RetrySucceeds
<1>2. QED
  BY <1>1, ComInvariant, PTL

\* A full queue costs the oldest COMs and leaves the newest, without a gap
\* (com_calculator.c:72-76).
THEOREM NewestAlwaysKept ==
    ASSUME Delayed = FALSE
    PROVE  Spec => []NewestKept
<1>1. ComInv => NewestKept
  BY DEF ComInv, OrderInv, NewestKept
<1>2. QED
  BY <1>1, ComInvariant, PTL

\* Each COM that the control thread is given is newer than the one before
\* (spsc_dequeue, DeqStore).
THEOREM AlwaysDeliveredInOrder ==
    ASSUME Delayed = FALSE
    PROVE  Spec => DeliveredInOrder
<1>1. ComInv /\ [Next]_vars => [~raced' /\ got' # got => got' > got]_vars
  <2> SUFFICES ASSUME ComInv, [Next]_vars, ~raced', got' # got
               PROVE  got' > got
    OBVIOUS
  <2>1. OrderInv /\ TailInv
    BY NotRaced
  <2>2. DeqStore
    <3>1. UNCHANGED vars => UNCHANGED got
      BY DEF vars, spscVars
    <3>2. Steps /\ ~DeqStore => UNCHANGED got
      BY DEF Steps, Start, EnqLoadHead, EnqLoadTail, EnqWrite, EnqStore, DeqLoadTail,
             DeqLoadHead, DeqRead, DropStore, SecondEnqueue, GiveUp, spscVars, deqVars
    <3>3. QED BY <3>1, <3>2, NextSteps
  <2>3. got' + Dist(tail, head) = sent + 1 /\ got + Dist(tail, head) <= sent
    BY <2>1, <2>2 DEF DeqStore, OrderInv
  <2>4. got \in Nat /\ got' \in Nat /\ sent \in Nat /\ Dist(tail, head) \in Nat
    <3>1. ComTypeOK /\ ComTypeOK'
      BY ComTypeStep DEF ComInv
    <3>2. QED BY <3>1, DistRange, ValuesAssumption DEF ComTypeOK, Values
  <2>5. QED BY <2>3, <2>4
<1>2. QED
  BY <1>1, ComInvariant, PTL DEF Spec, DeliveredInOrder
=============================================================================
