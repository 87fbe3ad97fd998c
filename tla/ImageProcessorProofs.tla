------------------------ MODULE ImageProcessorProofs ------------------------
(***************************************************************************)
(* Proofs about the mask queue and the life cycle of its threads, for any  *)
(* size of the ring and any number of frames.  ImageInv is inductive; each *)
(* of its conjuncts has a lemma that says that a step keeps it.            *)
(***************************************************************************)
EXTENDS ImageProcessor, SequenceTheorems, TLAPS

\* Arithmetic of the ring: an index wraps from the last slot to slot 0, rear
\* and front advance together with the count, and the offset of a slot.
LEMMA SuccWraps ==
    ASSUME NEW i \in Slots
    PROVE  /\ Succ(i) = IF i = GREEN_MASK_QUEUE_SIZE - 1 THEN 0 ELSE i + 1
           /\ Succ(i) \in Slots
<1>1. CASE i = GREEN_MASK_QUEUE_SIZE - 1
  BY <1>1, SizeAssumption DEF Succ, Slots
<1>2. CASE i # GREEN_MASK_QUEUE_SIZE - 1
  BY <1>2, SizeAssumption DEF Succ, Slots
<1>3. QED
  BY <1>1, <1>2

\* The slot behind the last mask moves with the count.
LEMMA RearAdvances ==
    ASSUME NEW f \in Slots, NEW c \in 0 .. GREEN_MASK_QUEUE_SIZE - 1
    PROVE  /\ Plus(f, c) \in Slots
           /\ Succ(Plus(f, c)) = Plus(f, c + 1)
<1>1. Plus(f, c) \in Slots
  BY SizeAssumption DEF Plus, Slots
<1>2. QED
  BY <1>1, SuccWraps, SizeAssumption DEF Plus, Slots

\* Taking a mask leaves the slot behind the last mask where it is.
LEMMA FrontAdvances ==
    ASSUME NEW f \in Slots, NEW c \in 1 .. GREEN_MASK_QUEUE_SIZE
    PROVE  Plus(Succ(f), c - 1) = Plus(f, c)
  BY SuccWraps, SizeAssumption DEF Plus, Slots

\* The offset of a slot, and how it changes when front advances.
LEMMA OffsetOfSlot ==
    ASSUME NEW f \in Slots, NEW s \in Slots
    PROVE  /\ Offset(f, s) \in 0 .. GREEN_MASK_QUEUE_SIZE - 1
           /\ Offset(Succ(f), s) = IF s = f THEN GREEN_MASK_QUEUE_SIZE - 1
                                            ELSE Offset(f, s) - 1
           /\ Offset(f, s) = 0 <=> s = f
           /\ \A c \in 0 .. GREEN_MASK_QUEUE_SIZE - 1 :
                 Offset(f, s) = c <=> s = Plus(f, c)
  BY SuccWraps, SizeAssumption DEF Offset, Plus, Slots

-----------------------------------------------------------------------------
\* Each thread stays on its own labels, and is off until it was created.
LEMMA LifeStep == ImageInv /\ [Next]_vars => LifeInv'
<1> SUFFICES ASSUME ImageInv, [Next]_vars PROVE LifeInv'
  OBVIOUS
<1> pc \in [Threads -> Labels] /\ LifeInv
  BY DEF ImageInv, ImageTypeOK, TypeOK
<1> USE DEF LifeInv, Labels, GreenLabels, ComLabels, Goto, Threads, Other, Woken
<1>1. CASE GreenSetup /\ UNCHANGED <<mpc, joins>>
  BY <1>1 DEF GreenSetup, queueVars, dataVars, histVars
<1>2. CASE NoSample /\ UNCHANGED <<mpc, joins>>
  BY <1>2 DEF NoSample, queueVars, dataVars, histVars
<1>3. CASE PullSample /\ UNCHANGED <<mpc, joins>>
  BY <1>3 DEF PullSample, queueVars, dataVars, histVars
<1>4. CASE GreenCopy /\ UNCHANGED <<mpc, joins>>
  BY <1>4 DEF GreenCopy, queueVars, dataVars, histVars
<1>5. CASE GreenAdvance /\ UNCHANGED <<mpc, joins>>
  BY <1>5 DEF GreenAdvance, queueVars, dataVars, histVars
<1>6. CASE ComCopy /\ UNCHANGED <<mpc, joins>>
  BY <1>6 DEF ComCopy, queueVars, dataVars, histVars
<1>7. CASE ComAdvance /\ UNCHANGED <<mpc, joins>>
  BY <1>7 DEF ComAdvance, queueVars, dataVars, histVars
<1>8. CASE CalculateCom /\ UNCHANGED <<mpc, joins>>
  BY <1>8 DEF CalculateCom, queueVars, dataVars, histVars
<1>9. CASE CheckStop /\ UNCHANGED <<mpc, joins>>
  BY <1>9 DEF CheckStop, queueVars, dataVars, histVars
<1>10. ASSUME NEW t \in Threads, Lock(t), UNCHANGED <<mpc, joins>> PROVE LifeInv'
  BY <1>10 DEF Lock, queueVars, dataVars, histVars
<1>11. ASSUME NEW t \in Threads, Test(t), UNCHANGED <<mpc, joins>> PROVE LifeInv'
  BY <1>11 DEF Test, queueVars, dataVars, histVars
<1>12. ASSUME NEW t \in Threads, SpuriousWakeup(t), UNCHANGED <<mpc, joins>> PROVE LifeInv'
  BY <1>12 DEF SpuriousWakeup, queueVars, dataVars, histVars
<1>13. ASSUME NEW t \in Threads, Signal(t), UNCHANGED <<mpc, joins>> PROVE LifeInv'
  BY <1>13 DEF Signal, queueVars, dataVars, histVars
<1>14. ASSUME NEW t \in Threads, Unlock(t), UNCHANGED <<mpc, joins>> PROVE LifeInv'
  BY <1>14 DEF Unlock, queueVars, dataVars, histVars
<1>15. CASE CreateProducer
  BY <1>15 DEF CreateProducer, queueVars, dataVars, histVars
<1>16. CASE CreateConsumer
  BY <1>16 DEF CreateConsumer, queueVars, dataVars, histVars
<1>17. CASE RaiseStop
  BY <1>17 DEF RaiseStop, queueVars, dataVars, histVars
<1>18. CASE WakeCom
  BY <1>18 DEF WakeCom, queueVars, dataVars, histVars
<1>19. CASE WakeGreen
  BY <1>19 DEF WakeGreen, queueVars, dataVars, histVars
<1>20. CASE Join
  BY <1>20 DEF Join, queueVars, dataVars, histVars
<1>21. CASE UNCHANGED vars
  BY <1>21 DEF vars, queueVars, dataVars, histVars
<1> QED
  BY <1>1, <1>2, <1>3, <1>4, <1>5, <1>6, <1>7, <1>8, <1>9, <1>10, <1>11,
     <1>12, <1>13, <1>14, <1>15, <1>16, <1>17, <1>18, <1>19, <1>20, <1>21
  DEF Next, QueueNext, ThreadStep, StartStep, StopStep

\* Whoever is inside the guarded section owns the mutex; only when the
\* consumer has left for good may the producer's ownership have been taken.
LEMMA LockStep == ImageInv /\ [Next]_vars => LockInv'
<1> SUFFICES ASSUME ImageInv, [Next]_vars PROVE LockInv'
  OBVIOUS
<1> pc \in [Threads -> Labels] /\ LockInv /\ LifeInv
  BY DEF ImageInv, ImageTypeOK, TypeOK
<1> USE DEF LockInv, LifeInv, InCS, Goto, Threads, Free, Other, Woken
<1>1. CASE GreenSetup /\ UNCHANGED <<mpc, joins>>
  BY <1>1 DEF GreenSetup, queueVars, dataVars, histVars
<1>2. CASE NoSample /\ UNCHANGED <<mpc, joins>>
  BY <1>2 DEF NoSample, queueVars, dataVars, histVars
<1>3. CASE PullSample /\ UNCHANGED <<mpc, joins>>
  BY <1>3 DEF PullSample, queueVars, dataVars, histVars
<1>4. CASE GreenCopy /\ UNCHANGED <<mpc, joins>>
  BY <1>4 DEF GreenCopy, queueVars, dataVars, histVars
<1>5. CASE GreenAdvance /\ UNCHANGED <<mpc, joins>>
  BY <1>5 DEF GreenAdvance, queueVars, dataVars, histVars
<1>6. CASE ComCopy /\ UNCHANGED <<mpc, joins>>
  BY <1>6 DEF ComCopy, queueVars, dataVars, histVars
<1>7. CASE ComAdvance /\ UNCHANGED <<mpc, joins>>
  BY <1>7 DEF ComAdvance, queueVars, dataVars, histVars
<1>8. CASE CalculateCom /\ UNCHANGED <<mpc, joins>>
  BY <1>8 DEF CalculateCom, queueVars, dataVars, histVars
<1>9. CASE CheckStop /\ UNCHANGED <<mpc, joins>>
  BY <1>9 DEF CheckStop, queueVars, dataVars, histVars
<1>10. ASSUME NEW t \in Threads, Lock(t), UNCHANGED <<mpc, joins>> PROVE LockInv'
  BY <1>10 DEF Lock, queueVars, dataVars, histVars
<1>11. ASSUME NEW t \in Threads, Test(t), UNCHANGED <<mpc, joins>> PROVE LockInv'
  BY <1>11 DEF Test, queueVars, dataVars, histVars
<1>12. ASSUME NEW t \in Threads, SpuriousWakeup(t), UNCHANGED <<mpc, joins>> PROVE LockInv'
  BY <1>12 DEF SpuriousWakeup, queueVars, dataVars, histVars
<1>13. ASSUME NEW t \in Threads, Signal(t), UNCHANGED <<mpc, joins>> PROVE LockInv'
  BY <1>13 DEF Signal, queueVars, dataVars, histVars
<1>14. ASSUME NEW t \in Threads, Unlock(t), UNCHANGED <<mpc, joins>> PROVE LockInv'
  BY <1>14 DEF Unlock, queueVars, dataVars, histVars
<1>15. CASE CreateProducer
  BY <1>15 DEF CreateProducer, queueVars, dataVars, histVars
<1>16. CASE CreateConsumer
  BY <1>16 DEF CreateConsumer, queueVars, dataVars, histVars
<1>17. CASE RaiseStop
  BY <1>17 DEF RaiseStop, queueVars, dataVars, histVars
<1>18. CASE WakeCom
  BY <1>18 DEF WakeCom, queueVars, dataVars, histVars
<1>19. CASE WakeGreen
  BY <1>19 DEF WakeGreen, queueVars, dataVars, histVars
<1>20. CASE Join
  BY <1>20 DEF Join, queueVars, dataVars, histVars
<1>21. CASE UNCHANGED vars
  BY <1>21 DEF vars, queueVars, dataVars, histVars
<1> QED
  BY <1>1, <1>2, <1>3, <1>4, <1>5, <1>6, <1>7, <1>8, <1>9, <1>10, <1>11,
     <1>12, <1>13, <1>14, <1>15, <1>16, <1>17, <1>18, <1>19, <1>20, <1>21
  DEF Next, QueueNext, ThreadStep, StartStep, StopStep

\* A thread that could go on is asleep only while a signal is on its way.
LEMMA WakeStep == ImageInv /\ [Next]_vars => NoLostWakeup'
<1> SUFFICES ASSUME ImageInv, [Next]_vars PROVE NoLostWakeup'
  OBVIOUS
<1> /\ pc \in [Threads -> Labels] /\ count \in Nat
    /\ LockInv /\ LifeInv /\ NoLostWakeup
  BY DEF ImageInv, ImageTypeOK, TypeOK
<1> USE DEF NoLostWakeup, MustWait, LockInv, LifeInv, InCS, Goto, Threads, Free, Other, Woken
<1>1. CASE GreenSetup /\ UNCHANGED <<mpc, joins>>
  BY <1>1 DEF GreenSetup, queueVars, dataVars, histVars
<1>2. CASE NoSample /\ UNCHANGED <<mpc, joins>>
  BY <1>2 DEF NoSample, queueVars, dataVars, histVars
<1>3. CASE PullSample /\ UNCHANGED <<mpc, joins>>
  BY <1>3 DEF PullSample, queueVars, dataVars, histVars
<1>4. CASE GreenCopy /\ UNCHANGED <<mpc, joins>>
  BY <1>4 DEF GreenCopy, queueVars, dataVars, histVars
<1>5. CASE GreenAdvance /\ UNCHANGED <<mpc, joins>>
  BY <1>5 DEF GreenAdvance, queueVars, dataVars, histVars
<1>6. CASE ComCopy /\ UNCHANGED <<mpc, joins>>
  BY <1>6 DEF ComCopy, queueVars, dataVars, histVars
<1>7. CASE ComAdvance /\ UNCHANGED <<mpc, joins>>
  BY <1>7 DEF ComAdvance, queueVars, dataVars, histVars
<1>8. CASE CalculateCom /\ UNCHANGED <<mpc, joins>>
  BY <1>8 DEF CalculateCom, queueVars, dataVars, histVars
<1>9. CASE CheckStop /\ UNCHANGED <<mpc, joins>>
  BY <1>9 DEF CheckStop, queueVars, dataVars, histVars
<1>10. ASSUME NEW t \in Threads, Lock(t), UNCHANGED <<mpc, joins>> PROVE NoLostWakeup'
  BY <1>10 DEF Lock, queueVars, dataVars, histVars
<1>11. ASSUME NEW t \in Threads, Test(t), UNCHANGED <<mpc, joins>> PROVE NoLostWakeup'
  BY <1>11 DEF Test, queueVars, dataVars, histVars
<1>12. ASSUME NEW t \in Threads, SpuriousWakeup(t), UNCHANGED <<mpc, joins>> PROVE NoLostWakeup'
  BY <1>12 DEF SpuriousWakeup, queueVars, dataVars, histVars
<1>13. ASSUME NEW t \in Threads, Signal(t), UNCHANGED <<mpc, joins>> PROVE NoLostWakeup'
  BY <1>13 DEF Signal, queueVars, dataVars, histVars
<1>14. ASSUME NEW t \in Threads, Unlock(t), UNCHANGED <<mpc, joins>> PROVE NoLostWakeup'
  BY <1>14 DEF Unlock, queueVars, dataVars, histVars
<1>15. CASE CreateProducer
  BY <1>15 DEF CreateProducer, queueVars, dataVars, histVars
<1>16. CASE CreateConsumer
  BY <1>16 DEF CreateConsumer, queueVars, dataVars, histVars
<1>17. CASE RaiseStop
  BY <1>17 DEF RaiseStop, queueVars, dataVars, histVars
<1>18. CASE WakeCom
  BY <1>18 DEF WakeCom, queueVars, dataVars, histVars
<1>19. CASE WakeGreen
  BY <1>19 DEF WakeGreen, queueVars, dataVars, histVars
<1>20. CASE Join
  BY <1>20 DEF Join, queueVars, dataVars, histVars
<1>21. CASE UNCHANGED vars
  BY <1>21 DEF vars, queueVars, dataVars, histVars
<1> QED
  BY <1>1, <1>2, <1>3, <1>4, <1>5, <1>6, <1>7, <1>8, <1>9, <1>10, <1>11,
     <1>12, <1>13, <1>14, <1>15, <1>16, <1>17, <1>18, <1>19, <1>20, <1>21
  DEF Next, QueueNext, ThreadStep, StartStep, StopStep

\* Types: the indices and the count stay in range because of what the threads
\* know between their test and their update.
LEMMA TypeStep == ImageInv /\ [Next]_vars => ImageTypeOK'
<1> SUFFICES ASSUME ImageInv, [Next]_vars PROVE ImageTypeOK'
  OBVIOUS
<1> ImageTypeOK /\ RingInv
  BY DEF ImageInv
<1> USE SizeAssumption, FramesAssumption
        DEF ImageTypeOK, TypeOK, RingInv, Goto, Threads, Free, Other, Woken,
            Slots, Frames, Labels, Callers
<1>1. CASE GreenSetup /\ UNCHANGED <<mpc, joins>>
  BY <1>1 DEF GreenSetup, queueVars, dataVars, histVars
<1>2. CASE NoSample /\ UNCHANGED <<mpc, joins>>
  BY <1>2 DEF NoSample, queueVars, dataVars, histVars
<1>3. CASE PullSample /\ UNCHANGED <<mpc, joins>>
  BY <1>3 DEF PullSample, queueVars, dataVars, histVars
<1>4. CASE GreenCopy /\ UNCHANGED <<mpc, joins>>
  BY <1>4 DEF GreenCopy, queueVars, dataVars, histVars
<1>5. CASE GreenAdvance /\ UNCHANGED <<mpc, joins>>
  <2>1. /\ rear' \in Slots
        /\ produced' \in Seq(Frames) /\ Len(produced') <= MaxFrames
        /\ count' \in 0 .. GREEN_MASK_QUEUE_SIZE
    BY <1>5, SuccWraps DEF GreenAdvance
  <2> QED
    BY <1>5, <2>1 DEF GreenAdvance
<1>6. CASE ComCopy /\ UNCHANGED <<mpc, joins>>
  BY <1>6 DEF ComCopy, queueVars, dataVars, histVars
<1>7. CASE ComAdvance /\ UNCHANGED <<mpc, joins>>
  <2>1. front' \in Slots /\ count' \in 0 .. GREEN_MASK_QUEUE_SIZE
    BY <1>7, SuccWraps DEF ComAdvance
  <2> QED
    BY <1>7, <2>1 DEF ComAdvance
<1>8. CASE CalculateCom /\ UNCHANGED <<mpc, joins>>
  BY <1>8 DEF CalculateCom, queueVars, dataVars, histVars
<1>9. CASE CheckStop /\ UNCHANGED <<mpc, joins>>
  BY <1>9 DEF CheckStop, queueVars, dataVars, histVars
<1>10. ASSUME NEW t \in Threads, Lock(t), UNCHANGED <<mpc, joins>> PROVE ImageTypeOK'
  BY <1>10 DEF Lock, queueVars, dataVars, histVars
<1>11. ASSUME NEW t \in Threads, Test(t), UNCHANGED <<mpc, joins>> PROVE ImageTypeOK'
  BY <1>11 DEF Test, queueVars, dataVars, histVars
<1>12. ASSUME NEW t \in Threads, SpuriousWakeup(t), UNCHANGED <<mpc, joins>> PROVE ImageTypeOK'
  BY <1>12 DEF SpuriousWakeup, queueVars, dataVars, histVars
<1>13. ASSUME NEW t \in Threads, Signal(t), UNCHANGED <<mpc, joins>> PROVE ImageTypeOK'
  BY <1>13 DEF Signal, queueVars, dataVars, histVars
<1>14. ASSUME NEW t \in Threads, Unlock(t), UNCHANGED <<mpc, joins>> PROVE ImageTypeOK'
  BY <1>14 DEF Unlock, queueVars, dataVars, histVars
<1>15. CASE CreateProducer
  BY <1>15 DEF CreateProducer, queueVars, dataVars, histVars
<1>16. CASE CreateConsumer
  BY <1>16 DEF CreateConsumer, queueVars, dataVars, histVars
<1>17. CASE RaiseStop
  BY <1>17 DEF RaiseStop, queueVars, dataVars, histVars
<1>18. CASE WakeCom
  BY <1>18 DEF WakeCom, queueVars, dataVars, histVars
<1>19. CASE WakeGreen
  BY <1>19 DEF WakeGreen, queueVars, dataVars, histVars
<1>20. CASE Join
  BY <1>20 DEF Join, queueVars, dataVars, histVars
<1>21. CASE UNCHANGED vars
  BY <1>21 DEF vars, queueVars, dataVars, histVars
<1> QED
  BY <1>1, <1>2, <1>3, <1>4, <1>5, <1>6, <1>7, <1>8, <1>9, <1>10, <1>11,
     <1>12, <1>13, <1>14, <1>15, <1>16, <1>17, <1>18, <1>19, <1>20, <1>21
  DEF Next, QueueNext, ThreadStep, StartStep, StopStep

\* rear, front and count agree, and a thread's test still holds when it acts.
LEMMA RingStep == ImageInv /\ [Next]_vars => RingInv'
<1> SUFFICES ASSUME ImageInv, [Next]_vars PROVE RingInv'
  OBVIOUS
<1> ImageTypeOK /\ LockInv /\ LifeInv /\ RingInv /\ FifoContents
  BY DEF ImageInv
<1> USE SizeAssumption, FramesAssumption
        DEF ImageTypeOK, TypeOK, LockInv, InCS, LifeInv, RingInv, FifoContents,
            Goto, Threads, Other, Woken, Slots, Frames
<1>1. CASE GreenSetup /\ UNCHANGED <<mpc, joins>>
  BY <1>1 DEF GreenSetup, queueVars, dataVars, histVars
<1>2. CASE NoSample /\ UNCHANGED <<mpc, joins>>
  BY <1>2 DEF NoSample, queueVars, dataVars, histVars
<1>3. CASE PullSample /\ UNCHANGED <<mpc, joins>>
  BY <1>3 DEF PullSample, queueVars, dataVars, histVars
<1>4. CASE GreenCopy /\ UNCHANGED <<mpc, joins>>
  BY <1>4 DEF GreenCopy, queueVars, dataVars, histVars
<1>5. CASE GreenAdvance /\ UNCHANGED <<mpc, joins>>
  <2>1. pc["green"] = "advance"
    BY <1>5 DEF GreenAdvance
  <2>2. front \in Slots /\ count \in 0 .. GREEN_MASK_QUEUE_SIZE - 1
    BY <2>1
  <2>3. rear = Plus(front, count)
    OBVIOUS
  <2>4. rear' = Succ(Plus(front, count)) /\ front' = front /\ count' = count + 1
    BY <1>5, <2>3 DEF GreenAdvance
  <2>5. rear' = Plus(front', count')
    BY <2>2, <2>4, RearAdvances
  <2>6. pc'["green"] = "signal" /\ pc'["com"] = pc["com"]
    BY <1>5 DEF GreenAdvance
  <2>7. pc["com"] \notin {"copy", "advance", "signal", "unlock"}
    BY <1>5 DEF GreenAdvance
  <2>8. taken' = taken
    BY <1>5 DEF GreenAdvance
  <2> QED
    BY <2>5, <2>6, <2>7, <2>8
<1>6. CASE ComCopy /\ UNCHANGED <<mpc, joins>>
  BY <1>6 DEF ComCopy, queueVars, dataVars, histVars
<1>7. CASE ComAdvance /\ UNCHANGED <<mpc, joins>>
  <2>1. pc["com"] = "advance"
    BY <1>7 DEF ComAdvance
  <2>2. front \in Slots /\ count \in 1 .. GREEN_MASK_QUEUE_SIZE
    BY <2>1
  <2>3. rear = Plus(front, count)
    OBVIOUS
  <2>4. front' = Succ(front) /\ count' = count - 1 /\ rear' = Plus(front, count)
    BY <1>7, <2>3 DEF ComAdvance
  <2>5. rear' = Plus(front', count')
    BY <2>2, <2>4, FrontAdvances
  <2>6. pc'["com"] = "signal" /\ pc'["green"] = pc["green"]
    BY <1>7 DEF ComAdvance
  <2>7. pc["green"] \notin {"copy", "advance"}
    BY <1>7 DEF ComAdvance
  <2>8. taken' > 0 /\ produced' = produced
    BY <1>7 DEF ComAdvance
  <2> QED
    BY <2>5, <2>6, <2>7, <2>8
<1>8. CASE CalculateCom /\ UNCHANGED <<mpc, joins>>
  BY <1>8 DEF CalculateCom, queueVars, dataVars, histVars
<1>9. CASE CheckStop /\ UNCHANGED <<mpc, joins>>
  BY <1>9 DEF CheckStop, queueVars, dataVars, histVars
<1>10. ASSUME NEW t \in Threads, Lock(t), UNCHANGED <<mpc, joins>> PROVE RingInv'
  BY <1>10 DEF Lock, queueVars, dataVars, histVars
<1>11. ASSUME NEW t \in Threads, Test(t), UNCHANGED <<mpc, joins>> PROVE RingInv'
  <2>1. UNCHANGED <<rear, front, count, queue, green_mask, taken, produced>>
    BY <1>11 DEF Test, dataVars, histVars
  <2>2. CASE t = "green"
    <3>1. pc["green"] = "test" /\ pc'["com"] = pc["com"]
      BY <1>11, <2>2 DEF Test
    <3>2. \/ pc'["green"] = "wait"
          \/ pc'["green"] = "copy" /\ count # GREEN_MASK_QUEUE_SIZE
      BY <1>11, <2>2 DEF Test, MustWait
    <3>3. pc'["green"] = "copy" => count < GREEN_MASK_QUEUE_SIZE
      BY <3>2
    <3> QED
      BY <2>1, <3>1, <3>2, <3>3
  <2>3. CASE t = "com"
    <3>1. pc["com"] = "test" /\ pc'["green"] = pc["green"]
      BY <1>11, <2>3 DEF Test
    <3>2. \/ pc'["com"] = "wait"
          \/ pc'["com"] = "copy" /\ count # 0
      BY <1>11, <2>3 DEF Test, MustWait
    <3>3. pc'["com"] = "copy" => count > 0
      BY <3>2
    <3> QED
      BY <2>1, <3>1, <3>2, <3>3
  <2> QED
    BY <1>11, <2>2, <2>3
<1>12. ASSUME NEW t \in Threads, SpuriousWakeup(t), UNCHANGED <<mpc, joins>> PROVE RingInv'
  BY <1>12 DEF SpuriousWakeup, queueVars, dataVars, histVars
<1>13. ASSUME NEW t \in Threads, Signal(t), UNCHANGED <<mpc, joins>> PROVE RingInv'
  BY <1>13 DEF Signal, queueVars, dataVars, histVars
<1>14. ASSUME NEW t \in Threads, Unlock(t), UNCHANGED <<mpc, joins>> PROVE RingInv'
  BY <1>14 DEF Unlock, queueVars, dataVars, histVars
<1>15. CASE CreateProducer
  BY <1>15 DEF CreateProducer, queueVars, dataVars, histVars
<1>16. CASE CreateConsumer
  BY <1>16 DEF CreateConsumer, queueVars, dataVars, histVars
<1>17. CASE RaiseStop
  BY <1>17 DEF RaiseStop, queueVars, dataVars, histVars
<1>18. CASE WakeCom
  BY <1>18 DEF WakeCom, queueVars, dataVars, histVars
<1>19. CASE WakeGreen
  BY <1>19 DEF WakeGreen, queueVars, dataVars, histVars
<1>20. CASE Join
  BY <1>20 DEF Join, queueVars, dataVars, histVars
<1>21. CASE UNCHANGED vars
  BY <1>21 DEF vars, queueVars, dataVars, histVars
<1> QED
  BY <1>1, <1>2, <1>3, <1>4, <1>5, <1>6, <1>7, <1>8, <1>9, <1>10, <1>11,
     <1>12, <1>13, <1>14, <1>15, <1>16, <1>17, <1>18, <1>19, <1>20, <1>21
  DEF Next, QueueNext, ThreadStep, StartStep, StopStep

\* The ring holds the masks recorded and not yet taken, in order.
LEMMA FifoStep == ImageInv /\ [Next]_vars => FifoContents'
<1> SUFFICES ASSUME ImageInv, [Next]_vars PROVE FifoContents'
  OBVIOUS
<1> ImageTypeOK /\ LockInv /\ RingInv /\ FifoContents
  BY DEF ImageInv
<1> USE SizeAssumption, FramesAssumption
        DEF ImageTypeOK, TypeOK, LockInv, InCS, RingInv, FifoContents, Goto,
            Threads, Free, Other, Woken
<1>1. CASE GreenSetup /\ UNCHANGED <<mpc, joins>>
  BY <1>1 DEF GreenSetup, queueVars, dataVars, histVars
<1>2. CASE NoSample /\ UNCHANGED <<mpc, joins>>
  BY <1>2 DEF NoSample, queueVars, dataVars, histVars
<1>3. CASE PullSample /\ UNCHANGED <<mpc, joins>>
  BY <1>3 DEF PullSample, queueVars, dataVars, histVars
<1>4. CASE GreenCopy /\ UNCHANGED <<mpc, joins>>
  <2>1. /\ count \in 0 .. GREEN_MASK_QUEUE_SIZE - 1
        /\ UNCHANGED <<front, count, mask, produced, taken>>
        /\ pc'["com"] = pc["com"]
    BY <1>4 DEF GreenCopy, histVars
  <2>2. ASSUME NEW s \in Slots, Offset(front, s) < count
        PROVE  queue'[s] = queue[s]
    <3>1. Offset(front, s) # count
      BY <2>1, <2>2, OffsetOfSlot
    <3>2. s # rear
      BY <2>1, <3>1, OffsetOfSlot
    <3> QED
      BY <1>4, <3>2 DEF GreenCopy
  <2> QED
    BY <2>1, <2>2
<1>5. CASE GreenAdvance /\ UNCHANGED <<mpc, joins>>
  <2>1. /\ count \in 0 .. GREEN_MASK_QUEUE_SIZE - 1
        /\ UNCHANGED <<front, queue, mask, taken>>
        /\ count' = count + 1
        /\ produced' = Append(produced, green_mask)
        /\ pc'["com"] = pc["com"] /\ pc["com"] \notin {"advance", "signal", "unlock"}
        /\ queue[rear] = green_mask
    BY <1>5 DEF GreenAdvance
  <2>2. /\ Len(produced') = Len(produced) + 1
        /\ \A i \in 1 .. Len(produced) : produced'[i] = produced[i]
        /\ produced'[Len(produced) + 1] = green_mask
    BY <2>1
  <2>3. ASSUME NEW s \in Slots, Offset(front', s) < count'
        PROVE  queue'[s] = produced'[taken' + Offset(front', s) + 1]
    <3>1. CASE Offset(front, s) = count
      <4>1. s = rear
        BY <2>1, <3>1, OffsetOfSlot
      <4> QED
        BY <2>1, <2>2, <3>1, <4>1
    <3>2. CASE Offset(front, s) < count
      <4>1. taken + Offset(front, s) + 1 \in 1 .. Len(produced)
        BY <3>2, OffsetOfSlot
      <4> QED
        BY <2>1, <2>2, <3>2, <4>1
    <3>3. Offset(front, s) \in Nat /\ Offset(front, s) < count + 1
      BY <2>1, <2>3, OffsetOfSlot
    <3>4. Offset(front, s) = count \/ Offset(front, s) < count
      BY <2>1, <3>3
    <3> QED
      BY <3>1, <3>2, <3>4
  <2>4. pc["com"] = "calculate" => taken \in 1 .. Len(produced)
    OBVIOUS
  <2>5. /\ count' = Len(produced') - taken'
        /\ pc'["com"] = "calculate" => mask' = produced'[taken']
        /\ pc'["com"] \notin {"advance", "signal", "unlock"}
    BY <2>1, <2>2, <2>4
  <2> QED
    BY <2>3, <2>5
<1>6. CASE ComCopy /\ UNCHANGED <<mpc, joins>>
  <2>1. /\ UNCHANGED <<queue, front, count, produced, taken>>
        /\ pc'["com"] = "advance" /\ mask' = queue[front] /\ count > 0
    BY <1>6 DEF ComCopy, dataVars, histVars
  <2>2. Offset(front, front) = 0
    BY OffsetOfSlot
  <2> QED
    BY <2>1, <2>2, SMTT(30)
<1>7. CASE ComAdvance /\ UNCHANGED <<mpc, joins>>
  <2>1. /\ UNCHANGED <<queue, mask, produced>>
        /\ front' = Succ(front) /\ count' = count - 1 /\ taken' = taken + 1
        /\ count \in 1 .. GREEN_MASK_QUEUE_SIZE
        /\ pc'["com"] = "signal" /\ mask = produced[taken + 1]
    BY <1>7 DEF ComAdvance
  <2>2. ASSUME NEW s \in Slots, Offset(front', s) < count'
        PROVE  queue'[s] = produced'[taken' + Offset(front', s) + 1]
    <3>1. s # front /\ Offset(front', s) = Offset(front, s) - 1
      BY <2>1, <2>2, OffsetOfSlot, SMTT(30)
    <3>2. Offset(front, s) \in 0 .. GREEN_MASK_QUEUE_SIZE - 1
      BY OffsetOfSlot
    <3>3. Offset(front, s) - 1 < count - 1
      BY <2>1, <2>2, <3>1
    <3>4. Offset(front, s) < count
      BY <2>1, <3>2, <3>3
    <3>5. taken' + Offset(front', s) + 1 = taken + Offset(front, s) + 1
      BY <2>1, <3>1, <3>2
    <3> QED
      BY <2>1, <3>4, <3>5
  <2> QED
    BY <2>1, <2>2
<1>8. CASE CalculateCom /\ UNCHANGED <<mpc, joins>>
  BY <1>8 DEF CalculateCom, queueVars, dataVars, histVars
<1>9. CASE CheckStop /\ UNCHANGED <<mpc, joins>>
  BY <1>9 DEF CheckStop, queueVars, dataVars, histVars
<1>10. ASSUME NEW t \in Threads, Lock(t), UNCHANGED <<mpc, joins>> PROVE FifoContents'
  BY <1>10 DEF Lock, queueVars, dataVars, histVars
<1>11. ASSUME NEW t \in Threads, Test(t), UNCHANGED <<mpc, joins>> PROVE FifoContents'
  BY <1>11 DEF Test, queueVars, dataVars, histVars
<1>12. ASSUME NEW t \in Threads, SpuriousWakeup(t), UNCHANGED <<mpc, joins>> PROVE FifoContents'
  BY <1>12 DEF SpuriousWakeup, queueVars, dataVars, histVars
<1>13. ASSUME NEW t \in Threads, Signal(t), UNCHANGED <<mpc, joins>> PROVE FifoContents'
  BY <1>13 DEF Signal, queueVars, dataVars, histVars
<1>14. ASSUME NEW t \in Threads, Unlock(t), UNCHANGED <<mpc, joins>> PROVE FifoContents'
  BY <1>14 DEF Unlock, queueVars, dataVars, histVars
<1>15. CASE CreateProducer
  BY <1>15 DEF CreateProducer, queueVars, dataVars, histVars
<1>16. CASE CreateConsumer
  BY <1>16 DEF CreateConsumer, queueVars, dataVars, histVars
<1>17. CASE RaiseStop
  BY <1>17 DEF RaiseStop, queueVars, dataVars, histVars
<1>18. CASE WakeCom
  BY <1>18 DEF WakeCom, queueVars, dataVars, histVars
<1>19. CASE WakeGreen
  BY <1>19 DEF WakeGreen, queueVars, dataVars, histVars
<1>20. CASE Join
  BY <1>20 DEF Join, queueVars, dataVars, histVars
<1>21. CASE UNCHANGED vars
  BY <1>21 DEF vars, queueVars, dataVars, histVars
<1> QED
  BY <1>1, <1>2, <1>3, <1>4, <1>5, <1>6, <1>7, <1>8, <1>9, <1>10, <1>11,
     <1>12, <1>13, <1>14, <1>15, <1>16, <1>17, <1>18, <1>19, <1>20, <1>21
  DEF Next, QueueNext, ThreadStep, StartStep, StopStep

-----------------------------------------------------------------------------
\* The threads and the ring start in a state of the invariant.
LEMMA InvInit == Init => ImageInv
<1> SUFFICES ASSUME Init PROVE ImageInv
  OBVIOUS
<1> USE SizeAssumption, FramesAssumption DEF Init, QueueInit, Threads
<1>1. ImageTypeOK
  BY DEF ImageTypeOK, TypeOK, Slots, Frames, Free, Labels, Callers
<1>2. LifeInv /\ LockInv /\ NoLostWakeup
  BY DEF LifeInv, GreenLabels, ComLabels, Labels, LockInv, InCS, NoLostWakeup
<1>3. RingInv
  BY DEF RingInv, Plus
<1>4. FifoContents
  BY OffsetOfSlot DEF FifoContents, Slots
<1> QED
  BY <1>1, <1>2, <1>3, <1>4 DEF ImageInv

\* ImageInv holds in every state of every behaviour of the image threads.
THEOREM ImageInvariant == Spec => []ImageInv
<1>1. Init => ImageInv
  BY InvInit
<1>2. ImageInv /\ [Next]_vars => ImageInv'
  BY LifeStep, LockStep, WakeStep, TypeStep, RingStep, FifoStep DEF ImageInv
<1> QED
  BY <1>1, <1>2, PTL DEF Spec

\* Type correctness: no index ever leaves green_mask_queue (green_mask.c:309,
\* com_calculator.c:62) and the count never leaves 0..GREEN_MASK_QUEUE_SIZE.
THEOREM TypeCorrect == Spec => []ImageTypeOK
<1>1. ImageInv => ImageTypeOK
  BY DEF ImageInv
<1> QED
  BY <1>1, ImageInvariant, PTL

\* No memcpy of a mask overlaps with one of the other thread.
THEOREM MutuallyExclusive == Spec => []MutualExclusion
<1>1. ImageInv => MutualExclusion
  BY DEF ImageInv, LockInv, MutualExclusion, InCS
<1> QED
  BY <1>1, ImageInvariant, PTL

\* Masks are taken in the order they were copied in, each exactly once.
THEOREM MasksInOrder == Spec => []FifoContents
<1>1. ImageInv => FifoContents
  BY DEF ImageInv
<1> QED
  BY <1>1, ImageInvariant, PTL

\* No wakeup of either condition variable is lost.
THEOREM WakeupsNotLost == Spec => []NoLostWakeup
<1>1. ImageInv => NoLostWakeup
  BY DEF ImageInv
<1> QED
  BY <1>1, ImageInvariant, PTL

-----------------------------------------------------------------------------
(* The ring implements a first-in first-out queue: it holds the rest of    *)
(* what was produced, after what was taken.                                *)

Rest(p, n) == [i \in 1 .. Len(p) - n |-> p[n + i]]

\* The rest of a sequence as a sequence.
LEMMA RestSeq ==
    ASSUME NEW p \in Seq(Frames), NEW n \in 0 .. Len(p)
    PROVE  /\ Len(Rest(p, n)) = Len(p) - n
           /\ Rest(p, n) = <<>> <=> n = Len(p)
           /\ \A v \in Frames : Append(Rest(p, n), v) = Rest(Append(p, v), n)
           /\ n < Len(p) => /\ Head(Rest(p, n)) = p[n + 1]
                            /\ Tail(Rest(p, n)) = Rest(p, n + 1)
<1>1. ASSUME NEW s \in Seq(Frames), NEW m \in 0 .. Len(s)
      PROVE  /\ Rest(s, m) \in Seq(Frames) /\ Len(Rest(s, m)) = Len(s) - m
             /\ \A i \in 1 .. Len(s) - m : Rest(s, m)[i] = s[m + i]
  <2>1. \A i \in 1 .. Len(s) - m : s[m + i] \in Frames
    OBVIOUS
  <2>2. Len(s) - m \in Nat
    OBVIOUS
  <2>3. QED BY <2>1, <2>2 DEF Rest
<1> DEFINE r == Rest(p, n)
<1>a. /\ r \in Seq(Frames) /\ Len(r) = Len(p) - n
      /\ \A i \in 1 .. Len(p) - n : r[i] = p[n + i]
      /\ Len(p) \in Nat
  BY <1>1
<1> HIDE DEF r
<1>2. r = <<>> <=> n = Len(p)
  BY <1>a, EmptySeq
<1>3. ASSUME NEW v \in Frames PROVE Append(r, v) = Rest(Append(p, v), n)
  <2> DEFINE a == Append(p, v)
             s == Append(r, v)
             t == Rest(a, n)
  <2>1. a \in Seq(Frames) /\ Len(a) = Len(p) + 1 /\ a[Len(p) + 1] = v
        /\ \A i \in 1 .. Len(p) : a[i] = p[i]
    BY AppendProperties
  <2>2. s \in Seq(Frames) /\ Len(s) = Len(r) + 1 /\ s[Len(r) + 1] = v
        /\ \A i \in 1 .. Len(r) : s[i] = r[i]
    BY <1>a, AppendProperties
  <2> HIDE DEF a, s
  <2>3. n \in 0 .. Len(a)
    BY <1>a, <2>1
  <2>4. t \in Seq(Frames) /\ Len(t) = Len(a) - n
        /\ \A i \in 1 .. Len(a) - n : t[i] = a[n + i]
    BY <1>1, <2>1, <2>3
  <2> HIDE DEF t
  <2>5. ASSUME NEW i \in 1 .. Len(s) PROVE s[i] = t[i]
    <3>1. Len(s) = Len(p) - n + 1 /\ t[i] = a[n + i]
      BY <1>a, <2>1, <2>2, <2>4
    <3>2. CASE i = Len(s)
      <4>1. n + i = Len(p) + 1 /\ i = Len(r) + 1
        BY <1>a, <3>1, <3>2
      <4>2. QED BY <2>1, <2>2, <3>1, <4>1
    <3>3. CASE i # Len(s)
      <4>1. n + i \in 1 .. Len(p) /\ i \in 1 .. Len(r) /\ i \in 1 .. Len(p) - n
        BY <1>a, <3>1, <3>3
      <4>2. QED BY <1>a, <2>1, <2>2, <3>1, <4>1
    <3>4. QED BY <3>2, <3>3
  <2>6. s = t
    BY <1>a, <2>1, <2>2, <2>4, <2>5, SeqEqual, SMTT(30)
  <2>7. QED BY <2>6 DEF s, t, a
<1>4. ASSUME n < Len(p) PROVE Head(r) = p[n + 1] /\ Tail(r) = Rest(p, n + 1)
  <2> DEFINE s == Tail(r)
             t == Rest(p, n + 1)
  <2>1. r # <<>> /\ 1 \in 1 .. Len(p) - n /\ n + 1 \in 0 .. Len(p)
    BY <1>a, <1>2, <1>4
  <2>2. Head(r) = p[n + 1]
    BY <1>a, <2>1
  <2>3. s \in Seq(Frames) /\ Len(s) = Len(r) - 1 /\ \A i \in 1 .. Len(s) : s[i] = r[i + 1]
    BY <1>a, <2>1, HeadTailProperties
  <2>4. t \in Seq(Frames) /\ Len(t) = Len(p) - (n + 1)
        /\ \A i \in 1 .. Len(p) - (n + 1) : t[i] = p[n + 1 + i]
    BY <1>1, <2>1
  <2> HIDE DEF s, t
  <2>5. \A i \in 1 .. Len(s) : s[i] = t[i]
    BY <1>a, <2>1, <2>3, <2>4, SMTT(30)
  <2>6. s = t
    <3>1. Len(s) = Len(t)
      BY <1>a, <2>1, <2>3, <2>4
    <3>2. QED BY <2>3, <2>4, <2>5, <3>1, SeqEqual
  <2>7. QED BY <2>2, <2>6 DEF s, t
<1>5. QED
  BY <1>a, <1>2, <1>3, <1>4 DEF r

HeldFacts ==
    /\ Held = Rest(produced, taken)
    /\ produced \in Seq(Frames) /\ taken \in 0 .. Len(produced)
    /\ count = Len(produced) - taken

LEMMA HeldIs == ImageInv => HeldFacts
<1> SUFFICES ASSUME ImageInv PROVE HeldFacts
  OBVIOUS
<1>1. /\ front \in Slots /\ count \in 0 .. GREEN_MASK_QUEUE_SIZE
      /\ produced \in Seq(Frames) /\ taken \in Nat
      /\ count = Len(produced) - taken
      /\ \A s \in Slots :
            Offset(front, s) < count => queue[s] = produced[taken + Offset(front, s) + 1]
  BY DEF ImageInv, ImageTypeOK, TypeOK, FifoContents
<1>2. taken \in 0 .. Len(produced)
  BY <1>1, SizeAssumption
<1>3. ASSUME NEW i \in 1 .. count
      PROVE  queue[(front + i - 1) % GREEN_MASK_QUEUE_SIZE] = produced[taken + i]
  <2> DEFINE s == (front + i - 1) % GREEN_MASK_QUEUE_SIZE
  <2>1. /\ front \in Nat /\ front < GREEN_MASK_QUEUE_SIZE
        /\ i \in Nat /\ i >= 1 /\ i <= GREEN_MASK_QUEUE_SIZE
        /\ GREEN_MASK_QUEUE_SIZE \in Nat
    BY <1>1, SizeAssumption DEF Slots
  <2>2. s = Plus(front, i - 1)
    <3>1. CASE front + i - 1 < GREEN_MASK_QUEUE_SIZE
      BY <2>1, <3>1 DEF Plus
    <3>2. CASE front + i - 1 >= GREEN_MASK_QUEUE_SIZE
      BY <2>1, <3>2 DEF Plus
    <3>3. QED BY <2>1, <3>1, <3>2
  <2> HIDE DEF s
  <2>3. s \in Slots /\ Offset(front, s) = i - 1
    BY <2>1, <2>2 DEF Slots, Plus, Offset
  <2>4. queue[s] = produced[taken + (i - 1) + 1]
    BY <1>1, <2>1, <2>3
  <2>5. taken + (i - 1) + 1 = taken + i
    BY <1>1, <2>1
  <2>6. QED BY <2>4, <2>5 DEF s
<1>4. Held = [i \in 1 .. count |-> queue[(front + i - 1) % GREEN_MASK_QUEUE_SIZE]]
  BY DEF Held
<1>5. Held = [i \in 1 .. count |-> produced[taken + i]]
  BY <1>3, <1>4, Zenon
<1>6. QED
  BY <1>1, <1>2, <1>5 DEF HeldFacts, Rest

\* The consumer is done with a mask before it copies the next.
LEMMA CopyStep == ImageInv /\ CopyInv /\ [Next]_vars => CopyInv'
<1> SUFFICES ASSUME ImageInv, CopyInv, [Next]_vars PROVE CopyInv'
  OBVIOUS
<1> pc \in [Threads -> Labels] /\ LifeInv
  BY DEF ImageInv, ImageTypeOK, TypeOK
<1> USE DEF CopyInv, LifeInv, Goto, Threads, Other, Woken
<1>1. CASE UNCHANGED <<com, mask>> /\ (pc["com"] \in {"advance", "signal", "unlock", "calculate"}
                                       => pc'["com"] \in {"advance", "signal", "unlock", "calculate"})
  BY <1>1
<1>2. CASE ComCopy
  BY <1>2 DEF ComCopy, dataVars, histVars
<1>3. CASE CalculateCom
  BY <1>3 DEF CalculateCom, dataVars, histVars
<1>4. QED
  <2>1. CASE NoSample \/ PullSample \/ GreenSetup \/ GreenCopy \/ GreenAdvance
    BY <1>1, <2>1 DEF NoSample, PullSample, GreenSetup, GreenCopy, GreenAdvance, queueVars
  <2>2. CASE ComAdvance \/ CheckStop
    BY <1>1, <2>2 DEF ComAdvance, CheckStop
  <2>3. ASSUME NEW t \in Threads,
               Lock(t) \/ Test(t) \/ Signal(t) \/ Unlock(t) \/ SpuriousWakeup(t)
        PROVE  CopyInv'
    BY <1>1, <2>3 DEF Lock, Test, Signal, Unlock, SpuriousWakeup
  <2>4. CASE StartStep \/ StopStep \/ UNCHANGED vars
    BY <1>1, <2>4 DEF StartStep, StopStep, CreateProducer, CreateConsumer, RaiseStop,
       WakeCom, WakeGreen, Join, vars, queueVars
  <2>5. QED
    BY <1>2, <1>3, <2>1, <2>2, <2>3, <2>4 DEF Next, QueueNext, ThreadStep

\* Only the two updates of the count change the queue seen from outside; the
\* memcpy of a mask before each of them does not.
LEMMA StepImplements ==
    ASSUME ImageInv, ImageInv', CopyInv, [Next]_vars
    PROVE  [Fifo!Next]_(Fifo!fifoVars)
<1>a. (ImageInv => HeldFacts)'
  BY HeldIs, PTL
<1>b. HeldFacts /\ HeldFacts'
  BY <1>a, HeldIs
<1>1. /\ Held = Rest(produced, taken)
      /\ produced \in Seq(Frames) /\ taken \in 0 .. Len(produced)
      /\ count = Len(produced) - taken
      /\ Held' = Rest(produced', taken')
  BY <1>b DEF HeldFacts
<1>2. pc \in [Threads -> Labels] /\ LifeInv
  BY DEF ImageInv, ImageTypeOK, TypeOK
<1>3. CASE GreenAdvance
  <2>1. /\ produced' = Append(produced, green_mask) /\ taken' = taken
        /\ UNCHANGED <<mask, com>> /\ pc'["com"] = pc["com"]
    BY <1>2, <1>3 DEF GreenAdvance, Goto, Threads
  <2>2. count < GREEN_MASK_QUEUE_SIZE /\ green_mask \in Frames
    BY <1>3 DEF GreenAdvance, ImageInv, RingInv, ImageTypeOK, TypeOK
  <2>3. Len(Held) < GREEN_MASK_QUEUE_SIZE /\ Held' = Append(Held, green_mask)
    BY <1>1, <2>1, <2>2, RestSeq
  <2>4. Fifo!Put(green_mask)
    BY <2>1, <2>3 DEF Fifo!Put, LastTaken
  <2>5. QED BY <2>2, <2>4 DEF Fifo!Next
<1>4. CASE ComAdvance
  <2>1. /\ produced' = produced /\ taken' = taken + 1 /\ mask' = mask
        /\ pc["com"] = "advance" /\ pc'["com"] = "signal"
    BY <1>2, <1>4 DEF ComAdvance, Goto, Threads
  <2>2. count > 0 /\ mask = produced[taken + 1]
    BY <2>1 DEF ImageInv, RingInv, FifoContents
  <2>3. taken < Len(produced)
    BY <1>1, <2>2
  <2>4. /\ Held # <<>> /\ Head(Held) = mask
        /\ Tail(Held) = Rest(produced, taken + 1)
    BY <1>1, <2>2, <2>3, RestSeq, SMTT(30)
  <2>5. Fifo!Get
    BY <1>1, <2>1, <2>4 DEF Fifo!Get, LastTaken
  <2>6. QED BY <2>5 DEF Fifo!Next
<1>5. CASE UNCHANGED <<produced, taken, LastTaken>>
  BY <1>1, <1>5 DEF Fifo!fifoVars
<1>6. QED
  <2> USE <1>2 DEF LastTaken, LifeInv, Goto, Threads, Other, Woken
  <2>1. CASE NoSample \/ PullSample \/ GreenSetup \/ GreenCopy
    BY <1>5, <2>1 DEF NoSample, PullSample, GreenSetup, GreenCopy, queueVars, histVars
  <2>2. CASE ComCopy \/ CalculateCom \/ CheckStop
    BY <1>5, <2>2 DEF ComCopy, CalculateCom, CheckStop, histVars, CopyInv
  <2>3. ASSUME NEW t \in Threads,
               Lock(t) \/ Test(t) \/ Signal(t) \/ Unlock(t) \/ SpuriousWakeup(t)
        PROVE  [Fifo!Next]_(Fifo!fifoVars)
    BY <1>5, <2>3 DEF Lock, Test, Signal, Unlock, SpuriousWakeup, histVars
  <2>4. CASE StartStep \/ StopStep \/ UNCHANGED vars
    BY <1>5, <2>4 DEF StartStep, StopStep, CreateProducer, CreateConsumer, RaiseStop,
       WakeCom, WakeGreen, Join, vars, queueVars, histVars, ImageInv
  <2>5. QED
    BY <1>3, <1>4, <2>1, <2>2, <2>3, <2>4 DEF Next, QueueNext, ThreadStep

\* The ring, its mutex and its condition variables implement a first-in
\* first-out queue of GREEN_MASK_QUEUE_SIZE masks (green_mask.c:296,
\* com_calculator.c:54), through start, stop and spurious wakeups.
THEOREM QueueRefinesFifo == Spec => ImplementsFifo
<1>1. Init => Fifo!Init /\ CopyInv
  <2> SUFFICES ASSUME Init PROVE Fifo!Init /\ CopyInv
    OBVIOUS
  <2>1. /\ produced = <<>> /\ taken = 0 /\ com = 0 /\ mask = 0
        /\ pc["com"] = "off" /\ Len(produced) = 0
    BY DEF Init, QueueInit, Threads
  <2>2. Held = <<>>
    BY <2>1, InvInit, HeldIs, RestSeq DEF HeldFacts
  <2>3. QED BY <2>1, <2>2 DEF Fifo!Init, LastTaken, CopyInv
<1>2. ImageInv /\ ImageInv' /\ CopyInv /\ [Next]_vars => [Fifo!Next]_(Fifo!fifoVars)
  BY StepImplements
<1>3. QED
  BY <1>1, <1>2, CopyStep, ImageInvariant, PTL DEF Spec, ImplementsFifo, Fifo!Spec
=============================================================================
