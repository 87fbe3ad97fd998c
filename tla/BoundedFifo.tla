----------------------------- MODULE BoundedFifo -----------------------------
(***************************************************************************)
(* What a queue between two threads promises, whatever it is built from:  *)
(* at most Capacity items are held, an item leaves in the order in which  *)
(* it entered, and none is lost, repeated or invented.  Both the mask     *)
(* queue (mutex and condition variables) and the COM queue (lock-free     *)
(* ring) are shown to implement this module.                              *)
(***************************************************************************)
EXTENDS Naturals, Sequences

CONSTANTS Capacity,  \* the most items the queue holds
          Item,      \* what may be queued
          NoItem     \* the receiver's buffer before its first item

VARIABLES q,    \* the items held, oldest first
          out   \* the item the receiver took last

fifoVars == <<q, out>>

Init ==
    /\ q = <<>>
    /\ out = NoItem

Put(v) ==
    /\ Len(q) < Capacity
    /\ q' = Append(q, v)
    /\ UNCHANGED out

Get ==
    /\ q # <<>>
    /\ out' = Head(q)
    /\ q' = Tail(q)

Next == (\E v \in Item : Put(v)) \/ Get

Spec == Init /\ [][Next]_fifoVars
=============================================================================
