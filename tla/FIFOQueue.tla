----------------------------- MODULE FIFOQueue -----------------------------
(***************************************************************************)
(* What an inter-thread queue of NanoTrade promises to the two threads     *)
(* that share it: elements come out in the order they went in, each one    *)
(* exactly once, and an element that is in the queue is taken out          *)
(* eventually.  A queue whose producer has used up the room promises       *)
(* nothing from then on: nothing in common/lf_queue.h stops a write.       *)
(* LFQueue is shown to implement this.                                     *)
(***************************************************************************)
EXTENDS Sequences

CONSTANTS
  Values,  \* the elements that can be queued
  NoValue  \* what the consumer holds before it has taken anything

VARIABLES
  queue,     \* the elements published and not yet taken
  delivered, \* the element the consumer took last
  overrun    \* the producer has used up the room

vars == <<queue, delivered, overrun>>

Init == /\ queue = << >>
        /\ delivered = NoValue
        /\ overrun = FALSE

Enqueue(v) == /\ queue' = Append(queue, v)
              /\ UNCHANGED <<delivered, overrun>>

Dequeue == /\ queue # << >>
           /\ delivered' = Head(queue)
           /\ queue' = Tail(queue)
           /\ UNCHANGED overrun

(* queue' and delivered' are whatever they may be *)
Overrun == overrun' = TRUE

Next == Dequeue \/ Overrun \/ \E v \in Values : Enqueue(v)

(* The safety half, which LFQueueProofs proves, and the full promise. *)
SafeSpec == Init /\ [][Next]_vars

Spec == SafeSpec /\ WF_vars(~overrun /\ Dequeue)
=============================================================================
