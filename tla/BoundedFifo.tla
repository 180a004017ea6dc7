---------------------------- MODULE BoundedFifo ----------------------------
(***************************************************************************)
(* What the event queue promises: a first-in first-out queue of bounded    *)
(* capacity.  A push on a full queue is refused and leaves it alone; a pop *)
(* hands out the oldest element; a clear forgets everything.               *)
(***************************************************************************)
EXTENDS Naturals, Sequences

CONSTANTS Items, Capacity

VARIABLES
  fifo,     \* the queued items, oldest first
  popped    \* the item handed out by the latest pop

fifoVars == <<fifo, popped>>

FifoInit == fifo = <<>>

Push(x) == /\ Len(fifo) < Capacity
           /\ fifo' = Append(fifo, x)
           /\ UNCHANGED popped

Pop == /\ fifo # <<>>
       /\ popped' = Head(fifo)
       /\ fifo' = Tail(fifo)

Clear == /\ fifo' = <<>>
         /\ UNCHANGED popped

FifoNext == (\E x \in Items : Push(x)) \/ Pop \/ Clear

FifoSpec == FifoInit /\ [][FifoNext]_fifoVars
=============================================================================
