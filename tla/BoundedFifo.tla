------------------------------ MODULE BoundedFifo ------------------------------
(***************************************************************************)
(* What the program expects of RingQueue<T, N> (include/common.h): a       *)
(* first-in first-out queue of at most Capacity items between one pushing  *)
(* and one popping thread.  A push that returns false and a pop that       *)
(* returns false leave this state alone, so they are stuttering steps.     *)
(* RingQueue.tla implements this module; Pipeline.tla uses its queues at   *)
(* this level.                                                             *)
(***************************************************************************)
EXTENDS Naturals, Sequences

CONSTANTS Item,       \* what the queue carries
          Capacity,   \* the most items it holds
          NoItem      \* the value of taken before the first pop

VARIABLES queue,      \* items accepted by push and not yet popped, oldest first
          taken       \* the item returned by the latest successful pop

fifoVars == <<queue, taken>>

Init == /\ queue = <<>>
        /\ taken = NoItem

Push(x) == /\ Len(queue) < Capacity
           /\ queue' = Append(queue, x)
           /\ UNCHANGED taken

Pop == /\ queue # <<>>
       /\ taken' = Head(queue)
       /\ queue' = Tail(queue)

Next == (\E x \in Item : Push(x)) \/ Pop

Spec == Init /\ [][Next]_fifoVars
================================================================================
