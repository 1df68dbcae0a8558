--------------------------------- MODULE Threads -------------------------------
(***************************************************************************)
(* What main (src/main.cpp) shares between its threads: the running flag   *)
(* and the two queues, each seen as the bounded FIFO that RingQueue        *)
(* implements.  A stale index can make a push see a full queue or a pop an *)
(* empty one for a moment longer; since nothing flows back from a queue's  *)
(* consumer to its producer, that is as if the call had come earlier.      *)
(***************************************************************************)
EXTENDS Integers, Sequences

CONSTANT QueueSlots   \* the items a queue holds: 3 for RingQueue<T, 4>

ASSUME ThreadsAssumption == QueueSlots \in Nat

VARIABLES running,        \* cleared by SIGINT and SIGTERM, never set again
          capture_queue,  \* RawFrame, from capture_thread to inference_thread
          infer_queue     \* InferResult, from inference_thread to alarm_thread

ThreadsInit == running = TRUE /\ capture_queue = <<>> /\ infer_queue = <<>>

\* Mutation: the item is not dropped when the queue is full.
PushedUnbounded(queue, x) == Append(queue, x)

\* push, with the result ignored: a new item is dropped when the queue is full.
Pushed(queue, x) == IF Len(queue) < QueueSlots THEN Append(queue, x) ELSE queue

\* SIGINT or SIGTERM: signal_handler clears running.
Signal ==
  /\ running
  /\ running' = FALSE
  /\ UNCHANGED <<capture_queue, infer_queue>>
================================================================================
