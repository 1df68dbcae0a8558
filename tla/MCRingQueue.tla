------------------------------ MODULE MCRingQueue ------------------------------
(* RingQueue with the four slots of capture_queue and infer_queue. *)
EXTENDS RingQueue

\* Every slot is used twice, so that both indices wrap around.
TwoLaps == 2 * N
================================================================================
