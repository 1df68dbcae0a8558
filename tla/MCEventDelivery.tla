----------------------------- MODULE MCEventDelivery ---------------------------
(* A small instance of EventDelivery: a buffer that a second long detection
   would overrun without the margin. *)
EXTENDS EventDelivery

SmallHeads == {2}
SmallObjects == {10}
================================================================================
