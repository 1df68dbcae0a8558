------------------------------ MODULE MCRulePolicy -----------------------------
(* A small instance of RulePolicy: durations of zero, of a few ticks and
   negative, and a uint64_t of 32 values. *)
EXTENDS RulePolicy

SmallConfigs == [dwell_time_ms : {-1, 0, 2}, cooldown_ms : {-2, 0, 3}]
================================================================================
