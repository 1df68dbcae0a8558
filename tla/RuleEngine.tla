------------------------------- MODULE RuleEngine ------------------------------
(***************************************************************************)
(* RuleEngine (src/rule_engine.cpp): decides, one detection at a time,     *)
(* whether a person has stayed in the region of interest long enough to    *)
(* raise an alarm, and holds alarms back during a cooldown.                *)
(*                                                                         *)
(* A detection is reduced to the outcome of the three tests evaluate makes *)
(* on it; isInsideRoi is a pure function of the detection's centre and the *)
(* configured polygon.  Time is the millisecond steady clock the caller    *)
(* passes in.                                                              *)
(***************************************************************************)
EXTENDS Integers

CONSTANTS Configs,   \* the rule configurations considered
          Modulus,   \* 2^64, the range of uint64_t
          MaxTime    \* bound: the last value of the clock

Config == [dwell_time_ms : Int, cooldown_ms : Int]

Detection == [is_target : BOOLEAN, confidence_ok : BOOLEAN, inside_roi : BOOLEAN]

(* The two durations are 32-bit ints and the clock counts milliseconds, so
   their sums and differences are far from the range of uint64_t. *)
ASSUME RuleAssumption ==
  /\ Modulus \in Nat \ {0} /\ MaxTime \in Nat
  /\ Configs \subseteq Config
  /\ \A c \in Configs : \A x \in {c.dwell_time_ms, c.cooldown_ms} :
       MaxTime + x < Modulus /\ MaxTime - x < Modulus

VARIABLES rule_config_, dwell_active_, dwell_start_ms_, has_last_alarm_,
          last_alarm_ms_,
          now_ms,    \* the steady clock
          reason     \* reason of the latest RuleResult; it is alarm iff "alarm"

dwellVars == <<dwell_active_, dwell_start_ms_>>
alarmVars == <<has_last_alarm_, last_alarm_ms_>>
engineVars == <<rule_config_, dwell_active_, dwell_start_ms_, has_last_alarm_,
                last_alarm_ms_, now_ms, reason>>

\* static_cast<uint64_t>: a negative int becomes a very large number.
AsU64(x) == x % Modulus

\* The constructor: configure, then reset.
EngineInit ==
  /\ rule_config_ \in Configs
  /\ dwell_active_ = FALSE /\ dwell_start_ms_ = 0
  /\ has_last_alarm_ = FALSE /\ last_alarm_ms_ = 0
  /\ now_ms = 0 /\ reason = ""
--------------------------------------------------------------------------------
(* RuleResult evaluate(detection, now_ms) *)

Qualifies(d) == d.is_target /\ d.confidence_ok /\ d.inside_roi

\* Mutation: a detection outside the region leaves the dwell running.
EndDwellNot == UNCHANGED <<dwellVars, alarmVars>>

EndDwell ==
  /\ dwell_active_' = FALSE
  /\ dwell_start_ms_' = 0
  /\ UNCHANGED alarmVars

ClassMismatch(d) ==
  /\ ~d.is_target
  /\ EndDwell
  /\ reason' = "class_mismatch"

LowConfidence(d) ==
  /\ d.is_target /\ ~d.confidence_ok
  /\ EndDwell
  /\ reason' = "low_confidence"

OutsideRoi(d) ==
  /\ d.is_target /\ d.confidence_ok /\ ~d.inside_roi
  /\ EndDwell
  /\ reason' = "outside_roi"

\* The start of the dwell once this qualifying detection has been counted.
DwellStart == IF dwell_active_ THEN dwell_start_ms_ ELSE now_ms

\* Mutation: the field holds the end of the dwell instead of its start.
ContinueDwellToDeadline ==
  /\ dwell_active_' = TRUE
  /\ dwell_start_ms_' = DwellStart + rule_config_.dwell_time_ms

ContinueDwell == dwell_active_' = TRUE /\ dwell_start_ms_' = DwellStart

\* The dwell_time_ms of the result.
DwellTime == IF now_ms >= DwellStart THEN now_ms - DwellStart ELSE 0

\* Mutations: the comparison is made in int; it is strict.
DwellReachedAsInt == DwellTime >= rule_config_.dwell_time_ms
DwellExceeded == DwellTime > AsU64(rule_config_.dwell_time_ms)

DwellReached == DwellTime >= AsU64(rule_config_.dwell_time_ms)

CooldownOk == \/ ~has_last_alarm_
              \/ now_ms >= AsU64(last_alarm_ms_ + AsU64(rule_config_.cooldown_ms))

DwellNotReached(d) ==
  /\ Qualifies(d) /\ ~DwellReached
  /\ ContinueDwell /\ UNCHANGED alarmVars
  /\ reason' = "dwell_time_not_reached"

Cooldown(d) ==
  /\ Qualifies(d) /\ DwellReached /\ ~CooldownOk
  /\ ContinueDwell /\ UNCHANGED alarmVars
  /\ reason' = "cooldown"

\* Mutation: the alarm is not remembered.
AlarmForgotten(d) ==
  /\ Qualifies(d) /\ DwellReached /\ CooldownOk
  /\ ContinueDwell /\ UNCHANGED alarmVars
  /\ reason' = "alarm"

\* An alarm does not end the dwell: the next one needs the cooldown only.
Alarm(d) ==
  /\ Qualifies(d) /\ DwellReached /\ CooldownOk
  /\ ContinueDwell
  /\ has_last_alarm_' = TRUE /\ last_alarm_ms_' = now_ms
  /\ reason' = "alarm"

Evaluate(d) ==
  /\ \/ ClassMismatch(d) \/ LowConfidence(d) \/ OutsideRoi(d)
     \/ DwellNotReached(d) \/ Cooldown(d) \/ Alarm(d)
  /\ UNCHANGED <<rule_config_, now_ms>>

\* The steady clock advances.
Tick ==
  /\ now_ms < MaxTime
  /\ now_ms' = now_ms + 1
  /\ UNCHANGED <<rule_config_, dwellVars, alarmVars, reason>>
--------------------------------------------------------------------------------
(* Type invariant of the engine. *)
EngineTypeOK ==
  /\ rule_config_ \in Configs
  /\ dwell_active_ \in BOOLEAN /\ dwell_start_ms_ \in 0 .. MaxTime
  /\ has_last_alarm_ \in BOOLEAN /\ last_alarm_ms_ \in 0 .. MaxTime
  /\ now_ms \in 0 .. MaxTime
  /\ reason \in {"", "class_mismatch", "low_confidence", "outside_roi",
                 "dwell_time_not_reached", "cooldown", "alarm"}
================================================================================
