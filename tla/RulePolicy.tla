------------------------------- MODULE RulePolicy ------------------------------
(***************************************************************************)
(* What RuleEngine's four fields amount to.  The engine remembers only the *)
(* start of a dwell and the time of the last alarm; this module keeps the  *)
(* whole history of the calls to evaluate and states when an alarm is due  *)
(* in terms of that history alone.                                         *)
(***************************************************************************)
EXTENDS RuleEngine, Sequences

CONSTANT MaxCalls   \* bound: the number of calls to evaluate

VARIABLE history    \* the calls to evaluate so far, oldest first

vars == <<engineVars, history>>

Call == [qualifies : BOOLEAN, at : 0 .. MaxTime, alarm : BOOLEAN]

Init == EngineInit /\ history = <<>>

LoggedEvaluate(d) ==
  /\ Len(history) < MaxCalls
  /\ Evaluate(d)
  /\ history' = Append(history, [qualifies |-> Qualifies(d), at |-> now_ms,
                                 alarm |-> reason' = "alarm"])

LoggedTick == Tick /\ UNCHANGED history

Next == LoggedTick \/ \E d \in Detection : LoggedEvaluate(d)

Spec == Init /\ [][Next]_vars
--------------------------------------------------------------------------------
(* Type invariant. *)
TypeOK == EngineTypeOK /\ history \in Seq(Call)

\* Calls j to i were all made for a qualifying detection.
Unbroken(j, i) == \A k \in j .. i : history[k].qualifies

\* Call i ends an unbroken run of qualifying detections at least t long.
DweltFor(i, t) ==
  \E j \in 1 .. i : Unbroken(j, i) /\ history[i].at - history[j].at >= t

\* No alarm was raised less than t before call i.
QuietFor(i, t) ==
  \A j \in 1 .. i - 1 : history[j].alarm => history[i].at - history[j].at >= t

\* No alarm was raised before call i, or one was once the clock had reached t.
RearmedAt(i, t) ==
  \/ \A j \in 1 .. i - 1 : ~history[j].alarm
  \/ \E j \in 1 .. i - 1 : history[j].alarm /\ history[j].at >= t

(* When the detections of a moment may raise an alarm as far as earlier alarms
   are concerned.  A negative cooldown_ms, which the configuration parser lets
   through, is cast to a huge uint64_t and the deadline wraps: an alarm raised
   while the clock is younger than |cooldown_ms| is the last one ever, a later
   one starts no cooldown at all. *)
Recovered(i) ==
  IF rule_config_.cooldown_ms >= 0 THEN QuietFor(i, rule_config_.cooldown_ms)
                                   ELSE RearmedAt(i, -rule_config_.cooldown_ms)

(* With a dwell that is not negative, a call to evaluate raises an alarm
   exactly when the detections since some moment at least dwell_time_ms ago all
   qualified and the engine has recovered from its last alarm: none is raised
   early, on a broken dwell or twice in a cooldown, and none is missed. *)
AlarmPolicy ==
  rule_config_.dwell_time_ms >= 0 =>
    \A i \in 1 .. Len(history) :
      history[i].alarm <=> DweltFor(i, rule_config_.dwell_time_ms) /\ Recovered(i)

(* A negative dwell_time_ms, which the configuration parser lets through, is
   cast to a huge uint64_t: the engine then never raises an alarm. *)
NegativeDwellIsDeaf ==
  rule_config_.dwell_time_ms < 0 =>
    \A i \in 1 .. Len(history) : ~history[i].alarm

(* What the engine's fields say about the history: the inductive invariant
   behind AlarmPolicy. *)
DwellRecorded ==
  /\ dwell_active_ <=> /\ history # <<>>
                       /\ history[Len(history)].qualifies
  /\ dwell_active_ =>
       /\ \E j \in 1 .. Len(history) :
            Unbroken(j, Len(history)) /\ history[j].at = dwell_start_ms_
       /\ \A j \in 1 .. Len(history) :
            Unbroken(j, Len(history)) => dwell_start_ms_ <= history[j].at

AlarmRecorded ==
  /\ has_last_alarm_ <=> \E j \in 1 .. Len(history) : history[j].alarm
  /\ has_last_alarm_ =>
       /\ \E j \in 1 .. Len(history) :
            history[j].alarm /\ history[j].at = last_alarm_ms_
       /\ \A j \in 1 .. Len(history) :
            history[j].alarm => history[j].at <= last_alarm_ms_

EngineRemembers ==
  /\ TypeOK
  /\ \A j \in 1 .. Len(history) : history[j].at <= now_ms
  /\ DwellRecorded
  /\ AlarmRecorded
  /\ AlarmPolicy
  /\ NegativeDwellIsDeaf
================================================================================
