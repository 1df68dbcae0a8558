----------------------------- MODULE MCAlarmThread -----------------------------
(* Small instances of AlarmThread. *)
EXTENDS AlarmThread

Person    == [is_target |-> TRUE, confidence_ok |-> TRUE, inside_roi |-> TRUE]
Passer_by == [is_target |-> TRUE, confidence_ok |-> TRUE, inside_roi |-> FALSE]
Blurred   == [is_target |-> TRUE, confidence_ok |-> FALSE, inside_roi |-> TRUE]
Car       == [is_target |-> FALSE, confidence_ok |-> TRUE, inside_roi |-> TRUE]

\* One or two detections: the dwell is kept, broken, and broken within a frame;
\* two detections of a frame may both raise an alarm.
BusyScenes == {<<Person, Person>>, <<Passer_by, Blurred>>, <<Person, Car>>}

\* People come and go.
GapScenes == {<<>>, <<Person>>}

\* Somebody passes by outside while a person stays inside.
CrowdScenes == {<<Person>>, <<Person, Passer_by>>}

ShortDwell == {[dwell_time_ms |-> 1, cooldown_ms |-> 2]}
QuickRules == {[dwell_time_ms |-> 0, cooldown_ms |-> 2],
               [dwell_time_ms |-> 1, cooldown_ms |-> 0]}
================================================================================
