------------------------------ MODULE AlarmThread ------------------------------
(***************************************************************************)
(* alarm_thread (src/alarm.cpp): takes inference results off the queue,    *)
(* runs RuleEngine on every detection, and publishes alarm events, raw     *)
(* detections and metrics over MQTT.                                       *)
(*                                                                         *)
(* Its surroundings are the inference thread that produces results, the    *)
(* broker connection, the clock and the signal that stops the process.     *)
(* A result carries its scene: the detections of the frame, as RuleEngine  *)
(* sees them.                                                              *)
(***************************************************************************)
EXTENDS RuleEngine, Sequences, FiniteSets

CONSTANTS Scenes,         \* the sequences of detections a frame may hold
          QueueSlots,     \* the items infer_queue holds: 3 for RingQueue<T, 4>
          MetricsPeriod,  \* 5000 ms
          NoStay,
          MaxFrames       \* bound: the number of results produced

ASSUME AlarmAssumption ==
  /\ Scenes \subseteq Seq(Detection)
  /\ QueueSlots \in Nat /\ MaxFrames \in Nat

VARIABLES
  running,               \* the flag shared by all threads
  pc,                    \* where the thread is
  infer_queue, produced, \* results waiting, and the seq of the latest one
  ipc,                   \* where the inference thread is in its loop
  result, i,             \* the result in hand and the detection looked at
  alarm_seq, last_metrics_ms,
  metrics,               \* the counters of metrics.cpp
  snapshot_path,         \* the path save_alarm_snapshot left: "", or a file...
  saved,                 \* ...of these alarms the image was written
  connected,             \* the connection to the broker is up
  wire,                  \* the messages handed to the broker, in order
  stay,                  \* history: the current unbroken stay of a person in
                         \* the region, and when it was last evaluated
  raised                 \* history: when each alarm was raised, by event number

queueVars == <<infer_queue, produced, ipc>>
loopVars == <<pc, result, i, alarm_seq, last_metrics_ms, snapshot_path, saved>>
historyVars == <<stay, raised>>
vars == <<engineVars, running, queueVars, metrics, connected, wire,
          historyVars, loopVars>>

NoCounts == [inference_frame_count |-> 0, alarm_count |-> 0,
             mqtt_detect_publish_count |-> 0, mqtt_alarm_publish_count |-> 0]

Init ==
  /\ EngineInit
  /\ running = TRUE
  /\ pc = "start"
  /\ infer_queue = <<>> /\ produced = 0 /\ ipc = "loop"
  /\ result = [seq |-> 0, scene |-> <<>>] /\ i = 1
  /\ alarm_seq = 0 /\ last_metrics_ms = 0
  /\ metrics = NoCounts
  /\ snapshot_path = "" /\ saved = {}
  /\ connected = FALSE /\ wire = <<>>
  /\ stay = NoStay /\ raised = <<>>
--------------------------------------------------------------------------------
(* Surroundings *)

\* The inference thread sees running still set and takes a frame.
TakeFrame ==
  /\ ipc = "loop" /\ running /\ produced < MaxFrames
  /\ ipc' = "frame"
  /\ UNCHANGED <<engineVars, running, infer_queue, produced, metrics, connected,
                 wire, historyVars, loopVars>>

\* It pushes the result, which is dropped when the queue is full.
Produce(scene) ==
  /\ ipc = "frame"
  /\ produced' = produced + 1
  /\ infer_queue' = IF Len(infer_queue) < QueueSlots
                    THEN Append(infer_queue, [seq |-> produced', scene |-> scene])
                    ELSE infer_queue
  /\ ipc' = "count"
  /\ UNCHANGED <<engineVars, running, metrics, connected, wire, historyVars, loopVars>>

\* Then it calls metrics_record_inference_frame.
CountFrame ==
  /\ ipc = "count"
  /\ ipc' = "loop"
  /\ metrics' = [metrics EXCEPT !.inference_frame_count = @ + 1]
  /\ UNCHANGED <<engineVars, running, infer_queue, produced, connected, wire, historyVars,
                 loopVars>>

\* The connection breaks.  Nothing calls mosquitto_loop or reconnects.
LinkLost ==
  /\ connected
  /\ connected' = FALSE
  /\ UNCHANGED <<engineVars, running, queueVars, metrics, wire, historyVars,
                 loopVars>>

\* SIGINT or SIGTERM.
Stop ==
  /\ running
  /\ running' = FALSE
  /\ UNCHANGED <<engineVars, queueVars, metrics, connected, wire,
                 historyVars, loopVars>>

TimePasses ==
  /\ Tick
  /\ UNCHANGED <<running, queueVars, metrics, connected, wire, historyVars,
                 loopVars>>
--------------------------------------------------------------------------------
(* mosquitto_publish: succeeds while the connection is up. *)

Delivered(message) == connected /\ wire' = Append(wire, message)
Undelivered == ~connected /\ UNCHANGED wire
Publish(message) == Delivered(message) \/ Undelivered
--------------------------------------------------------------------------------
(* alarm_thread *)

\* mosquitto_new and mosquitto_connect; on failure the thread returns.
Connect ==
  /\ pc = "start"
  /\ \/ pc' = "loop" /\ connected' = TRUE
     \/ pc' = "exited" /\ UNCHANGED connected
  /\ UNCHANGED <<engineVars, running, queueVars, metrics, wire, historyVars,
                 result, i, alarm_seq, last_metrics_ms, snapshot_path, saved>>

Exit ==
  /\ pc = "loop" /\ ~running
  /\ pc' = "exited"
  /\ connected' = FALSE
  /\ UNCHANGED <<engineVars, running, queueVars, metrics, wire, historyVars,
                 result, i, alarm_seq, last_metrics_ms, snapshot_path, saved>>

MetricsDue == now_ms >= last_metrics_ms + MetricsPeriod

\* The top of the loop: publish the metrics every MetricsPeriod.
Loop ==
  /\ pc = "loop" /\ running
  /\ pc' = "pop"
  /\ \/ /\ MetricsDue
        /\ Publish([topic |-> "metrics", counts |-> metrics])
        /\ last_metrics_ms' = now_ms
     \/ ~MetricsDue /\ UNCHANGED <<wire, last_metrics_ms>>
  /\ UNCHANGED <<engineVars, running, queueVars, metrics, connected,
                 historyVars, result, i, alarm_seq, snapshot_path, saved>>

PopNothing ==
  /\ pc = "pop" /\ infer_queue = <<>>
  /\ pc' = "loop"
  /\ UNCHANGED <<engineVars, running, queueVars, metrics, connected,
                 wire, historyVars, result, i, alarm_seq, last_metrics_ms, snapshot_path,
                 saved>>

HoldsPerson(scene) == \E k \in DOMAIN scene : Qualifies(scene[k])

\* Mutation: the newest result is taken first.
PopNewest ==
  /\ pc = "pop" /\ infer_queue # <<>>
  /\ result' = infer_queue[Len(infer_queue)]
  /\ infer_queue' = SubSeq(infer_queue, 1, Len(infer_queue) - 1)
  /\ i' = 1
  /\ pc' = "rules"
  /\ stay' = IF HoldsPerson(result'.scene) THEN stay ELSE NoStay
  /\ UNCHANGED <<engineVars, running, produced, ipc, metrics, connected, wire,
                 raised, alarm_seq, last_metrics_ms, snapshot_path, saved>>

\* A frame without a person in the region ends the stay.
PopResult ==
  /\ pc = "pop" /\ infer_queue # <<>>
  /\ result' = Head(infer_queue)
  /\ infer_queue' = Tail(infer_queue)
  /\ i' = 1
  /\ pc' = "rules"
  /\ stay' = IF HoldsPerson(result'.scene) THEN stay ELSE NoStay
  /\ UNCHANGED <<engineVars, running, produced, ipc, metrics, connected, wire,
                 raised, alarm_seq, last_metrics_ms, snapshot_path, saved>>

StayExtended(d) ==
  IF ~Qualifies(d) THEN stay
  ELSE IF stay = NoStay THEN [since |-> now_ms, latest |-> now_ms]
  ELSE [stay EXCEPT !.latest = now_ms]

\* One pass of the loop over the detections.
ApplyRules ==
  /\ pc = "rules" /\ i <= Len(result.scene)
  /\ Evaluate(result.scene[i])
  /\ stay' = StayExtended(result.scene[i])
  /\ IF reason' = "alarm"
     THEN pc' = "record" /\ raised' = Append(raised, now_ms) /\ UNCHANGED i
     ELSE i' = i + 1 /\ UNCHANGED <<pc, raised>>
  /\ UNCHANGED <<running, queueVars, metrics, connected, wire, result,
                 alarm_seq, last_metrics_ms, snapshot_path, saved>>

RecordAlarm ==
  /\ pc = "record"
  /\ alarm_seq' = alarm_seq + 1
  /\ metrics' = [metrics EXCEPT !.alarm_count = @ + 1]
  /\ pc' = "snapshot"
  /\ UNCHANGED <<engineVars, running, queueVars, connected, wire, historyVars,
                 result, i, last_metrics_ms, snapshot_path, saved>>

\* save_alarm_snapshot: it is disabled or fails before it has a path, or sets
\* the path and then writes the image, which may fail too.
SaveSnapshot ==
  /\ pc = "snapshot"
  /\ \/ snapshot_path' = "" /\ UNCHANGED saved
     \/ snapshot_path' = "jpg" /\ saved' \in {saved, saved \cup {alarm_seq}}
  /\ pc' = "publish"
  /\ UNCHANGED <<engineVars, running, queueVars, metrics, connected,
                 wire, historyVars, result, i, alarm_seq, last_metrics_ms>>

\* The time is unix_time_ms() when the message is made, after the snapshot: the same
\* clock here, whose adjustments are not modelled.
AlarmMessage == [topic |-> "alarm", seq |-> result.seq, event |-> alarm_seq,
                 timestamp |-> now_ms, snapshot |-> snapshot_path]

\* Mutation: the publication is counted whether it succeeds or not.
PublishAlarmCounted ==
  /\ pc = "publish"
  /\ Publish(AlarmMessage)
  /\ metrics' = [metrics EXCEPT !.mqtt_alarm_publish_count = @ + 1]
  /\ i' = i + 1
  /\ pc' = "rules"
  /\ UNCHANGED <<engineVars, running, queueVars, connected, historyVars,
                 result, alarm_seq, last_metrics_ms, snapshot_path, saved>>

PublishAlarm ==
  /\ pc = "publish"
  /\ \/ /\ Delivered(AlarmMessage)
        /\ metrics' = [metrics EXCEPT !.mqtt_alarm_publish_count = @ + 1]
     \/ Undelivered /\ UNCHANGED metrics
  /\ i' = i + 1
  /\ pc' = "rules"
  /\ UNCHANGED <<engineVars, running, queueVars, connected, historyVars,
                 result, alarm_seq, last_metrics_ms, snapshot_path, saved>>

\* publish_raw_detection ignores the result of the publication.
PublishRaw ==
  /\ pc = "rules" /\ i > Len(result.scene)
  /\ Publish([topic |-> "detect", seq |-> result.seq])
  /\ metrics' = [metrics EXCEPT !.mqtt_detect_publish_count = @ + 1]
  /\ pc' = "loop"
  /\ UNCHANGED <<engineVars, running, queueVars, connected, historyVars,
                 result, i, alarm_seq, last_metrics_ms, snapshot_path, saved>>
--------------------------------------------------------------------------------
Surroundings == \/ (\E scene \in Scenes : Produce(scene))
                \/ TakeFrame \/ CountFrame \/ LinkLost \/ Stop \/ TimePasses

Thread == \/ Connect \/ Exit \/ Loop \/ PopNothing \/ PopResult \/ ApplyRules
          \/ RecordAlarm \/ SaveSnapshot \/ PublishAlarm \/ PublishRaw

Next == Surroundings \/ Thread

Spec == Init /\ [][Next]_vars
--------------------------------------------------------------------------------
Results == [seq : 0 .. MaxFrames, scene : Scenes \cup {<<>>}]

(* Type invariant. *)
TypeOK ==
  /\ EngineTypeOK
  /\ running \in BOOLEAN /\ connected \in BOOLEAN
  /\ pc \in {"start", "loop", "pop", "rules", "record", "snapshot", "publish",
             "exited"}
  /\ infer_queue \in Seq(Results) /\ Len(infer_queue) <= QueueSlots
  /\ produced \in 0 .. MaxFrames /\ ipc \in {"loop", "frame", "count"}
  /\ result \in Results /\ i \in 1 .. Len(result.scene) + 1
  /\ alarm_seq \in Nat /\ last_metrics_ms \in 0 .. MaxTime
  /\ metrics \in [DOMAIN NoCounts -> Nat]
  /\ snapshot_path \in {"", "jpg"} /\ saved \subseteq 1 .. alarm_seq
  /\ stay = NoStay \/ (/\ stay.since \in 0 .. MaxTime
                       /\ stay.latest \in stay.since .. MaxTime)
  /\ raised \in Seq(0 .. MaxTime)
  /\ Len(raised) = IF pc = "record" THEN alarm_seq + 1 ELSE alarm_seq

\* The positions on the wire of the messages of a topic.
OnWire(topic) == {k \in DOMAIN wire : wire[k].topic = topic}

Sequenced ==
  \A k \in OnWire("detect") \cup OnWire("alarm"), l \in OnWire("detect") :
    /\ k < l => wire[k].seq <= wire[l].seq
    /\ l < k => wire[l].seq < wire[k].seq
    /\ k < l /\ wire[k].seq = wire[l].seq => wire[k].topic = "alarm"

NoneSkipped ==
  connected /\ pc = "loop" /\ result.seq # 0 =>
    \E k \in OnWire("detect") : wire[k].seq = result.seq

(* Subscribers see the frames in order: nothing about a frame arrives after a
   later frame's message, and the raw detections of a frame close it - they
   come after all its alarm events, and once; and as long as the connection holds,
   for every result taken off the queue, whatever was dropped before it. *)
InOrder == Sequenced /\ NoneSkipped

(* Whatever the mix of people and frames, two alarms are raised at least a cooldown
   apart.  What is published of them keeps their order, and each message is made
   between the raising of its alarm and that of the next: two messages may be
   closer than a cooldown, by the time the snapshot before the first one took. *)
AlarmSpacing ==
  /\ \A m, n \in DOMAIN raised :
       m < n => raised[n] - raised[m] >= rule_config_.cooldown_ms
  /\ \A k \in OnWire("alarm") :
       /\ wire[k].event \in DOMAIN raised /\ raised[wire[k].event] <= wire[k].timestamp
       /\ \A n \in DOMAIN raised : wire[k].event < n => wire[k].timestamp <= raised[n]
  /\ \A k, l \in OnWire("alarm") : k < l => wire[k].event < wire[l].event

(* The counters tell what happened to the messages: the alarm publications
   counted are those delivered; alarms and raw detections are counted also when
   the connection is gone, and only then, or in mid-alarm, do the counts differ;
   of the frames whose detections were published at most the latest is not
   counted as inferred yet, because it is counted after it is pushed. *)
MetricsTruthful ==
  LET alarms == Cardinality(OnWire("alarm"))
      detects == Cardinality(OnWire("detect"))
  IN /\ metrics.mqtt_alarm_publish_count = alarms
     /\ alarms <= metrics.alarm_count
     /\ detects <= metrics.mqtt_detect_publish_count
     /\ metrics.mqtt_detect_publish_count <= metrics.inference_frame_count + 1
     /\ connected /\ pc = "loop" => /\ metrics.alarm_count = alarms
                                    /\ metrics.mqtt_detect_publish_count = detects
--------------------------------------------------------------------------------
(* mqtt_protocol.md 9.3: after entering the region a person has to stay there
   continuously for the dwell time before an alarm is raised. *)
ContinuousStay ==
  pc = "record" => stay.latest - stay.since >= rule_config_.dwell_time_ms

(* performance.md 8.3: once a person has entered the region and stayed for the
   dwell time, alarm_count increases. *)
StayRaisesAlarm ==
  pc = "rules" /\ i > Len(result.scene) /\ stay # NoStay =>
    \/ stay.latest - stay.since < rule_config_.dwell_time_ms
    \/ metrics.alarm_count > 0
================================================================================
