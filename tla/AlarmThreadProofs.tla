--------------------------- MODULE AlarmThreadProofs ---------------------------
(***************************************************************************)
(* What the subscribers of the broker see of alarm_thread, for any scenes, *)
(* rules, queue length, clock range and number of frames: results in       *)
(* order, alarms raised a cooldown apart, and counters that match the      *)
(* messages.                                                               *)
(***************************************************************************)
EXTENDS AlarmThread, SequenceTheorems, FiniteSetTheorems, TLAPS

Counts == [DOMAIN NoCounts -> Nat]

Stays == [since : 0 .. MaxTime, latest : 0 .. MaxTime]

MetricsMessages == [topic : {"metrics"}, counts : Counts]
DetectMessages  == [topic : {"detect"}, seq : 0 .. MaxFrames]
AlarmMessages   == [topic : {"alarm"}, seq : 0 .. MaxFrames, event : Nat,
                    timestamp : 0 .. MaxTime, snapshot : {"", "jpg"}]
Messages == MetricsMessages \cup DetectMessages \cup AlarmMessages

\* A result is in hand, whose raw detections are still to be published...
Handling == pc \in {"rules", "record", "snapshot", "publish"}
\* ...an alarm was decided on that is not published yet...
InAlarm == pc \in {"record", "snapshot", "publish"}
\* ...and it is counted and has its event number.
Numbered == pc \in {"snapshot", "publish"}

(* The types, with those of the messages and of the stay; the detection that
   raised an alarm stays in hand until the alarm is published. *)
QueueTypes ==
  /\ infer_queue \in Seq(Results) /\ Len(infer_queue) <= QueueSlots
  /\ produced \in 0 .. MaxFrames /\ ipc \in {"loop", "frame", "count"}
  /\ ipc = "frame" => produced < MaxFrames

LoopTypes ==
  /\ pc \in {"start", "loop", "pop", "rules", "record", "snapshot", "publish",
             "exited"}
  /\ result \in Results /\ i \in 1 .. Len(result.scene) + 1
  /\ alarm_seq \in Nat /\ last_metrics_ms \in 0 .. MaxTime
  /\ snapshot_path \in {"", "jpg"} /\ saved \subseteq 1 .. alarm_seq
  /\ InAlarm => i <= Len(result.scene)
  /\ Numbered => alarm_seq >= 1

StayTypes ==
  stay = NoStay \/ (stay \in Stays /\ stay.since <= stay.latest
                                   /\ stay.latest <= now_ms)

Types ==
  /\ EngineTypeOK /\ QueueTypes /\ LoopTypes /\ StayTypes
  /\ running \in BOOLEAN /\ connected \in BOOLEAN
  /\ metrics \in Counts
  /\ wire \in Seq(Messages)

(* An alarm is raised first, and then gets its number. *)
RaisedTypes ==
  /\ raised \in Seq(0 .. MaxTime)
  /\ Len(raised) = IF pc = "record" THEN alarm_seq + 1 ELSE alarm_seq

(* Results are numbered and leave the queue in order. *)
QueueInOrder ==
  /\ result.seq <= produced
  /\ \A k \in 1 .. Len(infer_queue) : /\ result.seq < infer_queue[k].seq
                                      /\ infer_queue[k].seq <= produced
  /\ \A k, l \in 1 .. Len(infer_queue) :
       k < l => infer_queue[k].seq < infer_queue[l].seq

(* Nothing on the wire is about a frame after the one in hand, whose raw
   detections are not published before its alarms are. *)
WireInOrder ==
  /\ Sequenced
  /\ \A k \in OnWire("detect") \cup OnWire("alarm") : wire[k].seq <= result.seq
  /\ Handling => \A k \in OnWire("detect") : wire[k].seq < result.seq

(* The raw detections of the latest result are on the wire once it is handled, as
   long as the connection has held. *)
RawPublished ==
  /\ pc = "start" => result.seq = 0
  /\ connected /\ ~Handling /\ result.seq # 0 =>
       \E k \in OnWire("detect") : wire[k].seq = result.seq

(* The engine remembers the latest alarm raised, whether it was published or not,
   and an alarm that is being handled is not published yet. *)
Spaced ==
  /\ AlarmSpacing
  /\ last_alarm_ms_ <= now_ms
  /\ \A n \in DOMAIN raised : has_last_alarm_ /\ raised[n] <= last_alarm_ms_
  /\ \A k \in OnWire("alarm") :
       /\ wire[k].timestamp <= now_ms
       /\ wire[k].event <= alarm_seq
       /\ Numbered => wire[k].event < alarm_seq

(* What was counted and what was published differ by the alarm in the making,
   as long as the connection has held. *)
AlarmsCounted ==
  LET alarms == Cardinality(OnWire("alarm"))
      pending == IF Numbered THEN 1 ELSE 0
  IN /\ metrics.mqtt_alarm_publish_count = alarms
     /\ alarms + pending <= metrics.alarm_count
     /\ connected => metrics.alarm_count = alarms + pending

DetectsCounted ==
  LET detects == Cardinality(OnWire("detect"))
  IN /\ detects <= metrics.mqtt_detect_publish_count
     /\ connected => metrics.mqtt_detect_publish_count = detects

(* Each result published, in hand or in the queue was counted as an inferred
   frame, but for the one just pushed. *)
FramesCounted ==
  metrics.mqtt_detect_publish_count + Len(infer_queue) + (IF Handling THEN 1 ELSE 0)
    <= metrics.inference_frame_count + (IF ipc = "count" THEN 1 ELSE 0)

NothingYet ==
  pc = "start" => /\ wire = <<>>
                  /\ metrics.alarm_count = 0
                  /\ metrics.mqtt_detect_publish_count = 0

Inv ==
  /\ Types /\ RaisedTypes
  /\ QueueInOrder
  /\ WireInOrder /\ RawPublished
  /\ Spaced
  /\ AlarmsCounted /\ DetectsCounted /\ FramesCounted /\ NothingYet
--------------------------------------------------------------------------------
(* Facts about types, stated for the provers. *)

LEMMA Bounds ==
  /\ QueueSlots \in Nat /\ MaxFrames \in Nat /\ MaxTime \in Nat
  /\ Modulus \in Nat \ {0}
  /\ \A scene \in Scenes : scene \in Seq(Detection)
BY AlarmAssumption, RuleAssumption

LEMMA EngineFacts ==
  ASSUME EngineTypeOK
  PROVE  /\ now_ms \in 0 .. MaxTime /\ last_alarm_ms_ \in 0 .. MaxTime
         /\ dwell_active_ \in BOOLEAN /\ dwell_start_ms_ \in 0 .. MaxTime
         /\ has_last_alarm_ \in BOOLEAN
         /\ rule_config_.cooldown_ms \in Int
         /\ MaxTime + rule_config_.cooldown_ms < Modulus
<1>1. Configs \subseteq Config
  BY RuleAssumption
<1>2. rule_config_ \in Config /\ rule_config_ \in Configs
  BY <1>1 DEF EngineTypeOK
<1> QED
  BY <1>2, RuleAssumption DEF EngineTypeOK, Config

LEMMA ResultFacts ==
  ASSUME NEW r \in Results
  PROVE  /\ r.seq \in 0 .. MaxFrames
         /\ r.scene \in Seq(Detection)
         /\ Len(r.scene) \in Nat
<1>1. r.seq \in 0 .. MaxFrames /\ r.scene \in Scenes \cup {<<>>}
  BY DEF Results
<1>2. <<>> \in Seq(Detection)
  OBVIOUS
<1>3. r.scene \in Seq(Detection)
  BY <1>1, <1>2, Bounds
<1> QED
  BY <1>1, <1>3, LenProperties

LEMMA MetricsFacts ==
  ASSUME metrics \in Counts
  PROVE  /\ metrics.inference_frame_count \in Nat
         /\ metrics.alarm_count \in Nat
         /\ metrics.mqtt_detect_publish_count \in Nat
         /\ metrics.mqtt_alarm_publish_count \in Nat
BY DEF Counts, NoCounts

LEMMA TypeFacts ==
  ASSUME Types
  PROVE  /\ EngineTypeOK
         /\ infer_queue \in Seq(Results) /\ Len(infer_queue) <= QueueSlots
         /\ Len(infer_queue) \in Nat
         /\ produced \in 0 .. MaxFrames
         /\ result \in Results
         /\ i \in Nat /\ i >= 1 /\ i <= Len(result.scene) + 1
         /\ alarm_seq \in Nat /\ last_metrics_ms \in 0 .. MaxTime
         /\ snapshot_path \in {"", "jpg"} /\ saved \subseteq 1 .. alarm_seq
         /\ running \in BOOLEAN /\ connected \in BOOLEAN
         /\ metrics \in Counts
         /\ wire \in Seq(Messages) /\ Len(wire) \in Nat
<1>1. /\ EngineTypeOK /\ QueueTypes /\ LoopTypes
      /\ running \in BOOLEAN /\ connected \in BOOLEAN
      /\ metrics \in Counts /\ wire \in Seq(Messages)
  BY DEF Types
<1>2. /\ infer_queue \in Seq(Results) /\ Len(infer_queue) <= QueueSlots
      /\ produced \in 0 .. MaxFrames
  BY <1>1 DEF QueueTypes
<1>3. /\ result \in Results /\ i \in 1 .. Len(result.scene) + 1
      /\ alarm_seq \in Nat /\ last_metrics_ms \in 0 .. MaxTime
      /\ snapshot_path \in {"", "jpg"} /\ saved \subseteq 1 .. alarm_seq
  BY <1>1 DEF LoopTypes
<1>4. Len(infer_queue) \in Nat /\ Len(wire) \in Nat /\ Len(result.scene) \in Nat
  BY <1>1, <1>2, <1>3, LenProperties, ResultFacts
<1>5. i \in Nat /\ i >= 1 /\ i <= Len(result.scene) + 1
  <2>1. \A n \in Nat : i \in 1 .. n + 1 => i \in Nat /\ i >= 1 /\ i <= n + 1
    OBVIOUS
  <2> QED
    BY <1>3, <1>4, <2>1
<1> QED
  BY <1>1, <1>2, <1>3, <1>4, <1>5

LEMMA MessageFacts ==
  ASSUME NEW m \in Messages
  PROVE  /\ m.topic \in {"metrics", "detect", "alarm"}
         /\ m.topic = "detect" => m.seq \in 0 .. MaxFrames
         /\ m.topic = "alarm" => /\ m.seq \in 0 .. MaxFrames
                                 /\ m.event \in Nat
                                 /\ m.timestamp \in 0 .. MaxTime
<1>1. CASE m \in MetricsMessages
  BY <1>1 DEF MetricsMessages
<1>2. CASE m \in DetectMessages
  BY <1>2 DEF DetectMessages
<1>3. CASE m \in AlarmMessages
  BY <1>3 DEF AlarmMessages
<1> QED
  BY <1>1, <1>2, <1>3 DEF Messages
--------------------------------------------------------------------------------
(* Messages on the wire. *)

LEMMA OnWireFacts ==
  ASSUME wire \in Seq(Messages), NEW topic, NEW k \in OnWire(topic)
  PROVE  /\ k \in 1 .. Len(wire)
         /\ wire[k] \in Messages /\ wire[k].topic = topic
<1>1. k \in 1 .. Len(wire) /\ wire[k].topic = topic
  BY LenProperties DEF OnWire
<1>2. wire[k] \in Messages
  BY <1>1, ElementOfSeq
<1> QED
  BY <1>1, <1>2

LEMMA OnWireFinite ==
  ASSUME wire \in Seq(Messages), NEW topic
  PROVE  IsFiniteSet(OnWire(topic)) /\ Cardinality(OnWire(topic)) \in Nat
<1>1. Len(wire) \in Nat /\ DOMAIN wire = 1 .. Len(wire)
  BY LenProperties
<1>2. IsFiniteSet(1 .. Len(wire))
  BY <1>1, FS_Interval
<1>3. OnWire(topic) \subseteq 1 .. Len(wire)
  BY <1>1 DEF OnWire
<1>4. IsFiniteSet(OnWire(topic))
  BY <1>2, <1>3, FS_Subset
<1> QED
  BY <1>4, FS_CardinalityType

(* What is delivered is the last message, and the earlier ones stay. *)
LEMMA DeliveredEffect ==
  ASSUME wire \in Seq(Messages), NEW m \in Messages, wire' = Append(wire, m)
  PROVE  /\ wire' \in Seq(Messages)
         /\ Len(wire') = Len(wire) + 1
         /\ \A k \in 1 .. Len(wire) : wire'[k] = wire[k]
         /\ wire'[Len(wire) + 1] = m
BY AppendProperties

LEMMA OnWireDelivered ==
  ASSUME wire \in Seq(Messages), NEW m \in Messages, wire' = Append(wire, m),
         NEW topic
  PROVE  /\ OnWire(topic)' = IF m.topic = topic
                               THEN OnWire(topic) \cup {Len(wire) + 1}
                               ELSE OnWire(topic)
         /\ Cardinality(OnWire(topic)')
              = Cardinality(OnWire(topic)) + (IF m.topic = topic THEN 1 ELSE 0)
<1>1. /\ wire' \in Seq(Messages)
      /\ Len(wire') = Len(wire) + 1
      /\ \A k \in 1 .. Len(wire) : wire'[k] = wire[k]
      /\ wire'[Len(wire) + 1] = m
  BY DeliveredEffect
<1>2. /\ Len(wire) \in Nat /\ DOMAIN wire = 1 .. Len(wire)
      /\ DOMAIN wire' = 1 .. Len(wire) + 1
  BY <1>1, LenProperties
<1>3. \A k : k \in 1 .. Len(wire) + 1 <=> k \in 1 .. Len(wire) \/ k = Len(wire) + 1
  BY <1>2
<1>4. OnWire(topic)' = {k \in 1 .. Len(wire) + 1 : wire'[k].topic = topic}
  BY <1>2 DEF OnWire
<1>5. \A k : k \in OnWire(topic)' <=>
               k \in OnWire(topic) \/ (k = Len(wire) + 1 /\ m.topic = topic)
  BY <1>1, <1>2, <1>3, <1>4 DEF OnWire
<1>6. OnWire(topic)' = IF m.topic = topic THEN OnWire(topic) \cup {Len(wire) + 1}
                                          ELSE OnWire(topic)
  BY <1>5
<1>7. Len(wire) + 1 \notin OnWire(topic)
  BY <1>2 DEF OnWire
<1>8. IsFiniteSet(OnWire(topic)) /\ Cardinality(OnWire(topic)) \in Nat
  BY OnWireFinite
<1>9. Cardinality(OnWire(topic) \cup {Len(wire) + 1}) = Cardinality(OnWire(topic)) + 1
  BY <1>7, <1>8, FS_AddElement
<1> QED
  BY <1>6, <1>8, <1>9
--------------------------------------------------------------------------------
(* What the engine does to its variables. *)

LEMMA DwellStartType ==
  ASSUME EngineTypeOK
  PROVE  DwellStart \in 0 .. MaxTime
BY EngineFacts DEF DwellStart

LEMMA EvaluateEffect ==
  ASSUME NEW d, Evaluate(d)
  PROVE  /\ UNCHANGED <<rule_config_, now_ms>>
         /\ \/ /\ reason' # "alarm" /\ UNCHANGED alarmVars
            \/ /\ reason' = "alarm" /\ CooldownOk
               /\ has_last_alarm_' = TRUE /\ last_alarm_ms_' = now_ms
BY DEF Evaluate, ClassMismatch, LowConfidence, OutsideRoi, DwellNotReached,
       Cooldown, Alarm, EndDwell, alarmVars

LEMMA EvaluateTypes ==
  ASSUME EngineTypeOK, NEW d, Evaluate(d)
  PROVE  EngineTypeOK'
<1>1. DwellStart \in 0 .. MaxTime /\ 0 \in 0 .. MaxTime
  BY DwellStartType, Bounds
<1>2. /\ dwell_active_' \in BOOLEAN
      /\ dwell_start_ms_' \in {0, DwellStart}
      /\ reason' \in {"class_mismatch", "low_confidence", "outside_roi",
                      "dwell_time_not_reached", "cooldown", "alarm"}
  BY DEF Evaluate, ClassMismatch, LowConfidence, OutsideRoi, DwellNotReached,
         Cooldown, Alarm, EndDwell, ContinueDwell
<1>3. UNCHANGED <<rule_config_, now_ms>>
  BY EvaluateEffect
<1>4. has_last_alarm_' \in BOOLEAN /\ last_alarm_ms_' \in 0 .. MaxTime
  <2>1. CASE reason' # "alarm"
    BY <2>1, EvaluateEffect, EngineFacts DEF alarmVars
  <2>2. CASE reason' = "alarm"
    BY <2>2, EvaluateEffect, EngineFacts
  <2> QED
    BY <2>1, <2>2
<1> QED
  BY <1>1, <1>2, <1>3, <1>4 DEF EngineTypeOK

LEMMA TickTypes ==
  ASSUME EngineTypeOK, Tick
  PROVE  EngineTypeOK' /\ now_ms' = now_ms + 1
<1>1. now_ms' \in 0 .. MaxTime
  BY EngineFacts, Bounds DEF Tick
<1> QED
  BY <1>1 DEF Tick, EngineTypeOK, dwellVars, alarmVars

(* An alarm the engine raises is a cooldown after the one it remembers: the
   deadline is not distorted by the two casts when the cooldown is not
   negative, and any alarm is later than a negative cooldown asks for. *)
LEMMA CooldownKeepsApart ==
  ASSUME EngineTypeOK, last_alarm_ms_ <= now_ms, has_last_alarm_, CooldownOk
  PROVE  now_ms - last_alarm_ms_ >= rule_config_.cooldown_ms
<1> DEFINE c == rule_config_.cooldown_ms
<1>1. /\ c \in Int /\ MaxTime + c < Modulus
      /\ now_ms \in 0 .. MaxTime /\ last_alarm_ms_ \in 0 .. MaxTime
      /\ MaxTime \in Nat /\ Modulus \in Nat \ {0}
  BY EngineFacts, Bounds
<1>2. now_ms >= AsU64(last_alarm_ms_ + AsU64(c))
  BY DEF CooldownOk
<1> HIDE DEF c
<1>3. CASE c < 0
  BY <1>1, <1>3 DEF c
<1>4. CASE c >= 0
  <2>1. c \in 0 .. Modulus - 1 /\ last_alarm_ms_ + c \in 0 .. Modulus - 1
    BY <1>1, <1>4
  <2>2. AsU64(c) = c /\ AsU64(last_alarm_ms_ + c) = last_alarm_ms_ + c
    BY <1>1, <2>1 DEF AsU64
  <2>3. now_ms - last_alarm_ms_ >= c
    BY <1>1, <1>2, <2>2
  <2> QED
    BY <2>3 DEF c
<1> QED
  BY <1>1, <1>3, <1>4
--------------------------------------------------------------------------------
(* The types. *)

LEMMA StayExtendedType ==
  ASSUME Types, NEW d, stay' = StayExtended(d)
  PROVE  stay' = NoStay \/ (stay' \in Stays /\ stay'.since <= stay'.latest
                                           /\ stay'.latest <= now_ms)
<1>1. now_ms \in 0 .. MaxTime /\ MaxTime \in Nat
  BY TypeFacts, EngineFacts, Bounds
<1>2. CASE ~Qualifies(d)
  BY <1>2 DEF StayExtended, StayTypes, Types
<1>3. CASE Qualifies(d) /\ stay = NoStay
  <2>1. stay' = [since |-> now_ms, latest |-> now_ms]
    BY <1>3 DEF StayExtended
  <2> QED
    BY <1>1, <2>1 DEF Stays
<1>4. CASE Qualifies(d) /\ stay # NoStay
  <2>1. stay' = [stay EXCEPT !.latest = now_ms]
    BY <1>4 DEF StayExtended
  <2>2. stay \in Stays /\ stay.since <= stay.latest /\ stay.latest <= now_ms
    BY <1>4 DEF StayTypes, Types
  <2> QED
    BY <1>1, <2>1, <2>2 DEF Stays
<1> QED
  BY <1>2, <1>3, <1>4

(* The types of the proof contain those of the model. *)
LEMMA TypesImplyTypeOK ==
  ASSUME Types, RaisedTypes
  PROVE  TypeOK
<1>1. stay = NoStay \/ (/\ stay.since \in 0 .. MaxTime
                        /\ stay.latest \in stay.since .. MaxTime)
  <2>1. CASE stay \in Stays /\ stay.since <= stay.latest
    BY <2>1, Bounds DEF Stays
  <2> QED
    BY <2>1 DEF Types, StayTypes
<1>2. metrics \in [DOMAIN NoCounts -> Nat]
  BY DEF Types, Counts
<1> QED
  BY <1>1, <1>2 DEF TypeOK, Types, QueueTypes, LoopTypes, RaisedTypes

LEMMA MessageTypes ==
  ASSUME Types
  PROVE  /\ [topic |-> "metrics", counts |-> metrics] \in Messages
         /\ [topic |-> "detect", seq |-> result.seq] \in Messages
         /\ AlarmMessage \in Messages
<1>1. metrics \in Counts /\ result.seq \in 0 .. MaxFrames /\ alarm_seq \in Nat
  BY TypeFacts, ResultFacts
<1>2. now_ms \in 0 .. MaxTime /\ snapshot_path \in {"", "jpg"}
  BY TypeFacts, EngineFacts
<1>3. [topic |-> "metrics", counts |-> metrics] \in MetricsMessages
  BY <1>1 DEF MetricsMessages
<1>4. [topic |-> "detect", seq |-> result.seq] \in DetectMessages
  BY <1>1 DEF DetectMessages
<1>5. AlarmMessage \in AlarmMessages
  BY <1>1, <1>2 DEF AlarmMessage, AlarmMessages
<1> QED
  BY <1>3, <1>4, <1>5 DEF Messages

LEMMA PublishTypes ==
  ASSUME wire \in Seq(Messages), NEW m \in Messages, Publish(m)
  PROVE  wire' \in Seq(Messages)
BY DeliveredEffect DEF Publish, Delivered, Undelivered

LEMMA UnchangedEngine ==
  ASSUME EngineTypeOK, UNCHANGED engineVars
  PROVE  EngineTypeOK' /\ UNCHANGED now_ms
BY DEF EngineTypeOK, engineVars

LEMMA UnchangedQueue ==
  ASSUME QueueTypes, UNCHANGED queueVars
  PROVE  QueueTypes'
BY DEF QueueTypes, queueVars

LEMMA UnchangedLoop ==
  ASSUME LoopTypes, UNCHANGED loopVars
  PROVE  LoopTypes'
BY DEF LoopTypes, loopVars, InAlarm, Numbered

LEMMA UnchangedStay ==
  ASSUME StayTypes, UNCHANGED <<stay, now_ms>>
  PROVE  StayTypes'
BY DEF StayTypes

(* A jump to a place where no alarm is in the making. *)
LEMMA JumpTypes ==
  ASSUME LoopTypes, pc' \in {"loop", "pop", "exited"},
         UNCHANGED <<result, i, alarm_seq, snapshot_path, saved>>,
         last_metrics_ms' \in 0 .. MaxTime
  PROVE  LoopTypes'
BY DEF LoopTypes, InAlarm, Numbered

LEMMA CounterTypes ==
  ASSUME metrics \in Counts
  PROVE  /\ [metrics EXCEPT !.inference_frame_count = @ + 1] \in Counts
         /\ [metrics EXCEPT !.alarm_count = @ + 1] \in Counts
         /\ [metrics EXCEPT !.mqtt_detect_publish_count = @ + 1] \in Counts
         /\ [metrics EXCEPT !.mqtt_alarm_publish_count = @ + 1] \in Counts
BY DEF Counts, NoCounts

LEMMA SurroundingsTypes ==
  ASSUME Types, Surroundings
  PROVE  Types'
<1> USE DEF Types, historyVars
<1>1. ASSUME NEW scene \in Scenes, Produce(scene)
      PROVE  Types'
  <2>1. /\ ipc = "frame" /\ produced' = produced + 1 /\ ipc' = "count"
        /\ infer_queue' = IF Len(infer_queue) < QueueSlots
             THEN Append(infer_queue, [seq |-> produced', scene |-> scene])
             ELSE infer_queue
        /\ UNCHANGED <<engineVars, running, metrics, connected, wire, historyVars,
                       loopVars>>
    BY <1>1 DEF Produce
  <2>2. produced' \in 0 .. MaxFrames
    <3>1. produced \in 0 .. MaxFrames /\ produced < MaxFrames /\ MaxFrames \in Nat
      BY <2>1, Bounds DEF QueueTypes
    <3> QED
      BY <2>1, <3>1
  <2>3. [seq |-> produced', scene |-> scene] \in Results
    BY <1>1, <2>2 DEF Results
  <2>4. infer_queue' \in Seq(Results) /\ Len(infer_queue') <= QueueSlots
    <3>1. CASE Len(infer_queue) < QueueSlots
      <4>1. infer_queue' \in Seq(Results) /\ Len(infer_queue') = Len(infer_queue) + 1
        BY <2>1, <2>3, <3>1, AppendProperties DEF QueueTypes
      <4>2. Len(infer_queue) \in Nat /\ QueueSlots \in Nat
        BY TypeFacts, Bounds
      <4> QED
        BY <3>1, <4>1, <4>2
    <3>2. CASE ~(Len(infer_queue) < QueueSlots)
      BY <2>1, <3>2, TypeFacts
    <3> QED
      BY <3>1, <3>2
  <2>5. QueueTypes'
    BY <2>1, <2>2, <2>4 DEF QueueTypes
  <2> QED
    BY <2>1, <2>5, UnchangedEngine, UnchangedLoop, UnchangedStay
<1>2. CASE TakeFrame
  <2>1. QueueTypes'
    BY <1>2 DEF TakeFrame, QueueTypes
  <2> QED
    BY <1>2, <2>1, UnchangedEngine, UnchangedLoop, UnchangedStay DEF TakeFrame
<1>3. CASE CountFrame
  <2>1. metrics' \in Counts
    BY <1>3, CounterTypes DEF CountFrame
  <2>2. QueueTypes'
    BY <1>3 DEF CountFrame, QueueTypes
  <2> QED
    BY <1>3, <2>1, <2>2, UnchangedEngine, UnchangedLoop, UnchangedStay
    DEF CountFrame
<1>4. CASE LinkLost
  BY <1>4, UnchangedEngine, UnchangedQueue, UnchangedLoop, UnchangedStay
  DEF LinkLost
<1>5. CASE Stop
  BY <1>5, UnchangedEngine, UnchangedQueue, UnchangedLoop, UnchangedStay DEF Stop
<1>6. CASE TimePasses
  <2>1. EngineTypeOK' /\ now_ms' = now_ms + 1
    BY <1>6, TickTypes DEF TimePasses
  <2>2. StayTypes'
    <3>1. stay' = stay /\ now_ms \in 0 .. MaxTime /\ MaxTime \in Nat
      BY <1>6, EngineFacts, Bounds DEF TimePasses
    <3> QED
      BY <2>1, <3>1 DEF StayTypes, Stays
  <2> QED
    BY <1>6, <2>1, <2>2, UnchangedQueue, UnchangedLoop DEF TimePasses
<1> QED
  BY <1>1, <1>2, <1>3, <1>4, <1>5, <1>6 DEF Surroundings

LEMMA ThreadTypes ==
  ASSUME Types, Thread
  PROVE  Types'
<1> USE DEF Types, historyVars
<1>1. CASE Connect
  <2>1. LoopTypes'
    BY <1>1 DEF Connect, LoopTypes, InAlarm, Numbered
  <2> QED
    BY <1>1, <2>1, UnchangedEngine, UnchangedQueue, UnchangedStay DEF Connect
<1>2. CASE Exit
  <2>1. LoopTypes'
    BY <1>2, JumpTypes, TypeFacts DEF Exit
  <2> QED
    BY <1>2, <2>1, UnchangedEngine, UnchangedQueue, UnchangedStay DEF Exit
<1>3. CASE Loop
  <2>1. wire' \in Seq(Messages)
    BY <1>3, MessageTypes, PublishTypes DEF Loop
  <2>2. last_metrics_ms' \in 0 .. MaxTime
    BY <1>3, TypeFacts, EngineFacts DEF Loop
  <2>3. LoopTypes'
    BY <1>3, <2>2, JumpTypes DEF Loop
  <2> QED
    BY <1>3, <2>1, <2>3, UnchangedEngine, UnchangedQueue, UnchangedStay DEF Loop
<1>4. CASE PopNothing
  <2>1. LoopTypes'
    BY <1>4, JumpTypes, TypeFacts DEF PopNothing
  <2> QED
    BY <1>4, <2>1, UnchangedEngine, UnchangedQueue, UnchangedStay DEF PopNothing
<1>5. CASE PopResult
  <2>1. result' \in Results /\ infer_queue' \in Seq(Results)
        /\ Len(infer_queue') <= QueueSlots
    <3>1. /\ result' = Head(infer_queue) /\ infer_queue' = Tail(infer_queue)
          /\ infer_queue # <<>> /\ infer_queue \in Seq(Results)
      BY <1>5 DEF PopResult, QueueTypes
    <3>2. /\ Head(infer_queue) \in Results /\ Tail(infer_queue) \in Seq(Results)
          /\ Len(Tail(infer_queue)) = Len(infer_queue) - 1
      BY <3>1, HeadTailProperties
    <3>3. Len(infer_queue) \in Nat /\ Len(infer_queue) <= QueueSlots
          /\ QueueSlots \in Nat
      BY TypeFacts, Bounds
    <3>4. Len(infer_queue) - 1 <= QueueSlots
      BY <3>3
    <3> QED
      BY <3>1, <3>2, <3>4
  <2>2. i' \in 1 .. Len(result'.scene) + 1
    BY <1>5, <2>1, ResultFacts DEF PopResult
  <2>3. QueueTypes'
    BY <1>5, <2>1 DEF PopResult, QueueTypes
  <2>4. LoopTypes'
    BY <1>5, <2>1, <2>2 DEF PopResult, LoopTypes, InAlarm, Numbered
  <2>5. StayTypes'
    BY <1>5, UnchangedEngine DEF PopResult, StayTypes
  <2> QED
    BY <1>5, <2>3, <2>4, <2>5, UnchangedEngine DEF PopResult
<1>6. CASE ApplyRules
  <2>1. /\ Evaluate(result.scene[i]) /\ stay' = StayExtended(result.scene[i])
        /\ i <= Len(result.scene)
    BY <1>6 DEF ApplyRules
  <2>2. EngineTypeOK' /\ now_ms' = now_ms
    BY <2>1, EvaluateTypes, EvaluateEffect
  <2>3. StayTypes'
    BY <2>1, <2>2, StayExtendedType DEF StayTypes
  <2>4. result' = result /\ Len(result.scene) \in Nat
    BY <1>6, TypeFacts, ResultFacts DEF ApplyRules
  <2>5. /\ i' \in 1 .. Len(result.scene) + 1
        /\ InAlarm' => i' <= Len(result.scene)
        /\ ~Numbered'
        /\ pc' \in {"rules", "record"}
    <3>1. \/ reason' = "alarm" /\ pc' = "record" /\ i' = i
          \/ i' = i + 1 /\ pc' = "rules"
      BY <1>6 DEF ApplyRules
    <3>2. i \in Nat /\ i >= 1
      BY TypeFacts
    <3>3. \A n \in Nat : i <= n => i \in 1 .. n + 1 /\ i + 1 \in 1 .. n + 1
      BY <3>2
    <3> QED
      BY <2>1, <2>4, <3>1, <3>3 DEF InAlarm, Numbered
  <2>6. LoopTypes'
    BY <1>6, <2>4, <2>5 DEF ApplyRules, LoopTypes
  <2> QED
    BY <1>6, <2>2, <2>3, <2>6, UnchangedQueue DEF ApplyRules
<1>7. CASE RecordAlarm
  <2>1. metrics' \in Counts
    BY <1>7, CounterTypes DEF RecordAlarm
  <2>2. alarm_seq' \in Nat /\ alarm_seq' >= 1 /\ saved' \subseteq 1 .. alarm_seq'
    <3>1. /\ alarm_seq' = alarm_seq + 1 /\ saved' = saved /\ alarm_seq \in Nat
          /\ saved \subseteq 1 .. alarm_seq
      BY <1>7, TypeFacts DEF RecordAlarm
    <3> QED
      BY <3>1
  <2>3. LoopTypes'
    BY <1>7, <2>2 DEF RecordAlarm, LoopTypes, InAlarm, Numbered
  <2> QED
    BY <1>7, <2>1, <2>3, UnchangedEngine, UnchangedQueue, UnchangedStay
    DEF RecordAlarm
<1>8. CASE SaveSnapshot
  <2>1. saved' \subseteq 1 .. alarm_seq
    <3>1. alarm_seq \in Nat /\ alarm_seq >= 1 /\ saved \subseteq 1 .. alarm_seq
      BY <1>8, TypeFacts DEF SaveSnapshot, LoopTypes, Numbered
    <3>2. alarm_seq \in 1 .. alarm_seq
      BY <3>1
    <3>3. saved' = saved \/ saved' = saved \cup {alarm_seq}
      BY <1>8 DEF SaveSnapshot
    <3> QED
      BY <3>1, <3>2, <3>3
  <2>2. LoopTypes'
    BY <1>8, <2>1 DEF SaveSnapshot, LoopTypes, InAlarm, Numbered
  <2> QED
    BY <1>8, <2>2, UnchangedEngine, UnchangedQueue, UnchangedStay DEF SaveSnapshot
<1>9. CASE PublishAlarm
  <2>1. wire' \in Seq(Messages)
    BY <1>9, MessageTypes, PublishTypes DEF PublishAlarm, Publish
  <2>2. metrics' \in Counts
    BY <1>9, CounterTypes DEF PublishAlarm
  <2>3. i' \in 1 .. Len(result.scene) + 1
    <3>1. i' = i + 1 /\ i \in Nat /\ i >= 1 /\ i <= Len(result.scene)
      BY <1>9, TypeFacts DEF PublishAlarm, LoopTypes, InAlarm
    <3>2. Len(result.scene) \in Nat
      BY TypeFacts, ResultFacts
    <3>3. \A n \in Nat : i <= n => i + 1 \in 1 .. n + 1
      BY <3>1
    <3> QED
      BY <3>1, <3>2, <3>3
  <2>4. LoopTypes'
    BY <1>9, <2>3 DEF PublishAlarm, LoopTypes, InAlarm, Numbered
  <2> QED
    BY <1>9, <2>1, <2>2, <2>4, UnchangedEngine, UnchangedQueue, UnchangedStay
    DEF PublishAlarm
<1>10. CASE PublishRaw
  <2>1. wire' \in Seq(Messages)
    BY <1>10, MessageTypes, PublishTypes DEF PublishRaw
  <2>2. metrics' \in Counts
    BY <1>10, CounterTypes DEF PublishRaw
  <2>3. LoopTypes'
    BY <1>10, JumpTypes, TypeFacts DEF PublishRaw
  <2> QED
    BY <1>10, <2>1, <2>2, <2>3, UnchangedEngine, UnchangedQueue, UnchangedStay
    DEF PublishRaw
<1> QED
  BY <1>1, <1>2, <1>3, <1>4, <1>5, <1>6, <1>7, <1>8, <1>9, <1>10 DEF Thread

LEMMA TypesKept ==
  ASSUME Types, [Next]_vars
  PROVE  Types'
<1>1. CASE UNCHANGED vars
  BY <1>1, UnchangedEngine, UnchangedQueue, UnchangedLoop, UnchangedStay
  DEF historyVars, vars, Types
<1> QED
  BY <1>1, SurroundingsTypes, ThreadTypes DEF Next
--------------------------------------------------------------------------------
(* The order of the results. *)

LEMMA QueueNumbers ==
  ASSUME Types
  PROVE  /\ result.seq \in Int /\ produced \in Int
         /\ Len(infer_queue) \in Nat
         /\ \A k \in 1 .. Len(infer_queue) :
              infer_queue[k] \in Results /\ infer_queue[k].seq \in Int
<1>1. /\ produced \in 0 .. MaxFrames /\ result \in Results
      /\ infer_queue \in Seq(Results) /\ Len(infer_queue) \in Nat
  BY TypeFacts
<1>2. \A k \in 1 .. Len(infer_queue) : infer_queue[k] \in Results
  BY <1>1, ElementOfSeq
<1>3. \A r \in Results : r.seq \in Int
  BY ResultFacts
<1> QED
  BY <1>1, <1>2, <1>3

LEMMA ProduceKeepsOrder ==
  ASSUME Types, QueueInOrder, NEW scene \in Scenes, Produce(scene)
  PROVE  QueueInOrder'
<1> DEFINE r == [seq |-> produced + 1, scene |-> scene]
<1>1. /\ produced' = produced + 1 /\ result' = result
      /\ infer_queue' = IF Len(infer_queue) < QueueSlots
                          THEN Append(infer_queue, r) ELSE infer_queue
  BY DEF Produce, loopVars
<1>2. /\ result.seq \in Int /\ produced \in Int /\ Len(infer_queue) \in Nat
      /\ \A k \in 1 .. Len(infer_queue) : infer_queue[k].seq \in Int
  BY QueueNumbers
<1>3. /\ result.seq <= produced
      /\ \A k \in 1 .. Len(infer_queue) : /\ result.seq < infer_queue[k].seq
                                          /\ infer_queue[k].seq <= produced
      /\ \A k, l \in 1 .. Len(infer_queue) :
           k < l => infer_queue[k].seq < infer_queue[l].seq
  BY DEF QueueInOrder
<1>4. CASE ~(Len(infer_queue) < QueueSlots)
  BY <1>1, <1>2, <1>3, <1>4 DEF QueueInOrder
<1>5. CASE Len(infer_queue) < QueueSlots
  <2>1. produced + 1 \in 0 .. MaxFrames
    <3>1. produced < MaxFrames /\ produced \in 0 .. MaxFrames /\ MaxFrames \in Nat
      BY Bounds DEF Types, QueueTypes, Produce
    <3> QED
      BY <3>1
  <2>2. r \in Results /\ r.seq = produced + 1
    BY <2>1 DEF Results
  <2> HIDE DEF r
  <2>3. /\ Len(infer_queue') = Len(infer_queue) + 1
        /\ \A k \in 1 .. Len(infer_queue) : infer_queue'[k] = infer_queue[k]
        /\ infer_queue'[Len(infer_queue) + 1] = r
    <3>1. infer_queue \in Seq(Results) /\ infer_queue' = Append(infer_queue, r)
      BY <1>1, <1>5, TypeFacts DEF r
    <3> QED
      BY <2>2, <3>1, AppendProperties
  <2>4. \A k \in 1 .. Len(infer_queue') :
          k \in 1 .. Len(infer_queue) \/ k = Len(infer_queue) + 1
    BY <1>2, <2>3
  <2>5. \A k \in 1 .. Len(infer_queue') :
          result.seq < infer_queue'[k].seq /\ infer_queue'[k].seq <= produced + 1
    BY <1>2, <1>3, <2>2, <2>3, <2>4
  <2>6. \A k, l \in 1 .. Len(infer_queue') :
          k < l => infer_queue'[k].seq < infer_queue'[l].seq
    <3> SUFFICES ASSUME NEW k \in 1 .. Len(infer_queue'),
                        NEW l \in 1 .. Len(infer_queue'), k < l
                 PROVE  infer_queue'[k].seq < infer_queue'[l].seq
      OBVIOUS
    <3>1. k \in 1 .. Len(infer_queue)
      BY <1>2, <2>3
    <3>2. CASE l \in 1 .. Len(infer_queue)
      BY <1>3, <2>3, <3>1, <3>2
    <3>3. CASE l = Len(infer_queue) + 1
      BY <1>2, <1>3, <2>2, <2>3, <3>1, <3>3
    <3> QED
      BY <2>4, <3>2, <3>3
  <2> QED
    BY <1>1, <1>2, <1>3, <2>5, <2>6 DEF QueueInOrder
<1> QED
  BY <1>4, <1>5

LEMMA PopEffect ==
  ASSUME Types, PopResult
  PROVE  /\ result' = infer_queue[1]
         /\ Len(infer_queue) >= 1
         /\ Len(infer_queue') = Len(infer_queue) - 1
         /\ \A k \in 1 .. Len(infer_queue') : infer_queue'[k] = infer_queue[k + 1]
<1>1. /\ result' = Head(infer_queue) /\ infer_queue' = Tail(infer_queue)
      /\ infer_queue # <<>> /\ infer_queue \in Seq(Results)
      /\ Len(infer_queue) \in Nat
  BY TypeFacts DEF PopResult
<1> QED
  BY <1>1, HeadTailProperties, EmptySeq

LEMMA PopKeepsOrder ==
  ASSUME Types, QueueInOrder, PopResult
  PROVE  /\ QueueInOrder'
         /\ result.seq < result'.seq
<1>1. /\ result' = infer_queue[1] /\ produced' = produced
      /\ Len(infer_queue) >= 1
      /\ Len(infer_queue') = Len(infer_queue) - 1
      /\ \A k \in 1 .. Len(infer_queue') : infer_queue'[k] = infer_queue[k + 1]
  BY PopEffect DEF PopResult
<1>2. /\ result.seq \in Int /\ produced \in Int /\ Len(infer_queue) \in Nat
      /\ \A k \in 1 .. Len(infer_queue) : infer_queue[k].seq \in Int
  BY QueueNumbers
<1>3. /\ \A k \in 1 .. Len(infer_queue) : /\ result.seq < infer_queue[k].seq
                                          /\ infer_queue[k].seq <= produced
      /\ \A k, l \in 1 .. Len(infer_queue) :
           k < l => infer_queue[k].seq < infer_queue[l].seq
  BY DEF QueueInOrder
<1>4. 1 \in 1 .. Len(infer_queue)
  BY <1>1, <1>2
<1>5. \A k \in 1 .. Len(infer_queue') :
        k + 1 \in 1 .. Len(infer_queue) /\ 1 < k + 1
  BY <1>1, <1>2
<1>6. \A k, l \in 1 .. Len(infer_queue') :
        k < l => infer_queue'[k].seq < infer_queue'[l].seq
  <2> SUFFICES ASSUME NEW k \in 1 .. Len(infer_queue'),
                      NEW l \in 1 .. Len(infer_queue'), k < l
               PROVE  infer_queue'[k].seq < infer_queue'[l].seq
    OBVIOUS
  <2>1. k + 1 < l + 1
    BY <1>1, <1>2
  <2> QED
    BY <1>1, <1>3, <1>5, <2>1
<1>7. \A k \in 1 .. Len(infer_queue') :
        infer_queue[1].seq < infer_queue'[k].seq /\ infer_queue'[k].seq <= produced
  BY <1>1, <1>3, <1>4, <1>5
<1> QED
  BY <1>1, <1>3, <1>4, <1>6, <1>7 DEF QueueInOrder

LEMMA QueueOrderKept ==
  ASSUME Types, QueueInOrder, [Next]_vars
  PROVE  QueueInOrder'
<1>1. \/ \E scene \in Scenes : Produce(scene)
      \/ PopResult
      \/ UNCHANGED <<infer_queue, produced, result>>
  BY DEF Next, Surroundings, Thread, TakeFrame, CountFrame, LinkLost, Stop,
         TimePasses, Connect, Exit, Loop, PopNothing, ApplyRules, RecordAlarm,
         SaveSnapshot, PublishAlarm, PublishRaw, vars, queueVars, loopVars
<1>2. CASE UNCHANGED <<infer_queue, produced, result>>
  BY <1>2 DEF QueueInOrder
<1> QED
  BY <1>1, <1>2, ProduceKeepsOrder, PopKeepsOrder
--------------------------------------------------------------------------------
(* The order of the messages. *)

LEMMA WireNumbers ==
  ASSUME Types
  PROVE  /\ Len(wire) \in Nat
         /\ result.seq \in Int /\ alarm_seq \in Int
         /\ last_alarm_ms_ \in Int /\ now_ms \in Int
         /\ rule_config_.cooldown_ms \in Int
         /\ \A k \in OnWire("detect") \cup OnWire("alarm") :
              k \in 1 .. Len(wire) /\ k \in Int /\ wire[k].seq \in Int
         /\ \A k \in OnWire("alarm") : wire[k].event \in Int /\ wire[k].timestamp \in Int
<1>1. /\ Len(wire) \in Nat /\ wire \in Seq(Messages) /\ alarm_seq \in Int
      /\ result.seq \in Int
  <2>1. alarm_seq \in Nat /\ Len(wire) \in Nat /\ wire \in Seq(Messages)
    BY TypeFacts
  <2> QED
    BY <2>1, QueueNumbers
<1>2. /\ last_alarm_ms_ \in Int /\ now_ms \in Int
      /\ rule_config_.cooldown_ms \in Int
  <2>1. /\ last_alarm_ms_ \in 0 .. MaxTime /\ now_ms \in 0 .. MaxTime
        /\ rule_config_.cooldown_ms \in Int
    BY EngineFacts, TypeFacts
  <2> QED
    BY <2>1
<1>3. \A k \in OnWire("detect") : k \in 1 .. Len(wire) /\ wire[k].seq \in Int
  BY <1>1, OnWireFacts, MessageFacts
<1>4. \A k \in OnWire("alarm") : /\ k \in 1 .. Len(wire) /\ wire[k].seq \in Int
                                 /\ wire[k].event \in Int /\ wire[k].timestamp \in Int
  BY <1>1, OnWireFacts, MessageFacts
<1> QED
  BY <1>1, <1>2, <1>3, <1>4

LEMMA WireOrderSame ==
  ASSUME WireInOrder, UNCHANGED <<wire, result>>, Handling' => Handling
  PROVE  WireInOrder'
BY DEF WireInOrder, Sequenced, OnWire

LEMMA WireOrderPublished ==
  ASSUME Types, WireInOrder, NEW m \in Messages, Publish(m), result' = result,
         Handling' => Handling,
         m.topic \in {"detect", "alarm"} => Handling /\ m.seq = result.seq,
         m.topic = "detect" => ~Handling'
  PROVE  WireInOrder'
<1>1. CASE Undelivered
  BY <1>1, WireOrderSame DEF Undelivered
<1>2. CASE Delivered(m)
  <2> DEFINE n == Len(wire) + 1
  <2>1. wire' = Append(wire, m) /\ wire \in Seq(Messages)
    BY <1>2, TypeFacts DEF Delivered
  <2>2. /\ \A k \in 1 .. Len(wire) : wire'[k] = wire[k]
        /\ wire'[n] = m
    BY <2>1, DeliveredEffect
  <2>3. \A topic : OnWire(topic)' = IF m.topic = topic THEN OnWire(topic) \cup {n}
                                                      ELSE OnWire(topic)
    BY <2>1, OnWireDelivered
  <2>4. /\ Len(wire) \in Nat /\ result.seq \in Int
        /\ \A k \in OnWire("detect") \cup OnWire("alarm") :
             k \in 1 .. Len(wire) /\ k \in Int /\ wire[k].seq \in Int
    BY WireNumbers
  <2>5. \A k \in OnWire("detect") \cup OnWire("alarm") :
          /\ k < n /\ k # n /\ ~(n < k)
          /\ wire'[k] = wire[k]
          /\ wire[k].seq <= result.seq
    BY <2>2, <2>4 DEF WireInOrder
  <2>6. \A k \in OnWire("detect") :
          wire[k].topic = "detect" /\ (Handling => wire[k].seq < result.seq)
    BY DEF WireInOrder, OnWire
  <2>7. \A k \in OnWire("alarm") : wire[k].topic = "alarm"
    BY DEF OnWire
  <2> HIDE DEF n
  <2>8. \A k \in (OnWire("detect") \cup OnWire("alarm"))' :
          wire'[k].seq <= result'.seq
    BY <2>2, <2>3, <2>4, <2>5
  <2>9. Handling' => \A k \in OnWire("detect")' : wire'[k].seq < result'.seq
    BY <2>3, <2>5, <2>6
  <2>10. Sequenced'
    <3> SUFFICES ASSUME NEW k \in (OnWire("detect") \cup OnWire("alarm"))',
                        NEW l \in OnWire("detect")'
                 PROVE  /\ k < l => wire'[k].seq <= wire'[l].seq
                        /\ l < k => wire'[l].seq < wire'[k].seq
                        /\ k < l /\ wire'[k].seq = wire'[l].seq
                             => wire'[k].topic = "alarm"
      BY DEF Sequenced
    <3>1. CASE k \in OnWire("detect") \cup OnWire("alarm") /\ l \in OnWire("detect")
      BY <2>5, <3>1 DEF WireInOrder, Sequenced
    <3>2. CASE l \notin OnWire("detect")
      <4>1. l = n /\ m.topic = "detect"
        BY <2>3, <3>2
      <4>2. CASE k = n
        BY <2>4, <4>1, <4>2 DEF n
      <4>3. CASE k \in OnWire("detect") \cup OnWire("alarm")
        <5>1. k < n /\ ~(n < k) /\ wire'[k] = wire[k] /\ wire[k].seq <= result.seq
          BY <2>5, <4>3
        <5>2. wire'[l].seq = result.seq /\ Handling
          BY <2>2, <4>1
        <5>3. wire[k].seq = result.seq => wire[k].topic = "alarm"
          BY <2>4, <2>6, <2>7, <4>3, <5>2
        <5> QED
          BY <4>1, <5>1, <5>2, <5>3
      <4> QED
        BY <2>3, <4>2, <4>3
    <3>3. CASE k \notin OnWire("detect") \cup OnWire("alarm") /\ l \in OnWire("detect")
      <4>1. k = n /\ m.topic \in {"detect", "alarm"}
        BY <2>3, <3>3
      <4>2. wire'[k].seq = result.seq /\ Handling
        BY <2>2, <4>1
      <4>3. l < n /\ ~(n < l) /\ wire'[l] = wire[l] /\ wire[l].seq < result.seq
        BY <2>5, <2>6, <3>3, <4>2
      <4> QED
        BY <4>1, <4>2, <4>3
    <3> QED
      BY <3>1, <3>2, <3>3
  <2> QED
    BY <2>8, <2>9, <2>10 DEF WireInOrder
<1> QED
  BY <1>1, <1>2 DEF Publish

LEMMA WireOrderKept ==
  ASSUME Types, QueueInOrder, WireInOrder, [Next]_vars
  PROVE  WireInOrder'
<1>1. CASE Loop
  <2> DEFINE m == [topic |-> "metrics", counts |-> metrics]
  <2>1. /\ result' = result /\ ~Handling'
        /\ Publish(m) \/ UNCHANGED wire
    BY <1>1 DEF Loop, Handling
  <2>2. m \in Messages /\ m.topic \notin {"detect", "alarm"}
    BY MessageTypes
  <2> HIDE DEF m
  <2> QED
    BY <2>1, <2>2, WireOrderSame, WireOrderPublished
<1>2. CASE PopResult
  <2>1. wire' = wire /\ result.seq < result'.seq
    BY <1>2, PopKeepsOrder DEF PopResult
  <2>2. result.seq \in Int /\ result'.seq \in Int
    BY <1>2, QueueNumbers, PopEffect
  <2>3. \A k \in OnWire("detect") \cup OnWire("alarm") :
          wire[k].seq \in Int /\ wire[k].seq <= result.seq
    BY WireNumbers DEF WireInOrder
  <2>4. \A k \in OnWire("detect") \cup OnWire("alarm") :
          wire[k].seq < result'.seq /\ wire[k].seq <= result'.seq
    BY <2>1, <2>2, <2>3
  <2>5. \A topic : OnWire(topic)' = OnWire(topic)
    BY <2>1 DEF OnWire
  <2> QED
    BY <2>1, <2>4, <2>5 DEF WireInOrder, Sequenced
<1>3. CASE PublishAlarm
  <2>1. /\ Publish(AlarmMessage) /\ result' = result /\ Handling
    BY <1>3 DEF PublishAlarm, Publish, Handling
  <2>2. /\ AlarmMessage \in Messages /\ AlarmMessage.topic = "alarm"
        /\ AlarmMessage.seq = result.seq
    BY MessageTypes DEF AlarmMessage
  <2> QED
    BY <2>1, <2>2, WireOrderPublished
<1>4. CASE PublishRaw
  <2> DEFINE m == [topic |-> "detect", seq |-> result.seq]
  <2>1. Publish(m) /\ result' = result /\ Handling /\ ~Handling'
    BY <1>4 DEF PublishRaw, Handling
  <2>2. m \in Messages /\ m.topic = "detect" /\ m.seq = result.seq
    BY MessageTypes
  <2> HIDE DEF m
  <2> QED
    BY <2>1, <2>2, WireOrderPublished
<1>5. CASE UNCHANGED <<wire, result>> /\ (Handling' => Handling)
  BY <1>5, WireOrderSame
<1>6. \/ Loop \/ PopResult \/ PublishAlarm \/ PublishRaw
      \/ UNCHANGED <<wire, result>> /\ (Handling' => Handling)
  BY DEF Next, Surroundings, Thread, Produce, TakeFrame, CountFrame, LinkLost,
         Stop, TimePasses, Connect, Exit, PopNothing, ApplyRules, RecordAlarm,
         SaveSnapshot, vars, loopVars, Handling
<1> QED
  BY <1>1, <1>2, <1>3, <1>4, <1>5, <1>6

(* A result handled while the connection holds leaves its raw detections behind. *)
LEMMA RawPublishedKept ==
  ASSUME Types, RawPublished, [Next]_vars
  PROVE  RawPublished'
<1>1. CASE Loop
  <2> DEFINE m == [topic |-> "metrics", counts |-> metrics]
  <2>1. /\ result' = result /\ connected' = connected /\ ~Handling /\ pc' = "pop"
        /\ Delivered(m) \/ UNCHANGED wire
    BY <1>1 DEF Loop, Publish, Undelivered, Handling
  <2>2. \A k \in OnWire("detect") : k \in OnWire("detect")' /\ wire'[k] = wire[k]
    <3>1. CASE UNCHANGED wire
      BY <3>1 DEF OnWire
    <3>2. CASE Delivered(m)
      <4>1. wire' = Append(wire, m) /\ wire \in Seq(Messages) /\ m \in Messages
        BY <3>2, TypeFacts, MessageTypes DEF Delivered
      <4>2. \A k \in 1 .. Len(wire) : wire'[k] = wire[k]
        BY <4>1, DeliveredEffect
      <4>3. \A k \in OnWire("detect") : k \in 1 .. Len(wire)
        BY WireNumbers
      <4>4. OnWire("detect") \subseteq OnWire("detect")'
        BY <4>1, OnWireDelivered
      <4> QED
        BY <4>2, <4>3, <4>4
    <3> QED
      BY <2>1, <3>1, <3>2
  <2> QED
    BY <2>1, <2>2 DEF RawPublished
<1>2. CASE PopResult \/ PublishAlarm
  BY <1>2 DEF PopResult, PublishAlarm, RawPublished, Handling
<1>3. CASE PublishRaw
  <2> DEFINE m == [topic |-> "detect", seq |-> result.seq]
  <2>1. /\ result' = result /\ connected' = connected /\ pc' = "loop"
        /\ Delivered(m) \/ ~connected
    BY <1>3 DEF PublishRaw, Publish, Undelivered
  <2>2. CASE Delivered(m)
    <3>1. wire' = Append(wire, m) /\ wire \in Seq(Messages) /\ m \in Messages
      BY <2>2, TypeFacts, MessageTypes DEF Delivered
    <3>2. wire'[Len(wire) + 1] = m /\ Len(wire) + 1 \in OnWire("detect")'
      BY <3>1, DeliveredEffect, OnWireDelivered
    <3> QED
      BY <2>1, <3>2 DEF RawPublished
  <2> QED
    BY <2>1, <2>2 DEF RawPublished
<1>4. CASE Connect
  BY <1>4 DEF Connect, RawPublished, Handling
<1>5. CASE /\ UNCHANGED <<wire, result>> /\ (connected' => connected)
           /\ (Handling' <=> Handling) /\ (pc' = "start" => pc = "start")
  BY <1>5 DEF RawPublished, OnWire
<1>6. \/ Loop \/ PopResult \/ PublishAlarm \/ PublishRaw \/ Connect
      \/ /\ UNCHANGED <<wire, result>> /\ (connected' => connected)
         /\ (Handling' <=> Handling) /\ (pc' = "start" => pc = "start")
  BY DEF Next, Surroundings, Thread, Produce, TakeFrame, CountFrame, LinkLost,
         Stop, TimePasses, Exit, PopNothing, ApplyRules, RecordAlarm,
         SaveSnapshot, vars, loopVars, Handling
<1> QED
  BY <1>1, <1>2, <1>3, <1>4, <1>5, <1>6
--------------------------------------------------------------------------------
(* The distance of the alarms. *)

LEMMA RaisedKept ==
  ASSUME Types, RaisedTypes, [Next]_vars
  PROVE  RaisedTypes'
<1>1. raised \in Seq(0 .. MaxTime) /\ now_ms \in 0 .. MaxTime
      /\ alarm_seq \in Nat
  BY TypeFacts, EngineFacts DEF RaisedTypes
<1>2. CASE ApplyRules
  <2>1. /\ pc = "rules" /\ alarm_seq' = alarm_seq
        /\ \/ pc' = "record" /\ raised' = Append(raised, now_ms)
           \/ pc' = "rules" /\ raised' = raised
    BY <1>2 DEF ApplyRules
  <2>2. /\ Append(raised, now_ms) \in Seq(0 .. MaxTime)
        /\ Len(Append(raised, now_ms)) = Len(raised) + 1
    BY <1>1, AppendProperties
  <2> QED
    BY <2>1, <2>2 DEF RaisedTypes
<1>3. CASE RecordAlarm
  BY <1>3 DEF RecordAlarm, RaisedTypes, historyVars
<1>4. CASE UNCHANGED <<raised, alarm_seq>> /\ (pc' = pc \/ "record" \notin {pc, pc'})
  BY <1>4 DEF RaisedTypes
<1>5. \/ ApplyRules \/ RecordAlarm
      \/ UNCHANGED <<raised, alarm_seq>> /\ (pc' = pc \/ "record" \notin {pc, pc'})
  <2>1. CASE Surroundings \/ UNCHANGED vars
    BY <2>1 DEF Surroundings, Produce, TakeFrame, CountFrame, LinkLost, Stop, TimePasses,
           vars, loopVars, historyVars
  <2>2. CASE Connect \/ Exit \/ Loop \/ PopNothing \/ PopResult \/ SaveSnapshot
               \/ PublishAlarm \/ PublishRaw
    BY <2>2 DEF Connect, Exit, Loop, PopNothing, PopResult, SaveSnapshot,
           PublishAlarm, PublishRaw, historyVars
  <2> QED
    BY <2>1, <2>2 DEF Next, Thread
<1> QED
  BY <1>2, <1>3, <1>4, <1>5

(* Each alarm on the wire, seen from the thread. *)
AlarmBehind(k) ==
  /\ wire[k].timestamp <= now_ms
  /\ wire[k].event <= alarm_seq
  /\ Numbered => wire[k].event < alarm_seq

LEMMA SpacedFacts ==
  ASSUME Spaced
  PROVE  /\ AlarmSpacing
         /\ last_alarm_ms_ <= now_ms
         /\ \A n \in DOMAIN raised : has_last_alarm_ /\ raised[n] <= last_alarm_ms_
         /\ \A k \in OnWire("alarm") : AlarmBehind(k)
BY DEF Spaced, AlarmBehind

LEMMA RaisedFacts ==
  ASSUME RaisedTypes
  PROVE  /\ Len(raised) \in Nat /\ DOMAIN raised = 1 .. Len(raised)
         /\ \A n \in DOMAIN raised : n \in Int /\ n <= Len(raised) /\ raised[n] \in Int
<1>1. raised \in Seq(0 .. MaxTime)
  BY DEF RaisedTypes
<1>2. Len(raised) \in Nat /\ DOMAIN raised = 1 .. Len(raised)
  BY <1>1, LenProperties
<1>3. \A n \in DOMAIN raised : raised[n] \in 0 .. MaxTime
  BY <1>1, <1>2, ElementOfSeq
<1> QED
  BY <1>2, <1>3

(* The engine is not consulted, and event numbers grow before they are used. *)
LEMMA SpacedSame ==
  ASSUME Types, Spaced,
         UNCHANGED <<wire, raised, rule_config_, has_last_alarm_, last_alarm_ms_>>,
         now_ms' \in {now_ms, now_ms + 1},
         \/ alarm_seq' = alarm_seq /\ (Numbered' => Numbered)
         \/ alarm_seq' = alarm_seq + 1
  PROVE  Spaced'
<1>1. /\ AlarmSpacing /\ last_alarm_ms_ <= now_ms
      /\ \A n \in DOMAIN raised : has_last_alarm_ /\ raised[n] <= last_alarm_ms_
      /\ \A k \in OnWire("alarm") : AlarmBehind(k)
  BY SpacedFacts
<1>2. /\ last_alarm_ms_ \in Int /\ now_ms \in Int /\ alarm_seq \in Int
      /\ \A k \in OnWire("alarm") : wire[k].event \in Int /\ wire[k].timestamp \in Int
  BY WireNumbers
<1>3. OnWire("alarm")' = OnWire("alarm")
  BY DEF OnWire
<1>4. AlarmSpacing'
  BY <1>1, <1>3 DEF AlarmSpacing
<1>5. last_alarm_ms_' <= now_ms'
  BY <1>1, <1>2
<1>6. ASSUME NEW k \in OnWire("alarm")
      PROVE  AlarmBehind(k)'
  <2>1. wire[k].event <= alarm_seq' /\ (Numbered' => wire[k].event < alarm_seq')
    BY <1>1, <1>2, <1>6 DEF AlarmBehind
  <2>2. wire[k].timestamp <= now_ms'
    BY <1>1, <1>2, <1>6 DEF AlarmBehind
  <2> QED
    BY <2>1, <2>2 DEF AlarmBehind
<1> QED
  BY <1>1, <1>3, <1>4, <1>5, <1>6 DEF Spaced, AlarmBehind

(* The alarm published is the latest one raised. *)
LEMMA SpacedPublished ==
  ASSUME Types, RaisedTypes, Spaced, NEW m \in Messages, Publish(m),
         UNCHANGED <<engineVars, alarm_seq, raised>>, ~Numbered',
         m.topic = "alarm" => Numbered /\ m = AlarmMessage
  PROVE  Spaced'
<1> USE DEF engineVars
<1>1. CASE Undelivered
  BY <1>1, SpacedSame DEF Undelivered
<1>2. CASE Delivered(m)
  <2> DEFINE n == Len(wire) + 1
  <2>1. wire' = Append(wire, m) /\ wire \in Seq(Messages)
    BY <1>2, TypeFacts DEF Delivered
  <2>2. /\ \A k \in 1 .. Len(wire) : wire'[k] = wire[k]
        /\ wire'[n] = m
    BY <2>1, DeliveredEffect
  <2>3. OnWire("alarm")' = IF m.topic = "alarm" THEN OnWire("alarm") \cup {n}
                                                ELSE OnWire("alarm")
    BY <2>1, OnWireDelivered
  <2>4. /\ AlarmSpacing /\ last_alarm_ms_ <= now_ms
        /\ \A l \in DOMAIN raised : has_last_alarm_ /\ raised[l] <= last_alarm_ms_
        /\ \A k \in OnWire("alarm") : AlarmBehind(k)
    BY SpacedFacts
  <2>5. /\ Len(wire) \in Nat /\ alarm_seq \in Int
        /\ last_alarm_ms_ \in Int /\ now_ms \in Int
        /\ \A k \in OnWire("alarm") : /\ k \in 1 .. Len(wire)
                                      /\ wire[k].event \in Int /\ wire[k].timestamp \in Int
    BY WireNumbers
  <2>6. \A k \in OnWire("alarm") : k < n /\ ~(n < k) /\ wire'[k] = wire[k]
    BY <2>2, <2>5
  <2> HIDE DEF n
  <2>7. m.topic = "alarm" =>
          /\ Numbered /\ m.event = alarm_seq /\ m.timestamp = now_ms
          /\ alarm_seq \in DOMAIN raised /\ raised[alarm_seq] <= now_ms
          /\ \A l \in DOMAIN raised : ~(alarm_seq < l)
    <3> SUFFICES ASSUME m.topic = "alarm"
                 PROVE  /\ Numbered /\ m.event = alarm_seq /\ m.timestamp = now_ms
                        /\ alarm_seq \in DOMAIN raised /\ raised[alarm_seq] <= now_ms
                        /\ \A l \in DOMAIN raised : ~(alarm_seq < l)
      OBVIOUS
    <3>1. Numbered /\ m.event = alarm_seq /\ m.timestamp = now_ms
      BY DEF AlarmMessage
    <3>2. Len(raised) = alarm_seq /\ alarm_seq \in Nat /\ alarm_seq >= 1
      BY <3>1, TypeFacts DEF RaisedTypes, Numbered, Types, LoopTypes
    <3>3. alarm_seq \in DOMAIN raised
      BY <3>2, RaisedFacts
    <3>4. raised[alarm_seq] <= now_ms
      BY <2>4, <2>5, <3>3, RaisedFacts
    <3>5. \A l \in DOMAIN raised : ~(alarm_seq < l)
      BY <3>2, RaisedFacts
    <3> QED
      BY <3>1, <3>3, <3>4, <3>5
  <2>8. ASSUME NEW k \in OnWire("alarm")'
        PROVE  /\ wire'[k].event \in DOMAIN raised
               /\ raised[wire'[k].event] <= wire'[k].timestamp
               /\ \A l \in DOMAIN raised :
                    wire'[k].event < l => wire'[k].timestamp <= raised[l]
               /\ wire'[k].timestamp <= now_ms /\ wire'[k].event <= alarm_seq
    <3>1. CASE k \in OnWire("alarm")
      BY <2>4, <2>6, <3>1 DEF AlarmSpacing, AlarmBehind
    <3>2. CASE k \notin OnWire("alarm")
      <4>1. wire'[k] = m /\ m.topic = "alarm"
        BY <2>2, <2>3, <3>2
      <4> QED
        BY <2>5, <2>7, <4>1
    <3> QED
      BY <3>1, <3>2
  <2>9. ASSUME NEW k \in OnWire("alarm")', NEW l \in OnWire("alarm")', k < l
        PROVE  wire'[k].event < wire'[l].event
    <3>1. CASE k \in OnWire("alarm") /\ l \in OnWire("alarm")
      BY <2>4, <2>6, <2>9, <3>1 DEF AlarmSpacing
    <3>2. CASE k \in OnWire("alarm") /\ l \notin OnWire("alarm")
      <4>1. l = n /\ m.topic = "alarm"
        BY <2>3, <3>2
      <4>2. AlarmBehind(k) /\ wire'[k] = wire[k] /\ wire'[l] = m
        BY <2>2, <2>4, <2>6, <3>2, <4>1
      <4> QED
        BY <2>7, <4>1, <4>2 DEF AlarmBehind
    <3>3. CASE k \notin OnWire("alarm")
      <4>1. k = n
        BY <2>3, <3>3
      <4>2. l = n \/ ~(n < l)
        BY <2>3, <2>6
      <4> QED
        BY <2>5, <2>9, <4>1, <4>2 DEF n
    <3> QED
      BY <3>1, <3>2, <3>3
  <2>10. AlarmSpacing'
    BY <2>4, <2>8, <2>9 DEF AlarmSpacing
  <2> QED
    BY <2>4, <2>8, <2>10 DEF Spaced
<1> QED
  BY <1>1, <1>2 DEF Publish

(* An alarm is raised when it is a cooldown after the latest one. *)
LEMMA SpacedEvaluated ==
  ASSUME Types, RaisedTypes, Spaced, ApplyRules
  PROVE  Spaced'
<1>1. /\ Evaluate(result.scene[i]) /\ UNCHANGED <<wire, alarm_seq>>
      /\ pc = "rules"
      /\ IF reason' = "alarm" THEN pc' = "record" /\ raised' = Append(raised, now_ms)
                              ELSE pc' = pc /\ raised' = raised
  BY DEF ApplyRules
<1>2. /\ UNCHANGED <<rule_config_, now_ms>>
      /\ \/ /\ reason' # "alarm" /\ UNCHANGED <<has_last_alarm_, last_alarm_ms_>>
         \/ /\ reason' = "alarm" /\ CooldownOk
            /\ has_last_alarm_' = TRUE /\ last_alarm_ms_' = now_ms
  BY <1>1, EvaluateEffect DEF alarmVars
<1>3. CASE reason' # "alarm"
  <2>1. ~Numbered'
    BY <1>1, <1>3 DEF Numbered
  <2> QED
    BY <1>1, <1>2, <1>3, <2>1, SpacedSame
<1>4. CASE reason' = "alarm"
  <2> DEFINE n == Len(raised) + 1
  <2>1. /\ AlarmSpacing /\ last_alarm_ms_ <= now_ms
        /\ \A l \in DOMAIN raised : has_last_alarm_ /\ raised[l] <= last_alarm_ms_
        /\ \A k \in OnWire("alarm") : AlarmBehind(k)
    BY SpacedFacts
  <2>2. /\ last_alarm_ms_ \in Int /\ now_ms \in Int
        /\ rule_config_.cooldown_ms \in Int
        /\ \A k \in OnWire("alarm") : wire[k].event \in Int /\ wire[k].timestamp \in Int
    BY WireNumbers
  <2>3. OnWire("alarm")' = OnWire("alarm") /\ wire' = wire
    BY <1>1 DEF OnWire
  <2>4. last_alarm_ms_' = now_ms /\ has_last_alarm_' /\ ~Numbered'
    BY <1>1, <1>2, <1>4 DEF Numbered
  <2>5. /\ DOMAIN raised' = DOMAIN raised \cup {n} /\ n \notin DOMAIN raised
        /\ \A l \in DOMAIN raised : raised'[l] = raised[l] /\ l < n /\ ~(n < l)
        /\ raised'[n] = now_ms /\ n \in Int
    <3>1. raised \in Seq(0 .. MaxTime) /\ now_ms \in 0 .. MaxTime
          /\ raised' = Append(raised, now_ms)
      BY <1>1, <1>4, TypeFacts, EngineFacts DEF RaisedTypes
    <3>2. /\ raised' \in Seq(0 .. MaxTime) /\ Len(raised') = Len(raised) + 1
          /\ \A l \in 1 .. Len(raised) : raised'[l] = raised[l]
          /\ raised'[Len(raised) + 1] = now_ms
      BY <3>1, AppendProperties
    <3>3. DOMAIN raised' = 1 .. Len(raised) + 1
      BY <3>2, LenProperties
    <3> QED
      BY <3>2, <3>3, RaisedFacts
  <2> HIDE DEF n
  <2>6. ASSUME NEW l \in DOMAIN raised
        PROVE  /\ raised[l] \in Int /\ raised[l] <= now_ms
               /\ now_ms - raised[l] >= rule_config_.cooldown_ms
    <3>1. has_last_alarm_ /\ raised[l] <= last_alarm_ms_ /\ raised[l] \in Int
      BY <2>1, RaisedFacts
    <3>2. now_ms - last_alarm_ms_ >= rule_config_.cooldown_ms
      BY <1>2, <1>4, <2>1, <3>1, CooldownKeepsApart, TypeFacts
    <3> QED
      BY <2>1, <2>2, <3>1, <3>2
  <2>7. AlarmSpacing'
    <3>1. ASSUME NEW l \in DOMAIN raised', NEW h \in DOMAIN raised', l < h
          PROVE  raised'[h] - raised'[l] >= rule_config_'.cooldown_ms
      <4>1. CASE h \in DOMAIN raised
        <5>1. l \in DOMAIN raised
          BY <2>5, <3>1, <4>1
        <5> QED
          BY <1>2, <2>1, <2>5, <3>1, <4>1, <5>1 DEF AlarmSpacing
      <4>2. CASE h = n
        <5>1. l \in DOMAIN raised
          BY <2>5, <3>1, <4>2
        <5> QED
          BY <1>2, <2>5, <2>6, <4>2, <5>1
      <4> QED
        BY <2>5, <4>1, <4>2
    <3>2. ASSUME NEW k \in OnWire("alarm")
          PROVE  /\ wire[k].event \in DOMAIN raised'
                 /\ raised'[wire[k].event] <= wire[k].timestamp
                 /\ \A l \in DOMAIN raised' :
                      wire[k].event < l => wire[k].timestamp <= raised'[l]
      BY <2>1, <2>5, <3>2 DEF AlarmSpacing, AlarmBehind
    <3>3. \A k, l \in OnWire("alarm") : k < l => wire[k].event < wire[l].event
      BY <2>1 DEF AlarmSpacing
    <3> QED
      BY <2>3, <3>1, <3>2, <3>3 DEF AlarmSpacing
  <2>8. last_alarm_ms_' <= now_ms'
    BY <1>2, <2>2, <2>4
  <2>9. \A l \in DOMAIN raised' : has_last_alarm_' /\ raised'[l] <= last_alarm_ms_'
    BY <2>2, <2>4, <2>5, <2>6
  <2>10. \A k \in OnWire("alarm")' : AlarmBehind(k)'
    BY <1>1, <1>2, <2>1, <2>3, <2>4 DEF AlarmBehind
  <2> QED
    BY <2>7, <2>8, <2>9, <2>10 DEF Spaced, AlarmBehind
<1> QED
  BY <1>3, <1>4

LEMMA SpacedKept ==
  ASSUME Types, RaisedTypes, Spaced, [Next]_vars
  PROVE  Spaced'
<1> USE DEF historyVars
<1>1. CASE Loop
  <2> DEFINE m == [topic |-> "metrics", counts |-> metrics]
  <2>1. /\ UNCHANGED <<engineVars, alarm_seq, raised>> /\ ~Numbered'
        /\ Publish(m) \/ UNCHANGED wire
    BY <1>1 DEF Loop, Numbered
  <2>2. m \in Messages /\ m.topic # "alarm"
    BY MessageTypes
  <2> HIDE DEF m
  <2> QED
    BY <2>1, <2>2, SpacedSame, SpacedPublished DEF engineVars
<1>2. CASE ApplyRules
  BY <1>2, SpacedEvaluated
<1>3. CASE PublishAlarm
  <2>1. /\ Publish(AlarmMessage) /\ UNCHANGED <<engineVars, alarm_seq, raised>>
        /\ Numbered /\ ~Numbered'
    BY <1>3 DEF PublishAlarm, Publish, Numbered
  <2> QED
    BY <2>1, MessageTypes, SpacedPublished
<1>4. CASE PublishRaw
  <2> DEFINE m == [topic |-> "detect", seq |-> result.seq]
  <2>1. Publish(m) /\ UNCHANGED <<engineVars, alarm_seq, raised>> /\ ~Numbered'
    BY <1>4 DEF PublishRaw, Numbered
  <2>2. m \in Messages /\ m.topic # "alarm"
    BY MessageTypes
  <2> HIDE DEF m
  <2> QED
    BY <2>1, <2>2, SpacedPublished
<1>5. CASE RecordAlarm
  <2>1. UNCHANGED <<wire, engineVars, raised>> /\ alarm_seq' = alarm_seq + 1
    BY <1>5 DEF RecordAlarm
  <2> QED
    BY <2>1, SpacedSame DEF engineVars
<1>6. CASE TimePasses
  <2>1. /\ UNCHANGED <<wire, raised, rule_config_, has_last_alarm_, last_alarm_ms_,
                       alarm_seq, pc>>
        /\ now_ms' = now_ms + 1
    BY <1>6 DEF TimePasses, Tick, alarmVars, loopVars
  <2> QED
    BY <2>1, SpacedSame DEF Numbered
<1>7. CASE UNCHANGED <<wire, engineVars, alarm_seq, raised>> /\ (Numbered' => Numbered)
  BY <1>7, SpacedSame DEF engineVars
<1>8. \/ Loop \/ ApplyRules \/ PublishAlarm \/ PublishRaw \/ RecordAlarm \/ TimePasses
      \/ UNCHANGED <<wire, engineVars, alarm_seq, raised>> /\ (Numbered' => Numbered)
  BY DEF Next, Surroundings, Thread, Produce, TakeFrame, CountFrame, LinkLost,
         Stop, Connect, Exit, PopNothing, PopResult, SaveSnapshot, vars, loopVars, Numbered
<1> QED
  BY <1>1, <1>2, <1>3, <1>4, <1>5, <1>6, <1>7, <1>8
--------------------------------------------------------------------------------
(* The counters. *)

LEMMA CountNumbers ==
  ASSUME Types
  PROVE  /\ metrics.inference_frame_count \in Nat
         /\ metrics.alarm_count \in Nat
         /\ metrics.mqtt_detect_publish_count \in Nat
         /\ metrics.mqtt_alarm_publish_count \in Nat
         /\ Len(infer_queue) \in Nat
         /\ \A topic : Cardinality(OnWire(topic)) \in Nat
<1>1. metrics \in Counts /\ wire \in Seq(Messages) /\ Len(infer_queue) \in Nat
  BY TypeFacts
<1> QED
  BY <1>1, MetricsFacts, OnWireFinite

(* Counting up. *)
LEMMA CountedUp ==
  ASSUME Types
  PROVE  /\ LET up == [metrics EXCEPT !.inference_frame_count = @ + 1]
            IN /\ up.inference_frame_count = metrics.inference_frame_count + 1
               /\ up.alarm_count = metrics.alarm_count
               /\ up.mqtt_detect_publish_count = metrics.mqtt_detect_publish_count
               /\ up.mqtt_alarm_publish_count = metrics.mqtt_alarm_publish_count
         /\ LET up == [metrics EXCEPT !.alarm_count = @ + 1]
            IN /\ up.inference_frame_count = metrics.inference_frame_count
               /\ up.alarm_count = metrics.alarm_count + 1
               /\ up.mqtt_detect_publish_count = metrics.mqtt_detect_publish_count
               /\ up.mqtt_alarm_publish_count = metrics.mqtt_alarm_publish_count
         /\ LET up == [metrics EXCEPT !.mqtt_detect_publish_count = @ + 1]
            IN /\ up.inference_frame_count = metrics.inference_frame_count
               /\ up.alarm_count = metrics.alarm_count
               /\ up.mqtt_detect_publish_count
                    = metrics.mqtt_detect_publish_count + 1
               /\ up.mqtt_alarm_publish_count = metrics.mqtt_alarm_publish_count
         /\ LET up == [metrics EXCEPT !.mqtt_alarm_publish_count = @ + 1]
            IN /\ up.inference_frame_count = metrics.inference_frame_count
               /\ up.alarm_count = metrics.alarm_count
               /\ up.mqtt_detect_publish_count = metrics.mqtt_detect_publish_count
               /\ up.mqtt_alarm_publish_count = metrics.mqtt_alarm_publish_count + 1
<1>1. metrics \in Counts
  BY TypeFacts
<1> QED
  BY <1>1 DEF Counts, NoCounts

LEMMA PublishCounts ==
  ASSUME Types, NEW m \in Messages, Publish(m), NEW topic
  PROVE  \/ /\ connected
            /\ Cardinality(OnWire(topic)')
                 = Cardinality(OnWire(topic)) + (IF m.topic = topic THEN 1 ELSE 0)
         \/ /\ ~connected
            /\ Cardinality(OnWire(topic)') = Cardinality(OnWire(topic))
<1>1. CASE Delivered(m)
  BY <1>1, TypeFacts, OnWireDelivered DEF Delivered
<1>2. CASE Undelivered
  BY <1>2 DEF Undelivered, OnWire
<1> QED
  BY <1>1, <1>2 DEF Publish

LEMMA DetectPublished ==
  ASSUME Types, NEW m \in Messages, Publish(m), m.topic = "detect"
  PROVE  \/ /\ connected
            /\ Cardinality(OnWire("detect")') = Cardinality(OnWire("detect")) + 1
         \/ /\ ~connected
            /\ Cardinality(OnWire("detect")') = Cardinality(OnWire("detect"))
BY PublishCounts

LEMMA NothingOnWire ==
  ASSUME wire = <<>>, NEW topic
  PROVE  Cardinality(OnWire(topic)) = 0
<1>1. OnWire(topic) = {}
  BY DEF OnWire
<1> QED
  BY <1>1, FS_EmptySet

LEMMA AlarmsSame ==
  ASSUME AlarmsCounted,
         Cardinality(OnWire("alarm")') = Cardinality(OnWire("alarm")),
         metrics'.alarm_count = metrics.alarm_count,
         metrics'.mqtt_alarm_publish_count = metrics.mqtt_alarm_publish_count,
         Numbered' <=> Numbered, connected' => connected
  PROVE  AlarmsCounted'
BY DEF AlarmsCounted

LEMMA DetectsSame ==
  ASSUME DetectsCounted,
         Cardinality(OnWire("detect")') = Cardinality(OnWire("detect")),
         metrics'.mqtt_detect_publish_count = metrics.mqtt_detect_publish_count,
         connected' => connected
  PROVE  DetectsCounted'
BY DEF DetectsCounted

LEMMA AlarmsCountedKept ==
  ASSUME Types, AlarmsCounted, NothingYet, [Next]_vars
  PROVE  AlarmsCounted'
<1> DEFINE A == Cardinality(OnWire("alarm"))
<1>0. /\ A \in Nat /\ metrics.alarm_count \in Nat
      /\ metrics.mqtt_alarm_publish_count = A
      /\ A + (IF Numbered THEN 1 ELSE 0) <= metrics.alarm_count
      /\ connected => metrics.alarm_count = A + (IF Numbered THEN 1 ELSE 0)
  BY CountNumbers DEF AlarmsCounted
<1>1. CASE Connect
  <2>1. /\ wire = <<>> /\ metrics.alarm_count = 0
        /\ UNCHANGED <<wire, metrics>> /\ ~Numbered'
    BY <1>1 DEF Connect, NothingYet, Numbered
  <2>2. A = 0 /\ A' = A
    BY <2>1, NothingOnWire DEF OnWire
  <2> HIDE DEF A
  <2> QED
    BY <1>0, <2>1, <2>2 DEF AlarmsCounted, A
<1>2. CASE Loop
  <2> DEFINE m == [topic |-> "metrics", counts |-> metrics]
  <2>1. /\ UNCHANGED <<metrics, connected>> /\ ~Numbered' /\ ~Numbered
        /\ Publish(m) \/ UNCHANGED wire
    BY <1>2 DEF Loop, Numbered
  <2>2. m \in Messages /\ m.topic # "alarm"
    BY MessageTypes
  <2> HIDE DEF m
  <2>3. A' = A
    <3>1. CASE UNCHANGED wire
      BY <3>1 DEF OnWire
    <3>2. CASE Publish(m)
      <4>1. A' = A \/ A' = A + 0
        BY <2>2, <3>2, PublishCounts
      <4> QED
        BY <1>0, <4>1
    <3> QED
      BY <2>1, <3>1, <3>2
  <2> QED
    BY <2>1, <2>3, AlarmsSame
<1>3. CASE RecordAlarm
  <2>1. /\ metrics'.alarm_count = metrics.alarm_count + 1
        /\ metrics'.mqtt_alarm_publish_count = metrics.mqtt_alarm_publish_count
        /\ UNCHANGED <<wire, connected>> /\ ~Numbered /\ Numbered'
    BY <1>3, CountedUp DEF RecordAlarm, Numbered
  <2>2. A' = A
    BY <2>1 DEF OnWire
  <2> HIDE DEF A
  <2> QED
    BY <1>0, <2>1, <2>2 DEF AlarmsCounted, A
<1>4. CASE PublishAlarm
  <2> DEFINE m == AlarmMessage
  <2>1. m \in Messages /\ m.topic = "alarm"
    BY MessageTypes DEF AlarmMessage
  <2>2. /\ connected' = connected /\ Numbered /\ ~Numbered'
        /\ \/ Delivered(m) /\ metrics'.alarm_count = metrics.alarm_count
              /\ metrics'.mqtt_alarm_publish_count
                   = metrics.mqtt_alarm_publish_count + 1
           \/ Undelivered /\ metrics' = metrics
    BY <1>4, CountedUp DEF PublishAlarm, Numbered
  <2> HIDE DEF m
  <2>3. CASE Delivered(m)
    <3>1. A' = A + 1 /\ connected
      BY <2>1, <2>3, PublishCounts DEF Publish, Delivered
    <3> HIDE DEF A
    <3> QED
      BY <1>0, <2>2, <2>3, <3>1 DEF AlarmsCounted, A, Delivered, Undelivered
  <2>4. CASE Undelivered
    <3>1. A' = A /\ ~connected /\ metrics' = metrics
      BY <2>2, <2>4 DEF Undelivered, Delivered, OnWire
    <3> HIDE DEF A
    <3> QED
      BY <1>0, <2>2, <3>1 DEF AlarmsCounted, A
  <2> QED
    BY <2>2, <2>3, <2>4
<1>5. CASE PublishRaw
  <2> DEFINE m == [topic |-> "detect", seq |-> result.seq]
  <2>1. /\ Publish(m) /\ ~Numbered /\ ~Numbered' /\ connected' = connected
        /\ metrics'.alarm_count = metrics.alarm_count
        /\ metrics'.mqtt_alarm_publish_count = metrics.mqtt_alarm_publish_count
    BY <1>5, CountedUp DEF PublishRaw, Numbered
  <2>2. m \in Messages /\ m.topic # "alarm"
    BY MessageTypes
  <2> HIDE DEF m
  <2>3. A' = A \/ A' = A + 0
    BY <2>1, <2>2, PublishCounts
  <2>4. A' = A
    BY <1>0, <2>3
  <2> QED
    BY <2>1, <2>4, AlarmsSame
<1>6. CASE CountFrame
  <2>1. /\ metrics'.alarm_count = metrics.alarm_count
        /\ metrics'.mqtt_alarm_publish_count = metrics.mqtt_alarm_publish_count
        /\ UNCHANGED <<wire, connected, pc>>
    BY <1>6, CountedUp DEF CountFrame, loopVars
  <2> QED
    BY <2>1, AlarmsSame DEF OnWire, Numbered
<1>7. CASE /\ UNCHANGED <<metrics, wire>>
           /\ connected' => connected
           /\ Numbered' <=> Numbered
  BY <1>7, AlarmsSame DEF OnWire
<1>8. \/ Connect \/ Loop \/ RecordAlarm \/ PublishAlarm \/ PublishRaw \/ CountFrame
      \/ /\ UNCHANGED <<metrics, wire>>
         /\ connected' => connected
         /\ Numbered' <=> Numbered
  BY DEF Next, Surroundings, Thread, Produce, TakeFrame, LinkLost, Stop,
         TimePasses, Exit, PopNothing, PopResult, ApplyRules, SaveSnapshot, vars,
         loopVars, Numbered
<1> QED
  BY <1>1, <1>2, <1>3, <1>4, <1>5, <1>6, <1>7, <1>8

LEMMA DetectsCountedKept ==
  ASSUME Types, DetectsCounted, NothingYet, [Next]_vars
  PROVE  DetectsCounted'
<1> DEFINE D == Cardinality(OnWire("detect"))
<1>0. /\ D \in Nat /\ metrics.mqtt_detect_publish_count \in Nat
      /\ D <= metrics.mqtt_detect_publish_count
      /\ connected => metrics.mqtt_detect_publish_count = D
  BY CountNumbers DEF DetectsCounted
<1>1. CASE Connect
  <2>1. /\ wire = <<>> /\ metrics.mqtt_detect_publish_count = 0
        /\ UNCHANGED <<wire, metrics>>
    BY <1>1 DEF Connect, NothingYet
  <2>2. D = 0 /\ D' = D
    BY <2>1, NothingOnWire DEF OnWire
  <2> HIDE DEF D
  <2> QED
    BY <1>0, <2>1, <2>2 DEF DetectsCounted, D
<1>2. CASE Loop
  <2> DEFINE m == [topic |-> "metrics", counts |-> metrics]
  <2>1. UNCHANGED <<metrics, connected>> /\ (Publish(m) \/ UNCHANGED wire)
    BY <1>2 DEF Loop
  <2>2. m \in Messages /\ m.topic # "detect"
    BY MessageTypes
  <2> HIDE DEF m
  <2>3. D' = D
    <3>1. CASE UNCHANGED wire
      BY <3>1 DEF OnWire
    <3>2. CASE Publish(m)
      <4>1. D' = D \/ D' = D + 0
        BY <2>2, <3>2, PublishCounts
      <4> QED
        BY <1>0, <4>1
    <3> QED
      BY <2>1, <3>1, <3>2
  <2> QED
    BY <2>1, <2>3, DetectsSame
<1>3. CASE PublishAlarm
  <2>1. /\ metrics'.mqtt_detect_publish_count = metrics.mqtt_detect_publish_count
        /\ connected' = connected
        /\ Publish(AlarmMessage)
    BY <1>3, CountedUp DEF PublishAlarm, Publish
  <2>2. AlarmMessage \in Messages /\ AlarmMessage.topic # "detect"
    BY MessageTypes DEF AlarmMessage
  <2>3. D' = D \/ D' = D + 0
    BY <2>1, <2>2, PublishCounts
  <2>4. D' = D
    BY <1>0, <2>3
  <2> QED
    BY <2>1, <2>4, DetectsSame
<1>4. CASE PublishRaw
  <2> DEFINE m == [topic |-> "detect", seq |-> result.seq]
  <2>1. /\ Publish(m) /\ connected' = connected
        /\ metrics'.mqtt_detect_publish_count
             = metrics.mqtt_detect_publish_count + 1
    BY <1>4, CountedUp DEF PublishRaw
  <2>2. m \in Messages /\ m.topic = "detect"
    BY MessageTypes
  <2> HIDE DEF m
  <2>3. \/ connected /\ D' = D + 1
        \/ ~connected /\ D' = D
    BY <2>1, <2>2, DetectPublished
  <2> HIDE DEF D
  <2> QED
    BY <1>0, <2>1, <2>3 DEF DetectsCounted, D
<1>5. CASE RecordAlarm \/ CountFrame
  <2>1. /\ metrics'.mqtt_detect_publish_count = metrics.mqtt_detect_publish_count
        /\ UNCHANGED <<wire, connected>>
    BY <1>5, CountedUp DEF RecordAlarm, CountFrame
  <2> QED
    BY <2>1, DetectsSame DEF OnWire
<1>6. CASE UNCHANGED <<metrics, wire>> /\ (connected' => connected)
  BY <1>6, DetectsSame DEF OnWire
<1>7. \/ Connect \/ Loop \/ PublishAlarm \/ PublishRaw \/ RecordAlarm \/ CountFrame
      \/ UNCHANGED <<metrics, wire>> /\ (connected' => connected)
  BY DEF Next, Surroundings, Thread, Produce, TakeFrame, LinkLost, Stop,
         TimePasses, Exit, PopNothing, PopResult, ApplyRules, SaveSnapshot, vars
<1> QED
  BY <1>1, <1>2, <1>3, <1>4, <1>5, <1>6, <1>7

(* The frames published, in hand and waiting, against those counted. *)
LEMMA FramesCountedKept ==
  ASSUME Types, FramesCounted, [Next]_vars
  PROVE  FramesCounted'
<1>0. /\ metrics.mqtt_detect_publish_count \in Nat
      /\ metrics.inference_frame_count \in Nat
      /\ Len(infer_queue) \in Nat
      /\ metrics.mqtt_detect_publish_count + Len(infer_queue)
             + (IF Handling THEN 1 ELSE 0)
           <= metrics.inference_frame_count + (IF ipc = "count" THEN 1 ELSE 0)
  BY CountNumbers DEF FramesCounted
<1>1. ASSUME NEW scene \in Scenes, Produce(scene)
      PROVE  FramesCounted'
  <2>1. /\ ipc = "frame" /\ ipc' = "count" /\ UNCHANGED <<metrics, pc>>
        /\ \/ infer_queue' = infer_queue
           \/ infer_queue' = Append(infer_queue,
                                    [seq |-> produced', scene |-> scene])
    BY <1>1 DEF Produce, loopVars
  <2>2. Len(infer_queue') = Len(infer_queue) \/ Len(infer_queue') = Len(infer_queue) + 1
    <3>1. [seq |-> produced', scene |-> scene] \in Results
      <4>1. produced' = produced + 1 /\ produced \in 0 .. MaxFrames
            /\ produced < MaxFrames /\ MaxFrames \in Nat
        BY <1>1, Bounds DEF Produce, Types, QueueTypes
      <4>2. produced' \in 0 .. MaxFrames
        BY <4>1
      <4> QED
        BY <1>1, <4>2 DEF Results
    <3>2. infer_queue \in Seq(Results)
      BY TypeFacts
    <3> QED
      BY <2>1, <3>1, <3>2, AppendProperties
  <2>3. Handling' <=> Handling
    BY <2>1 DEF Handling
  <2>4. Len(infer_queue') \in Nat
    BY <1>0, <2>2
  <2> QED
    BY <1>0, <2>1, <2>2, <2>3, <2>4 DEF FramesCounted
<1>2. CASE TakeFrame
  BY <1>0, <1>2 DEF TakeFrame, FramesCounted, Handling, loopVars
<1>3. CASE CountFrame
  <2>1. /\ metrics'.inference_frame_count = metrics.inference_frame_count + 1
        /\ metrics'.mqtt_detect_publish_count = metrics.mqtt_detect_publish_count
        /\ ipc = "count" /\ ipc' = "loop" /\ UNCHANGED <<infer_queue, pc>>
    BY <1>3, CountedUp DEF CountFrame, loopVars
  <2> QED
    BY <1>0, <2>1 DEF FramesCounted, Handling
<1>4. CASE PopResult
  <2>1. /\ Len(infer_queue') = Len(infer_queue) - 1
        /\ UNCHANGED <<metrics, ipc>> /\ ~Handling /\ Handling'
    BY <1>4, PopEffect DEF PopResult, Handling
  <2> QED
    BY <1>0, <2>1 DEF FramesCounted
<1>5. CASE PublishRaw
  <2>1. /\ metrics'.inference_frame_count = metrics.inference_frame_count
        /\ metrics'.mqtt_detect_publish_count
             = metrics.mqtt_detect_publish_count + 1
        /\ UNCHANGED <<infer_queue, ipc>> /\ Handling /\ ~Handling'
    BY <1>5, CountedUp DEF PublishRaw, Handling, queueVars
  <2> QED
    BY <1>0, <2>1 DEF FramesCounted
<1>6. CASE RecordAlarm \/ PublishAlarm
  <2>1. /\ metrics'.inference_frame_count = metrics.inference_frame_count
        /\ metrics'.mqtt_detect_publish_count = metrics.mqtt_detect_publish_count
        /\ UNCHANGED <<infer_queue, ipc>> /\ (Handling' <=> Handling)
    BY <1>6, CountedUp DEF RecordAlarm, PublishAlarm, Handling, queueVars
  <2> QED
    BY <1>0, <2>1 DEF FramesCounted
<1>7. CASE /\ UNCHANGED <<metrics, infer_queue, ipc>>
           /\ Handling' <=> Handling
  BY <1>0, <1>7 DEF FramesCounted
<1>8. \/ \E scene \in Scenes : Produce(scene)
      \/ TakeFrame \/ CountFrame \/ PopResult \/ PublishRaw
      \/ RecordAlarm \/ PublishAlarm
      \/ /\ UNCHANGED <<metrics, infer_queue, ipc>>
         /\ Handling' <=> Handling
  BY DEF Next, Surroundings, Thread, LinkLost, Stop, TimePasses, Connect, Exit,
         Loop, PopNothing, ApplyRules, SaveSnapshot, vars, queueVars, loopVars,
         Handling
<1> QED
  BY <1>1, <1>2, <1>3, <1>4, <1>5, <1>6, <1>7, <1>8

LEMMA NothingYetKept ==
  ASSUME Types, NothingYet, [Next]_vars
  PROVE  NothingYet'
<1>1. SUFFICES ASSUME pc' = "start"
               PROVE  /\ wire' = <<>>
                      /\ metrics'.alarm_count = 0
                      /\ metrics'.mqtt_detect_publish_count = 0
  BY DEF NothingYet
<1>2. \/ CountFrame
      \/ UNCHANGED <<pc, wire, metrics>>
  BY <1>1 DEF Next, Surroundings, Thread, Produce, TakeFrame, LinkLost, Stop,
         TimePasses, Connect, Exit, Loop, PopNothing, PopResult, ApplyRules,
         RecordAlarm, SaveSnapshot, PublishAlarm, PublishRaw, vars, loopVars
<1>3. CASE CountFrame
  <2>1. /\ metrics'.alarm_count = metrics.alarm_count
        /\ metrics'.mqtt_detect_publish_count = metrics.mqtt_detect_publish_count
        /\ UNCHANGED <<pc, wire>>
    BY <1>3, CountedUp DEF CountFrame, loopVars
  <2> QED
    BY <1>1, <2>1 DEF NothingYet
<1> QED
  BY <1>1, <1>2, <1>3 DEF NothingYet
--------------------------------------------------------------------------------
(* The invariant. *)

LEMMA InitFacts ==
  ASSUME Init
  PROVE  /\ EngineInit /\ running = TRUE /\ pc = "start"
         /\ infer_queue = <<>> /\ Len(infer_queue) = 0
         /\ produced = 0 /\ ipc = "loop"
         /\ result = [seq |-> 0, scene |-> <<>>] /\ result.scene = <<>>
         /\ Len(result.scene) = 0 /\ result.seq = 0
         /\ i = 1 /\ alarm_seq = 0 /\ last_metrics_ms = 0
         /\ snapshot_path = "" /\ saved = {}
         /\ metrics = NoCounts /\ connected = FALSE /\ wire = <<>> /\ stay = NoStay
         /\ raised = <<>>
         /\ ~Handling /\ ~InAlarm /\ ~Numbered
BY DEF Init, Handling, InAlarm, Numbered

LEMMA InitiallyTyped ==
  ASSUME Init
  PROVE  Types
<1>0. 0 \in 0 .. MaxTime /\ 0 \in 0 .. MaxFrames /\ 0 <= QueueSlots
  BY Bounds
<1>1. EngineTypeOK
  BY <1>0, InitFacts DEF EngineInit, EngineTypeOK
<1>2. QueueTypes
  <2>1. infer_queue \in Seq(Results)
    BY InitFacts, EmptySeq
  <2> QED
    BY <1>0, <2>1, InitFacts DEF QueueTypes
<1>3. LoopTypes
  <2>1. [seq |-> 0, scene |-> <<>>] \in Results
    BY <1>0 DEF Results
  <2>2. i \in 1 .. Len(result.scene) + 1
    <3>1. 1 \in 1 .. 0 + 1
      OBVIOUS
    <3> QED
      BY <3>1, InitFacts
  <2>3. result \in Results
    BY <2>1, InitFacts
  <2>4. /\ pc = "start" /\ alarm_seq = 0 /\ last_metrics_ms = 0
        /\ snapshot_path = "" /\ saved = {} /\ ~InAlarm /\ ~Numbered
    BY InitFacts
  <2> QED
    BY <1>0, <2>2, <2>3, <2>4 DEF LoopTypes
<1>4. metrics \in Counts
  <2>1. metrics = NoCounts
    BY InitFacts
  <2> QED
    BY <2>1 DEF Counts, NoCounts
<1>5. wire \in Seq(Messages)
  BY InitFacts, EmptySeq
<1> QED
  BY <1>1, <1>2, <1>3, <1>4, <1>5, InitFacts DEF Types, StayTypes

LEMMA Initially ==
  ASSUME Init
  PROVE  Inv
<1>1. Types
  BY InitiallyTyped
<1>2. /\ OnWire("alarm") = {} /\ Cardinality(OnWire("alarm")) = 0
      /\ OnWire("detect") = {} /\ Cardinality(OnWire("detect")) = 0
  <2>1. wire = <<>>
    BY InitFacts
  <2>2. OnWire("alarm") = {} /\ OnWire("detect") = {}
    BY <2>1 DEF OnWire
  <2> QED
    BY <2>2, FS_EmptySet
<1>3. Len(infer_queue) = 0 /\ result.seq = 0 /\ produced = 0
  BY InitFacts
<1>4. QueueInOrder
  BY <1>3 DEF QueueInOrder
<1>5. WireInOrder
  BY <1>2 DEF WireInOrder, Sequenced
<1>6. RaisedTypes /\ Spaced
  <2>1. last_alarm_ms_ = 0 /\ now_ms = 0 /\ raised = <<>> /\ pc = "start" /\ alarm_seq = 0
    BY InitFacts DEF EngineInit
  <2>2. raised \in Seq(0 .. MaxTime) /\ Len(raised) = 0 /\ DOMAIN raised = {}
    BY <2>1, EmptySeq
  <2>3. Spaced
    BY <1>2, <2>1, <2>2 DEF Spaced, AlarmSpacing
  <2> QED
    BY <2>1, <2>2, <2>3 DEF RaisedTypes
<1>7. /\ metrics.alarm_count = 0 /\ metrics.mqtt_detect_publish_count = 0
      /\ metrics.mqtt_alarm_publish_count = 0 /\ metrics.inference_frame_count = 0
  <2>1. metrics = NoCounts
    BY InitFacts
  <2> QED
    BY <2>1 DEF NoCounts
<1>8. AlarmsCounted /\ DetectsCounted
  <2>1. ~Numbered
    BY InitFacts
  <2> QED
    BY <1>2, <1>7, <2>1 DEF AlarmsCounted, DetectsCounted
<1>9. FramesCounted /\ NothingYet
  <2>1. ~Handling /\ ipc = "loop" /\ wire = <<>>
    BY InitFacts
  <2> QED
    BY <1>3, <1>7, <2>1 DEF FramesCounted, NothingYet
<1>10. RawPublished
  BY <1>3 DEF RawPublished
<1> QED
  BY <1>1, <1>4, <1>5, <1>6, <1>8, <1>9, <1>10 DEF Inv

LEMMA InvKept ==
  ASSUME Inv, [Next]_vars
  PROVE  Inv'
BY TypesKept, RaisedKept, QueueOrderKept, WireOrderKept, RawPublishedKept, SpacedKept, AlarmsCountedKept,
   DetectsCountedKept, FramesCountedKept, NothingYetKept DEF Inv

(* The invariant that carries the others is inductive. *)
THEOREM AlarmInvariant == Spec => []Inv
<1>1. Init => Inv
  BY Initially
<1>2. Inv /\ [Next]_vars => Inv'
  BY InvKept
<1> QED
  BY <1>1, <1>2, PTL DEF Spec

(* TypeOK: every variable of alarm_thread keeps its type, the detection index
   stays within the scene and the queue within its capacity. *)
THEOREM TypeCorrect == Spec => []TypeOK
<1>1. Inv => TypeOK
  BY TypesImplyTypeOK DEF Inv
<1> QED
  BY <1>1, AlarmInvariant, PTL

(* InOrder: on the wire nothing about a frame follows a later frame's message,
   and the raw detections of a frame come after all its alarms, and once; while the
   connection holds no result taken off the queue is left without them. *)
THEOREM MessagesInOrder == Spec => []InOrder
<1>1. Inv => InOrder
  BY DEF Inv, WireInOrder, RawPublished, InOrder, NoneSkipped, Handling
<1> QED
  BY <1>1, AlarmInvariant, PTL

(* AlarmSpacing: two alarms are raised a cooldown apart, whatever the sign of the
   cooldown; each message is made after its alarm is raised and before the next one
   is, and the event numbers on the wire increase. *)
THEOREM AlarmsKeepApart == Spec => []AlarmSpacing
<1>1. Inv => AlarmSpacing
  BY DEF Inv, Spaced
<1> QED
  BY <1>1, AlarmInvariant, PTL

(* MetricsTruthful: the counters of metrics.cpp tell what was published, what
   was lost with the connection, and never more frames than were inferred. *)
THEOREM CountersTellTheTruth == Spec => []MetricsTruthful
<1>1. ASSUME Inv
      PROVE  MetricsTruthful
  <2>1. /\ Types /\ AlarmsCounted /\ DetectsCounted /\ FramesCounted
    BY <1>1 DEF Inv
  <2>2. /\ metrics.inference_frame_count \in Nat
        /\ metrics.alarm_count \in Nat
        /\ metrics.mqtt_detect_publish_count \in Nat
        /\ Len(infer_queue) \in Nat
        /\ Cardinality(OnWire("alarm")) \in Nat
        /\ Cardinality(OnWire("detect")) \in Nat
    BY <2>1, CountNumbers
  <2>3. metrics.mqtt_detect_publish_count <= metrics.inference_frame_count + 1
    BY <2>1, <2>2 DEF FramesCounted
  <2>4. /\ metrics.mqtt_alarm_publish_count = Cardinality(OnWire("alarm"))
        /\ Cardinality(OnWire("alarm")) <= metrics.alarm_count
        /\ connected /\ pc = "loop" =>
             metrics.alarm_count = Cardinality(OnWire("alarm"))
    BY <2>1, <2>2 DEF AlarmsCounted, Numbered
  <2> QED
    BY <2>1, <2>3, <2>4 DEF MetricsTruthful, DetectsCounted
<1> QED
  BY <1>1, AlarmInvariant, PTL
================================================================================
