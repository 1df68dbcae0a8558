---------------------------- MODULE RulePolicyProofs ---------------------------
(***************************************************************************)
(* The engine's two timestamps implement the policy stated over the whole  *)
(* history of detections, for every configuration, negative durations      *)
(* included, whose durations are far from the range of uint64_t, and for   *)
(* histories of any length.                                                *)
(***************************************************************************)
EXTENDS RulePolicy, SequenceTheorems, TLAPS

(* static_cast<uint64_t> leaves a duration that is not negative alone. *)
LEMMA CastOfNonNegative ==
  ASSUME NEW x \in 0 .. Modulus - 1
  PROVE  AsU64(x) = x
BY RuleAssumption DEF AsU64

(* A negative duration is cast to a number beyond the clock's range. *)
LEMMA CastOfNegative ==
  ASSUME NEW x \in Int, x < 0, MaxTime - x < Modulus
  PROVE  AsU64(x) > MaxTime
<1>1. x + Modulus \in 0 .. Modulus - 1 /\ x + Modulus > MaxTime
  BY RuleAssumption
<1>2. x % Modulus = x + Modulus
  BY <1>1, RuleAssumption
<1> QED
  BY <1>1, <1>2 DEF AsU64

(* The two casts in evaluate leave a duration that is not negative alone; the
   deadline of a negative cooldown wraps to the sum, when it is not negative,
   or beyond the clock's range. *)
LEMMA CastsOfDurations ==
  ASSUME EngineTypeOK
  PROVE  /\ rule_config_.dwell_time_ms >= 0 =>
              AsU64(rule_config_.dwell_time_ms) = rule_config_.dwell_time_ms
         /\ rule_config_.cooldown_ms >= 0 =>
              AsU64(last_alarm_ms_ + AsU64(rule_config_.cooldown_ms))
                = last_alarm_ms_ + rule_config_.cooldown_ms
         /\ rule_config_.dwell_time_ms < 0 =>
              AsU64(rule_config_.dwell_time_ms) > MaxTime
         /\ rule_config_.cooldown_ms < 0 =>
              IF last_alarm_ms_ + rule_config_.cooldown_ms >= 0
                THEN AsU64(last_alarm_ms_ + AsU64(rule_config_.cooldown_ms))
                       = last_alarm_ms_ + rule_config_.cooldown_ms
                ELSE AsU64(last_alarm_ms_ + AsU64(rule_config_.cooldown_ms)) > MaxTime
<1> DEFINE d == rule_config_.dwell_time_ms
           c == rule_config_.cooldown_ms
<1>1. /\ d \in Int /\ c \in Int
      /\ MaxTime + d < Modulus /\ MaxTime - d < Modulus
      /\ MaxTime + c < Modulus /\ MaxTime - c < Modulus
      /\ MaxTime \in Nat /\ Modulus \in Nat \ {0}
      /\ last_alarm_ms_ \in 0 .. MaxTime
  BY RuleAssumption DEF EngineTypeOK, Config
<1> HIDE DEF d, c
<1>2. d >= 0 => AsU64(d) = d
  BY <1>1, CastOfNonNegative
<1>3. c >= 0 => AsU64(c) = c /\ AsU64(last_alarm_ms_ + c) = last_alarm_ms_ + c
  <2> SUFFICES ASSUME c >= 0
               PROVE  AsU64(c) = c /\ AsU64(last_alarm_ms_ + c) = last_alarm_ms_ + c
    OBVIOUS
  <2>1. c \in 0 .. Modulus - 1 /\ last_alarm_ms_ + c \in 0 .. Modulus - 1
    BY <1>1
  <2> QED
    BY <2>1, CastOfNonNegative
<1>4. d < 0 => AsU64(d) > MaxTime
  BY <1>1, CastOfNegative
<1>5. ASSUME c < 0
      PROVE  IF last_alarm_ms_ + c >= 0
               THEN AsU64(last_alarm_ms_ + AsU64(c)) = last_alarm_ms_ + c
               ELSE AsU64(last_alarm_ms_ + AsU64(c)) > MaxTime
  <2>1. c + Modulus \in 0 .. Modulus - 1 /\ c + Modulus > MaxTime
    BY <1>1, <1>5
  <2>2. AsU64(c) = c + Modulus
    BY <1>1, <1>5, <2>1 DEF AsU64
  <2>3. CASE last_alarm_ms_ + c >= 0
    <3> DEFINE s == last_alarm_ms_ + c
    <3>1. s \in 0 .. Modulus - 1
      BY <1>1, <1>5, <2>3
    <3>2. last_alarm_ms_ + (c + Modulus) = s + Modulus
      BY <1>1
    <3> HIDE DEF s
    <3>3. (s + Modulus) % Modulus = s
      BY <1>1, <3>1
    <3> QED
      BY <2>2, <2>3, <3>2, <3>3 DEF AsU64, s
  <2>4. CASE last_alarm_ms_ + c < 0
    <3> DEFINE s == last_alarm_ms_ + (c + Modulus)
    <3>1. s \in 0 .. Modulus - 1 /\ s > MaxTime
      BY <1>1, <2>1, <2>4
    <3> HIDE DEF s
    <3>2. AsU64(s) = s
      BY <3>1, CastOfNonNegative
    <3> QED
      BY <1>1, <2>2, <2>4, <3>1, <3>2 DEF s
  <2> QED
    BY <1>1, <2>3, <2>4
<1> QED
  BY <1>2, <1>3, <1>4, <1>5 DEF d, c
--------------------------------------------------------------------------------
(* The engine's numbers are numbers. *)
LEMMA EngineNumbers ==
  ASSUME EngineTypeOK
  PROVE  /\ MaxTime \in Nat
         /\ now_ms \in Int /\ now_ms <= MaxTime /\ last_alarm_ms_ \in Int
         /\ rule_config_.dwell_time_ms \in Int /\ rule_config_.cooldown_ms \in Int
<1>1. MaxTime \in Nat /\ Configs \subseteq Config
  BY RuleAssumption
<1>2. rule_config_.dwell_time_ms \in Int /\ rule_config_.cooldown_ms \in Int
  BY <1>1 DEF EngineTypeOK, Config
<1>3. now_ms \in Int /\ now_ms <= MaxTime /\ last_alarm_ms_ \in Int
  <2>1. now_ms \in 0 .. MaxTime /\ last_alarm_ms_ \in 0 .. MaxTime
    BY DEF EngineTypeOK
  <2> QED
    BY <1>1, <2>1
<1> QED
  BY <1>1, <1>2, <1>3

(* The dwell times computed lie within the range of the clock. *)
LEMMA DwellTimeRange ==
  ASSUME EngineTypeOK
  PROVE  DwellStart \in 0 .. MaxTime /\ DwellTime \in 0 .. MaxTime
<1>1. DwellStart \in 0 .. MaxTime /\ now_ms \in 0 .. MaxTime
  BY DEF EngineTypeOK, DwellStart
<1> QED
  BY <1>1, RuleAssumption DEF DwellTime

(* evaluate keeps the type of every field. *)
LEMMA EvaluateType ==
  ASSUME EngineTypeOK, NEW d \in Detection, Evaluate(d)
  PROVE  EngineTypeOK'
<1>1. 0 \in 0 .. MaxTime /\ DwellStart \in 0 .. MaxTime
  BY DwellTimeRange, RuleAssumption
<1>2. rule_config_' = rule_config_ /\ now_ms' = now_ms
  BY DEF Evaluate
<1>3. CASE ClassMismatch(d) \/ LowConfidence(d) \/ OutsideRoi(d)
  BY <1>1, <1>2, <1>3
     DEF ClassMismatch, LowConfidence, OutsideRoi, EndDwell, alarmVars, EngineTypeOK
<1>4. CASE DwellNotReached(d) \/ Cooldown(d)
  BY <1>1, <1>2, <1>4
     DEF DwellNotReached, Cooldown, ContinueDwell, alarmVars, EngineTypeOK
<1>5. CASE Alarm(d)
  BY <1>1, <1>2, <1>5 DEF Alarm, ContinueDwell, EngineTypeOK
<1> QED
  BY <1>3, <1>4, <1>5 DEF Evaluate

(* The clock keeps its type. *)
LEMMA TickType == ASSUME EngineTypeOK, Tick PROVE EngineTypeOK'
<1>1. MaxTime \in Nat
  BY RuleAssumption
<1>2. now_ms' \in 0 .. MaxTime
  <2>1. now_ms \in 0 .. MaxTime
    BY DEF EngineTypeOK
  <2>2. now_ms < MaxTime /\ now_ms' = now_ms + 1
    BY DEF Tick
  <2> QED
    BY <1>1, <2>1, <2>2
<1>3. /\ rule_config_' = rule_config_ /\ dwell_start_ms_' = dwell_start_ms_
      /\ last_alarm_ms_' = last_alarm_ms_ /\ reason' = reason
  BY DEF Tick, dwellVars, alarmVars
<1>4. dwell_active_' \in BOOLEAN /\ has_last_alarm_' \in BOOLEAN
  BY Zenon DEF Tick, dwellVars, alarmVars, EngineTypeOK
<1> QED
  BY <1>2, <1>3, <1>4 DEF EngineTypeOK

(* What LoggedEvaluate appends, and that it leaves the earlier calls alone. *)
LEMMA HistoryGrows ==
  ASSUME TypeOK, NEW d \in Detection, LoggedEvaluate(d)
  PROVE  /\ Len(history) \in Nat
         /\ history' \in Seq(Call)
         /\ Len(history') = Len(history) + 1
         /\ \A i \in 1 .. Len(history) : history'[i] = history[i]
         /\ history'[Len(history) + 1].qualifies = Qualifies(d)
         /\ history'[Len(history) + 1].at = now_ms
         /\ history'[Len(history) + 1].alarm = (reason' = "alarm")
<1> DEFINE e == [qualifies |-> Qualifies(d), at |-> now_ms,
                 alarm |-> reason' = "alarm"]
<1>1. e \in Call
  <2>1. Qualifies(d) \in BOOLEAN /\ (reason' = "alarm") \in BOOLEAN
    BY DEF Qualifies, Detection
  <2>2. now_ms \in 0 .. MaxTime
    BY DEF TypeOK, EngineTypeOK
  <2> QED
    BY <2>1, <2>2 DEF Call
<1>2. history \in Seq(Call) /\ history' = Append(history, e)
  BY DEF TypeOK, LoggedEvaluate
<1>3. /\ e.qualifies = Qualifies(d) /\ e.at = now_ms
      /\ e.alarm = (reason' = "alarm")
  OBVIOUS
<1> HIDE DEF e
<1>4. /\ Len(history) \in Nat /\ Append(history, e) \in Seq(Call)
      /\ Len(Append(history, e)) = Len(history) + 1
      /\ \A i \in 1 .. Len(history) : Append(history, e)[i] = history[i]
      /\ Append(history, e)[Len(history) + 1] = e
  BY <1>1, <1>2, AppendProperties, LenProperties
<1> QED
  BY <1>2, <1>3, <1>4

(* The constructor gives every field its type. *)
LEMMA InitType == Init => TypeOK
<1> SUFFICES ASSUME Init PROVE TypeOK
  OBVIOUS
<1>1. <<>> \in Seq(Call)
  OBVIOUS
<1>2. 0 \in 0 .. MaxTime
  BY RuleAssumption
<1> QED
  BY <1>1, <1>2 DEF Init, EngineInit, TypeOK, EngineTypeOK

(* Nothing else touches a field. *)
LEMMA StutterType == ASSUME TypeOK, UNCHANGED vars PROVE TypeOK'
BY DEF vars, engineVars, TypeOK, EngineTypeOK

(* Every field of the engine and every logged call keeps its type. *)
THEOREM TypeCorrect == Spec => []TypeOK
<1>1. Init => TypeOK
  BY InitType
<1>2. TypeOK /\ [Next]_vars => TypeOK'
  <2> SUFFICES ASSUME TypeOK, [Next]_vars PROVE TypeOK'
    OBVIOUS
  <2>1. CASE LoggedTick
    BY <2>1, TickType DEF LoggedTick, TypeOK
  <2>2. ASSUME NEW d \in Detection, LoggedEvaluate(d) PROVE TypeOK'
    BY <2>2, EvaluateType, HistoryGrows DEF LoggedEvaluate, TypeOK
  <2>3. CASE UNCHANGED vars
    BY <2>3, StutterType
  <2> QED
    BY <2>1, <2>2, <2>3 DEF Next
<1> QED
  BY <1>1, <1>2, PTL DEF Spec
--------------------------------------------------------------------------------
(* The inductive invariant. *)

(* The effect of one call, whichever early return it takes. *)
LEMMA EvaluateEffect ==
  ASSUME NEW d \in Detection, Evaluate(d)
  PROVE  /\ now_ms' = now_ms /\ rule_config_' = rule_config_
         /\ dwell_active_' = Qualifies(d)
         /\ Qualifies(d) => dwell_start_ms_' = DwellStart
         /\ reason' = "alarm" <=> Qualifies(d) /\ DwellReached /\ CooldownOk
         /\ reason' = "alarm" => has_last_alarm_' /\ last_alarm_ms_' = now_ms
         /\ reason' # "alarm" => /\ has_last_alarm_' = has_last_alarm_
                                /\ last_alarm_ms_' = last_alarm_ms_
<1> USE DEF Qualifies, Detection
<1>0. now_ms' = now_ms /\ rule_config_' = rule_config_
  BY DEF Evaluate
<1>1. CASE ClassMismatch(d)
  BY <1>0, <1>1, Zenon DEF ClassMismatch, EndDwell, alarmVars
<1>2. CASE LowConfidence(d)
  BY <1>0, <1>2, Zenon DEF LowConfidence, EndDwell, alarmVars
<1>3. CASE OutsideRoi(d)
  BY <1>0, <1>3, Zenon DEF OutsideRoi, EndDwell, alarmVars
<1>4. CASE DwellNotReached(d)
  BY <1>0, <1>4, Zenon DEF DwellNotReached, ContinueDwell, alarmVars
<1>5. CASE Cooldown(d)
  BY <1>0, <1>5, Zenon DEF Cooldown, ContinueDwell, alarmVars
<1>6. CASE Alarm(d)
  BY <1>0, <1>6, Zenon DEF Alarm, ContinueDwell
<1> QED
  BY <1>1, <1>2, <1>3, <1>4, <1>5, <1>6 DEF Evaluate

(* A call does not change what the history says of the calls before it. *)
LEMMA PastUnchanged ==
  ASSUME TypeOK, NEW d \in Detection, LoggedEvaluate(d),
         NEW n \in Nat, n = Len(history),
         NEW i \in 1 .. n, NEW t \in Int
  PROVE  /\ \A j \in 1 .. i : Unbroken(j, i)' <=> Unbroken(j, i)
         /\ DweltFor(i, t)' <=> DweltFor(i, t)
         /\ QuietFor(i, t)' <=> QuietFor(i, t)
         /\ RearmedAt(i, t)' <=> RearmedAt(i, t)
<1>1. \A k \in 1 .. i : history'[k] = history[k]
  BY HistoryGrows
<1>2. \A j \in 1 .. i : Unbroken(j, i)' <=> Unbroken(j, i)
  <2> SUFFICES ASSUME NEW j \in 1 .. i
               PROVE  Unbroken(j, i)' <=> Unbroken(j, i)
    OBVIOUS
  <2>1. \A k \in j .. i : history'[k] = history[k]
    BY <1>1
  <2> QED
    BY <2>1 DEF Unbroken
<1>3. DweltFor(i, t)' <=> DweltFor(i, t)
  BY <1>1, <1>2 DEF DweltFor
<1>4. i \in 1 .. i /\ 1 .. i - 1 \subseteq 1 .. i
  OBVIOUS
<1>5. QuietFor(i, t)' <=> QuietFor(i, t)
  BY <1>1, <1>4 DEF QuietFor
<1>6. RearmedAt(i, t)' <=> RearmedAt(i, t)
  BY <1>1, <1>4 DEF RearmedAt
<1> QED
  BY <1>2, <1>3, <1>5, <1>6

(* Where the runs that end at the new call start. *)
LEMMA NewRuns ==
  ASSUME TypeOK, NEW d \in Detection, LoggedEvaluate(d),
         NEW n \in Nat, n = Len(history)
  PROVE  /\ Unbroken(n + 1, n + 1)' <=> Qualifies(d)
         /\ \A j \in 1 .. n :
              Unbroken(j, n + 1)' <=> Unbroken(j, n) /\ Qualifies(d)
<1>1. /\ \A k \in 1 .. n : history'[k] = history[k]
      /\ history'[n + 1].qualifies = Qualifies(d)
  BY HistoryGrows
<1>2. Unbroken(n + 1, n + 1)' <=> Qualifies(d)
  <2>1. (n + 1) .. (n + 1) = {n + 1}
    OBVIOUS
  <2> QED
    BY <1>1, <2>1, Zenon DEF Unbroken
<1>3. \A j \in 1 .. n : Unbroken(j, n + 1)' <=> Unbroken(j, n) /\ Qualifies(d)
  <2> SUFFICES ASSUME NEW j \in 1 .. n
               PROVE  Unbroken(j, n + 1)' <=> Unbroken(j, n) /\ Qualifies(d)
    OBVIOUS
  <2>1. j .. (n + 1) = (j .. n) \cup {n + 1}
    OBVIOUS
  <2>2. \A k \in j .. n : history'[k] = history[k]
    BY <1>1
  <2> QED
    BY <1>1, <2>1, <2>2, Zenon DEF Unbroken
<1> QED
  BY <1>2, <1>3

(* The dwell the engine measures is the longest one the history shows. *)
LEMMA NewDwell ==
  ASSUME EngineRemembers, NEW d \in Detection, LoggedEvaluate(d),
         NEW n \in Nat, n = Len(history), NEW t \in Nat
  PROVE  DweltFor(n + 1, t)' <=> Qualifies(d) /\ DwellTime >= t
<1>1. /\ history \in Seq(Call) /\ now_ms \in Int /\ DwellRecorded
      /\ \A j \in 1 .. n : history[j].at <= now_ms
  BY EngineNumbers DEF EngineRemembers, TypeOK
<1>2. \A j \in 1 .. n : history[j] \in Call /\ history[j].at \in Int
  <2>1. \A j \in 1 .. n : history[j] \in Call
    BY <1>1, ElementOfSeq
  <2> QED
    BY <2>1, RuleAssumption DEF Call
<1>3. /\ \A j \in 1 .. n : history'[j] = history[j]
      /\ history'[n + 1].at = now_ms
  BY HistoryGrows DEF EngineRemembers
<1>4. /\ Unbroken(n + 1, n + 1)' <=> Qualifies(d)
      /\ \A j \in 1 .. n : Unbroken(j, n + 1)' <=> Unbroken(j, n) /\ Qualifies(d)
  BY NewRuns DEF EngineRemembers
<1>5. DwellTime = now_ms - DwellStart /\ DwellStart \in Int /\ DwellStart <= now_ms
  <2>1. CASE dwell_active_
    <3>1. \E j \in 1 .. n : history[j].at = dwell_start_ms_
      BY <1>1, <2>1 DEF DwellRecorded
    <3>2. DwellStart = dwell_start_ms_
      BY <2>1 DEF DwellStart
    <3> QED
      BY <1>1, <1>2, <3>1, <3>2 DEF DwellTime
  <2>2. CASE ~dwell_active_
    <3>1. DwellStart = now_ms
      BY <2>2 DEF DwellStart
    <3> QED
      BY <1>1, <3>1 DEF DwellTime
  <2> QED
    BY <2>1, <2>2
<1>6. ASSUME DweltFor(n + 1, t)' PROVE Qualifies(d) /\ DwellTime >= t
  <2>1. PICK j \in 1 .. n + 1 :
          Unbroken(j, n + 1)' /\ history'[n + 1].at - history'[j].at >= t
    BY <1>6 DEF DweltFor
  <2>2. CASE j = n + 1
    BY <1>1, <1>3, <1>4, <1>5, <2>1, <2>2
  <2>3. CASE j \in 1 .. n
    <3>1. Unbroken(j, n) /\ Qualifies(d) /\ now_ms - history[j].at >= t
      BY <1>3, <1>4, <2>1, <2>3
    <3>2. history # <<>> /\ history[n].qualifies
      BY <1>1, <2>3, <3>1 DEF Unbroken
    <3>3. dwell_active_ /\ dwell_start_ms_ <= history[j].at
      BY <1>1, <2>3, <3>1, <3>2 DEF DwellRecorded
    <3>4. DwellStart = dwell_start_ms_
      BY <3>3 DEF DwellStart
    <3> QED
      BY <1>1, <1>2, <1>5, <2>3, <3>1, <3>3, <3>4
  <2> QED
    BY <2>1, <2>2, <2>3
<1>7. ASSUME Qualifies(d), DwellTime >= t PROVE DweltFor(n + 1, t)'
  <2>1. \E j \in 1 .. n + 1 :
          Unbroken(j, n + 1)' /\ history'[n + 1].at - history'[j].at >= t
    <3>1. CASE dwell_active_
      <4>1. PICK j \in 1 .. n : Unbroken(j, n) /\ history[j].at = dwell_start_ms_
        BY <1>1, <3>1 DEF DwellRecorded
      <4>2. j \in 1 .. n + 1 /\ DwellStart = dwell_start_ms_
        BY <3>1 DEF DwellStart
      <4> QED
        BY <1>3, <1>4, <1>5, <1>7, <4>1, <4>2
    <3>2. CASE ~dwell_active_
      <4>1. n + 1 \in 1 .. n + 1 /\ DwellStart = now_ms
        BY <3>2 DEF DwellStart
      <4> QED
        BY <1>1, <1>3, <1>4, <1>5, <1>7, <4>1
    <3> QED
      BY <3>1, <3>2
  <2> QED
    BY <2>1 DEF DweltFor
<1> QED
  BY <1>6, <1>7

(* The alarm the engine remembers is the latest one in the history. *)
LEMMA NewQuiet ==
  ASSUME EngineRemembers, NEW d \in Detection, LoggedEvaluate(d),
         NEW n \in Nat, n = Len(history), NEW t \in Int
  PROVE  QuietFor(n + 1, t)' <=> ~has_last_alarm_ \/ now_ms >= last_alarm_ms_ + t
<1>1. /\ history \in Seq(Call) /\ now_ms \in Int /\ last_alarm_ms_ \in Int
      /\ AlarmRecorded
  BY EngineNumbers DEF EngineRemembers, TypeOK
<1>2. \A j \in 1 .. n : history[j].at \in Int
  <2>1. \A j \in 1 .. n : history[j] \in Call
    BY <1>1, ElementOfSeq
  <2> QED
    BY <2>1, RuleAssumption DEF Call
<1>3. /\ \A j \in 1 .. n : history'[j] = history[j]
      /\ history'[n + 1].at = now_ms
  BY HistoryGrows DEF EngineRemembers
<1>4. QuietFor(n + 1, t)' <=>
        \A j \in 1 .. n : history[j].alarm => now_ms - history[j].at >= t
  <2>1. (n + 1) - 1 = n
    OBVIOUS
  <2> QED
    BY <1>3, <2>1 DEF QuietFor
<1>5. CASE ~has_last_alarm_
  BY <1>1, <1>4, <1>5 DEF AlarmRecorded
<1>6. CASE has_last_alarm_
  <2>1. PICK m \in 1 .. n : history[m].alarm /\ history[m].at = last_alarm_ms_
    BY <1>1, <1>6 DEF AlarmRecorded
  <2>2. \A j \in 1 .. n : history[j].alarm => history[j].at <= last_alarm_ms_
    BY <1>1, <1>6 DEF AlarmRecorded
  <2> QED
    BY <1>1, <1>2, <1>4, <1>6, <2>1, <2>2
<1> QED
  BY <1>5, <1>6

(* A negative cooldown looks at the time of the latest alarm alone. *)
LEMMA NewRearmed ==
  ASSUME EngineRemembers, NEW d \in Detection, LoggedEvaluate(d),
         NEW n \in Nat, n = Len(history), NEW t \in Int
  PROVE  RearmedAt(n + 1, t)' <=> ~has_last_alarm_ \/ last_alarm_ms_ >= t
<1>1. history \in Seq(Call) /\ last_alarm_ms_ \in Int /\ AlarmRecorded
  BY EngineNumbers DEF EngineRemembers, TypeOK
<1>2. \A j \in 1 .. n : history[j].at \in Int
  <2>1. \A j \in 1 .. n : history[j] \in Call
    BY <1>1, ElementOfSeq
  <2> QED
    BY <2>1, RuleAssumption DEF Call
<1>3. RearmedAt(n + 1, t)' <=> \/ \A j \in 1 .. n : ~history[j].alarm
                              \/ \E j \in 1 .. n : history[j].alarm /\ history[j].at >= t
  <2>1. (n + 1) - 1 = n /\ \A j \in 1 .. n : history'[j] = history[j]
    BY HistoryGrows DEF EngineRemembers
  <2> QED
    BY <2>1 DEF RearmedAt
<1>4. CASE ~has_last_alarm_
  BY <1>1, <1>3, <1>4 DEF AlarmRecorded
<1>5. CASE has_last_alarm_
  <2>1. PICK m \in 1 .. n : history[m].alarm /\ history[m].at = last_alarm_ms_
    BY <1>1, <1>5 DEF AlarmRecorded
  <2>2. \A j \in 1 .. n : history[j].alarm => history[j].at <= last_alarm_ms_
    BY <1>1, <1>5 DEF AlarmRecorded
  <2> QED
    BY <1>1, <1>2, <1>3, <1>5, <2>1, <2>2
<1> QED
  BY <1>4, <1>5

(* The engine's test of the cooldown, casts included, is the policy's. *)
LEMMA NewRecovery ==
  ASSUME EngineRemembers, NEW d \in Detection, LoggedEvaluate(d),
         NEW n \in Nat, n = Len(history)
  PROVE  /\ Recovered(n + 1)' <=> CooldownOk
         /\ \A i \in 1 .. n : Recovered(i)' <=> Recovered(i)
<1>1. rule_config_' = rule_config_ /\ TypeOK /\ EngineTypeOK /\ AlarmRecorded
  BY DEF LoggedEvaluate, Evaluate, EngineRemembers, TypeOK
<1>2. PICK C \in Int : C = rule_config_.cooldown_ms
  BY <1>1, EngineNumbers
<1>3. now_ms \in Int /\ now_ms <= MaxTime /\ last_alarm_ms_ \in Int /\ MaxTime \in Nat
  BY <1>1, EngineNumbers
<1>4. has_last_alarm_ => last_alarm_ms_ <= now_ms
  BY <1>1 DEF AlarmRecorded, EngineRemembers
<1>5. AsU64(last_alarm_ms_ + AsU64(C)) \in Int
  <2>1. ASSUME NEW x \in Int PROVE AsU64(x) \in Int
    <3>1. Modulus \in Nat \ {0}
      BY RuleAssumption
    <3>2. x % Modulus \in 0 .. Modulus - 1
      BY <3>1
    <3> QED
      BY <3>1, <3>2 DEF AsU64
  <2>2. AsU64(C) \in Int
    BY <2>1
  <2>3. last_alarm_ms_ + AsU64(C) \in Int
    BY <1>3, <2>2
  <2> QED
    BY <2>1, <2>3
<1>6. CooldownOk <=> \/ ~has_last_alarm_
                    \/ IF C >= 0 THEN now_ms >= last_alarm_ms_ + C
                                 ELSE last_alarm_ms_ >= -C
  <2>1. CASE C >= 0
    BY <1>1, <1>2, <2>1, CastsOfDurations DEF CooldownOk
  <2>2. CASE C < 0 /\ last_alarm_ms_ + C >= 0
    <3>1. AsU64(last_alarm_ms_ + AsU64(C)) = last_alarm_ms_ + C
      BY <1>1, <1>2, <2>2, CastsOfDurations
    <3> QED
      BY <1>2, <1>3, <1>4, <2>2, <3>1 DEF CooldownOk
  <2>3. CASE C < 0 /\ last_alarm_ms_ + C < 0
    <3>1. AsU64(last_alarm_ms_ + AsU64(C)) > MaxTime
      BY <1>1, <1>2, <1>3, <2>3, CastsOfDurations
    <3> QED
      BY <1>2, <1>3, <1>5, <2>3, <3>1 DEF CooldownOk
  <2> QED
    BY <1>2, <1>3, <2>1, <2>2, <2>3
<1>7. Recovered(n + 1)' <=> IF C >= 0 THEN QuietFor(n + 1, C)'
                                      ELSE RearmedAt(n + 1, -C)'
  BY <1>1, <1>2, Zenon DEF Recovered, QuietFor, RearmedAt
<1>8. QuietFor(n + 1, C)' <=> ~has_last_alarm_ \/ now_ms >= last_alarm_ms_ + C
  BY NewQuiet
<1>9. RearmedAt(n + 1, -C)' <=> ~has_last_alarm_ \/ last_alarm_ms_ >= -C
  <2>1. PICK t \in Int : t = -C
    BY <1>2
  <2>2. RearmedAt(n + 1, t)' <=> ~has_last_alarm_ \/ last_alarm_ms_ >= t
    BY NewRearmed
  <2> QED
    BY <2>1, <2>2, Zenon DEF RearmedAt
<1>10. ASSUME NEW i \in 1 .. n PROVE Recovered(i)' <=> Recovered(i)
  <2>1. PICK t \in Int : t = -C
    BY <1>2
  <2>2. /\ QuietFor(i, C)' <=> QuietFor(i, C)
        /\ RearmedAt(i, t)' <=> RearmedAt(i, t)
    BY <1>1, PastUnchanged
  <2> QED
    BY <1>1, <1>2, <2>1, <2>2, Zenon DEF Recovered, QuietFor, RearmedAt
<1> QED
  BY <1>6, <1>7, <1>8, <1>9, <1>10, Zenon

(* No call to evaluate and no tick of the clock breaks the invariant. *)
LEMMA InductiveStep ==
  ASSUME EngineRemembers, NEW d \in Detection, LoggedEvaluate(d),
         NEW n \in Nat, n = Len(history)
  PROVE  EngineRemembers'
<1>1. /\ Len(history') = n + 1
      /\ \A i \in 1 .. n : history'[i] = history[i]
      /\ history'[n + 1].qualifies = Qualifies(d)
      /\ history'[n + 1].at = now_ms
      /\ history'[n + 1].alarm = (reason' = "alarm")
  BY HistoryGrows DEF EngineRemembers
<1>2. /\ now_ms' = now_ms /\ rule_config_' = rule_config_
      /\ dwell_active_' = Qualifies(d)
      /\ Qualifies(d) => dwell_start_ms_' = DwellStart
      /\ reason' = "alarm" <=> Qualifies(d) /\ DwellReached /\ CooldownOk
      /\ reason' = "alarm" => has_last_alarm_' /\ last_alarm_ms_' = now_ms
      /\ reason' # "alarm" => /\ has_last_alarm_' = has_last_alarm_
                             /\ last_alarm_ms_' = last_alarm_ms_
  BY EvaluateEffect DEF LoggedEvaluate
<1>3. /\ TypeOK /\ EngineTypeOK /\ DwellRecorded /\ AlarmRecorded
      /\ AlarmPolicy /\ NegativeDwellIsDeaf
      /\ \A j \in 1 .. n : history[j].at <= now_ms
  BY DEF EngineRemembers, TypeOK
<1>4. TypeOK'
  BY <1>3, EvaluateType, HistoryGrows DEF LoggedEvaluate, TypeOK
<1>5. /\ now_ms \in Int /\ last_alarm_ms_ \in Int /\ MaxTime \in Nat
      /\ rule_config_.dwell_time_ms \in Int /\ rule_config_.cooldown_ms \in Int
      /\ DwellStart \in 0 .. MaxTime /\ DwellTime \in 0 .. MaxTime
  BY <1>3, DwellTimeRange, EngineNumbers
<1>6. \A j \in 1 .. n : history[j].at \in Int
  <2>1. \A j \in 1 .. n : history[j] \in Call
    BY <1>3, ElementOfSeq DEF TypeOK
  <2> QED
    BY <2>1, RuleAssumption DEF Call
<1>7. \A j \in 1 .. Len(history') : history'[j].at <= now_ms'
  <2>1. \A j \in 1 .. n + 1 : j \in 1 .. n \/ j = n + 1
    OBVIOUS
  <2> QED
    BY <1>1, <1>2, <1>3, <1>5, <2>1
<1>8. DwellRecorded'
  <2>1. CASE ~Qualifies(d)
    BY <1>1, <1>2, <2>1 DEF DwellRecorded
  <2>2. CASE Qualifies(d)
    <3>1. /\ Unbroken(n + 1, n + 1)'
          /\ \A j \in 1 .. n : Unbroken(j, n + 1)' <=> Unbroken(j, n)
      BY <1>3, <2>2, NewRuns
    <3>2. history' # <<>>
      BY <1>1, <1>4 DEF TypeOK
    <3>3. \E j \in 1 .. n + 1 : Unbroken(j, n + 1)' /\ history'[j].at = DwellStart
      <4>1. CASE dwell_active_
        <5>1. PICK j \in 1 .. n : Unbroken(j, n) /\ history[j].at = dwell_start_ms_
          BY <1>3, <4>1 DEF DwellRecorded
        <5>2. j \in 1 .. n + 1 /\ DwellStart = dwell_start_ms_
          BY <4>1 DEF DwellStart
        <5> QED
          BY <1>1, <3>1, <5>1, <5>2
      <4>2. CASE ~dwell_active_
        <5>1. n + 1 \in 1 .. n + 1 /\ DwellStart = now_ms
          BY <4>2 DEF DwellStart
        <5> QED
          BY <1>1, <3>1, <5>1
      <4> QED
        BY <4>1, <4>2
    <3>4. \A j \in 1 .. n + 1 : Unbroken(j, n + 1)' => DwellStart <= history'[j].at
      <4> SUFFICES ASSUME NEW j \in 1 .. n + 1, Unbroken(j, n + 1)'
                   PROVE  DwellStart <= history'[j].at
        OBVIOUS
      <4>1. CASE j = n + 1
        <5>1. DwellStart <= now_ms
          <6>1. CASE dwell_active_
            <7>1. \E k \in 1 .. n : history[k].at = dwell_start_ms_
              BY <1>3, <6>1 DEF DwellRecorded
            <7> QED
              BY <1>3, <6>1, <7>1 DEF DwellStart
          <6>2. CASE ~dwell_active_
            BY <1>5, <6>2 DEF DwellStart
          <6> QED
            BY <6>1, <6>2
        <5> QED
          BY <1>1, <4>1, <5>1
      <4>2. CASE j \in 1 .. n
        <5>1. Unbroken(j, n)
          BY <3>1, <4>2
        <5>2. history # <<>> /\ history[n].qualifies
          BY <1>3, <4>2, <5>1 DEF Unbroken, TypeOK
        <5>3. dwell_active_ /\ dwell_start_ms_ <= history[j].at
          BY <1>3, <4>2, <5>1, <5>2 DEF DwellRecorded
        <5> QED
          BY <1>1, <4>2, <5>3 DEF DwellStart
      <4> QED
        BY <4>1, <4>2
    <3>5. /\ dwell_active_' /\ dwell_start_ms_' = DwellStart
          /\ history'[n + 1].qualifies
      BY <1>1, <1>2, <2>2
    <3> QED
      BY <1>1, <3>2, <3>3, <3>4, <3>5 DEF DwellRecorded
  <2> QED
    BY <2>1, <2>2
<1>9. AlarmRecorded'
  <2>1. \A j \in 1 .. n + 1 : j \in 1 .. n \/ j = n + 1
    OBVIOUS
  <2>2. CASE reason' = "alarm"
    <3>1. has_last_alarm_' /\ last_alarm_ms_' = now_ms
      BY <1>2, <2>2
    <3>2. n + 1 \in 1 .. n + 1 /\ history'[n + 1].alarm
      <4>1. history'[n + 1].alarm
        BY <1>1, <2>2, Zenon
      <4> QED
        BY <4>1
    <3>3. \A j \in 1 .. n + 1 : history'[j].at <= now_ms
      BY <1>1, <1>2, <1>7
    <3> QED
      BY <1>1, <3>1, <3>2, <3>3 DEF AlarmRecorded
  <2>3. CASE reason' # "alarm"
    <3>1. has_last_alarm_' = has_last_alarm_ /\ last_alarm_ms_' = last_alarm_ms_
      BY <1>2, <2>3
    <3>2. ~history'[n + 1].alarm
      BY <1>1, <2>3
    <3>3. \A j \in 1 .. n : j \in 1 .. n + 1 /\ history'[j] = history[j]
      BY <1>1
    <3>4. has_last_alarm_' <=> \E j \in 1 .. n + 1 : history'[j].alarm
      BY <1>3, <2>1, <3>1, <3>2, <3>3 DEF AlarmRecorded
    <3>5. has_last_alarm_' =>
            /\ \E j \in 1 .. n + 1 :
                 history'[j].alarm /\ history'[j].at = last_alarm_ms_'
            /\ \A j \in 1 .. n + 1 :
                 history'[j].alarm => history'[j].at <= last_alarm_ms_'
      BY <1>3, <2>1, <3>1, <3>2, <3>3 DEF AlarmRecorded
    <3> QED
      BY <1>1, <3>4, <3>5 DEF AlarmRecorded
  <2> QED
    BY <2>2, <2>3
<1>10. PICK D \in Int : D = rule_config_.dwell_time_ms
  BY <1>5
<1>11. /\ D >= 0 => AsU64(D) = D
       /\ D < 0 => AsU64(D) > MaxTime
  BY <1>3, <1>10, CastsOfDurations
<1>12. AlarmPolicy'
  <2>1. ASSUME D >= 0, NEW i \in 1 .. n + 1
        PROVE  history'[i].alarm <=> DweltFor(i, D)' /\ Recovered(i)'
    <3>1. CASE i \in 1 .. n
      <4>1. history[i].alarm <=> DweltFor(i, D) /\ Recovered(i)
        BY <1>3, <1>10, <2>1, <3>1 DEF AlarmPolicy
      <4>2. (DweltFor(i, D)' <=> DweltFor(i, D)) /\ (Recovered(i)' <=> Recovered(i))
        BY <1>3, <3>1, PastUnchanged, NewRecovery
      <4> QED
        BY <1>1, <3>1, <4>1, <4>2, Zenon
    <3>2. CASE i = n + 1
      <4>1. DweltFor(n + 1, D)' <=> Qualifies(d) /\ DwellTime >= D
        BY <2>1, NewDwell
      <4>2. Recovered(n + 1)' <=> CooldownOk
        BY NewRecovery
      <4>3. DwellReached <=> DwellTime >= D
        BY <1>10, <1>11, <2>1 DEF DwellReached
      <4>4. history'[n + 1].alarm <=> Qualifies(d) /\ DwellReached /\ CooldownOk
        BY <1>1, <1>2, Zenon
      <4> QED
        BY <3>2, <4>1, <4>2, <4>3, <4>4, Zenon
    <3> QED
      BY <3>1, <3>2
  <2>2. rule_config_'.dwell_time_ms = D
    BY <1>2, <1>10
  <2> QED
    BY <1>1, <2>1, <2>2, Zenon DEF AlarmPolicy, DweltFor, Unbroken
<1>13. NegativeDwellIsDeaf'
  <2> SUFFICES ASSUME D < 0, NEW i \in 1 .. n + 1
               PROVE  ~history'[i].alarm
    BY <1>1, <1>2, <1>10 DEF NegativeDwellIsDeaf
  <2>1. CASE i \in 1 .. n
    BY <1>1, <1>3, <1>10, <2>1 DEF NegativeDwellIsDeaf
  <2>2. CASE i = n + 1
    <3>1. AsU64(D) \in Int
      <4>1. Modulus \in Nat \ {0}
        BY RuleAssumption
      <4>2. D % Modulus \in 0 .. Modulus - 1
        BY <4>1
      <4> QED
        BY <4>1, <4>2 DEF AsU64
    <3>2. ~DwellReached
      BY <1>5, <1>10, <1>11, <3>1 DEF DwellReached
    <3> QED
      BY <1>1, <1>2, <2>2, <3>2, Zenon
  <2> QED
    BY <2>1, <2>2
<1> QED
  BY <1>4, <1>7, <1>8, <1>9, <1>12, <1>13 DEF EngineRemembers

(* EngineRemembers holds in every reachable state. *)
THEOREM Invariance == Spec => []EngineRemembers
<1>1. Init => EngineRemembers
  <2> SUFFICES ASSUME Init PROVE EngineRemembers
    OBVIOUS
  <2>1. TypeOK
    BY InitType
  <2>2. Len(history) = 0 /\ history = <<>>
    BY DEF Init
  <2>3. ~dwell_active_ /\ ~has_last_alarm_
    BY DEF Init, EngineInit
  <2> QED
    BY <2>1, <2>2, <2>3
       DEF EngineRemembers, DwellRecorded, AlarmRecorded, AlarmPolicy, NegativeDwellIsDeaf
<1>2. EngineRemembers /\ [Next]_vars => EngineRemembers'
  <2> SUFFICES ASSUME EngineRemembers, [Next]_vars PROVE EngineRemembers'
    OBVIOUS
  <2>1. CASE LoggedTick
    <3>1. TypeOK' /\ now_ms \in Int /\ now_ms' = now_ms + 1
      BY <2>1, TickType, EngineNumbers DEF LoggedTick, TypeOK, EngineRemembers, Tick
    <3>2. /\ history' = history /\ rule_config_' = rule_config_
          /\ dwell_active_' = dwell_active_ /\ dwell_start_ms_' = dwell_start_ms_
          /\ has_last_alarm_' = has_last_alarm_ /\ last_alarm_ms_' = last_alarm_ms_
      BY <2>1, Zenon DEF LoggedTick, Tick, dwellVars, alarmVars
    <3>3. \A j \in 1 .. Len(history') : history'[j].at <= now_ms'
      <4>1. \A j \in 1 .. Len(history) : history[j] \in Call
        BY ElementOfSeq DEF EngineRemembers, TypeOK
      <4>2. \A j \in 1 .. Len(history) : history[j].at \in Int
        BY <4>1, RuleAssumption DEF Call
      <4> QED
        BY <3>1, <3>2, <4>2 DEF EngineRemembers
    <3>4. DwellRecorded' /\ AlarmRecorded' /\ AlarmPolicy' /\ NegativeDwellIsDeaf'
      BY <3>2, Zenon
         DEF EngineRemembers, DwellRecorded, AlarmRecorded, AlarmPolicy, NegativeDwellIsDeaf,
             DweltFor, Recovered, QuietFor, RearmedAt, Unbroken
    <3> QED
      BY <3>1, <3>3, <3>4 DEF EngineRemembers
  <2>2. ASSUME NEW d \in Detection, LoggedEvaluate(d) PROVE EngineRemembers'
    <3>1. Len(history) \in Nat
      BY <2>2, HistoryGrows DEF EngineRemembers
    <3>2. PICK n \in Nat : n = Len(history)
      BY <3>1
    <3> QED
      BY <2>2, <3>2, InductiveStep
  <2>3. CASE UNCHANGED vars
    <3>1. TypeOK'
      BY <2>3, StutterType DEF EngineRemembers
    <3>2. /\ history' = history /\ rule_config_' = rule_config_ /\ now_ms' = now_ms
          /\ dwell_active_' = dwell_active_ /\ dwell_start_ms_' = dwell_start_ms_
          /\ has_last_alarm_' = has_last_alarm_ /\ last_alarm_ms_' = last_alarm_ms_
      BY <2>3, Zenon DEF vars, engineVars
    <3> QED
      BY <3>1, <3>2, Zenon
         DEF EngineRemembers, DwellRecorded, AlarmRecorded, AlarmPolicy, NegativeDwellIsDeaf,
             DweltFor, Recovered, QuietFor, RearmedAt, Unbroken
  <2> QED
    BY <2>1, <2>2, <2>3 DEF Next
<1> QED
  BY <1>1, <1>2, PTL DEF Spec

(* evaluate raises an alarm exactly when the policy over the whole history of
   detections says one is due. *)
THEOREM PolicyHolds == Spec => []AlarmPolicy
<1>1. EngineRemembers => AlarmPolicy
  BY DEF EngineRemembers
<1> QED
  BY <1>1, Invariance, PTL

(* A negative dwell_time_ms silences the engine for good. *)
THEOREM NegativeDwellSilences == Spec => []NegativeDwellIsDeaf
<1>1. EngineRemembers => NegativeDwellIsDeaf
  BY DEF EngineRemembers
<1> QED
  BY <1>1, Invariance, PTL
================================================================================
