SPECIFICATION Spec
CONSTANTS
  Configs <- ShortDwell
  Modulus = 32
  MaxTime = 2
  Scenes <- CrowdScenes
  QueueSlots = 3
  MetricsPeriod = 5
  NoStay = NoStay
  MaxFrames = 3
INVARIANTS StayRaisesAlarm
CHECK_DEADLOCK FALSE
