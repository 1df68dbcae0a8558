SPECIFICATION Spec
CONSTANTS
  Configs <- ShortDwell
  Modulus = 32
  MaxTime = 2
  Scenes <- GapScenes
  QueueSlots = 3
  MetricsPeriod = 5
  NoStay = NoStay
  MaxFrames = 3
INVARIANTS ContinuousStay
CHECK_DEADLOCK FALSE
