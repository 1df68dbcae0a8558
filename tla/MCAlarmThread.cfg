SPECIFICATION Spec
CONSTANTS
  Configs <- QuickRules
  Modulus = 32
  MaxTime = 2
  Scenes <- BusyScenes
  QueueSlots = 2
  MetricsPeriod = 2
  NoStay = NoStay
  MaxFrames = 3
INVARIANTS TypeOK InOrder AlarmSpacing MetricsTruthful
CHECK_DEADLOCK FALSE
