SPECIFICATION Spec
CONSTANTS
  Configs <- SmallConfigs
  Modulus = 32
  MaxTime = 5
  MaxCalls = 5
INVARIANTS TypeOK AlarmPolicy NegativeDwellIsDeaf EngineRemembers
CHECK_DEADLOCK FALSE
