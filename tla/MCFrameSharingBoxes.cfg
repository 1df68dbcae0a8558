SPECIFICATION Spec
CONSTANTS
  QueueSlots = 2
  DetectSlots = 1
  Findings <- FewFindings
  MaxFrames = 2
INVARIANTS BoxesAreOfFrame
CHECK_DEADLOCK FALSE
