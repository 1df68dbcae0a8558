SPECIFICATION FairSpec
CONSTANTS
  QueueSlots = 2
  DetectSlots = 1
  Findings <- FewFindings
  MaxFrames = 2
INVARIANTS TypeOK CopyIsFresh NoSegmentLeft ResultIsOfFrame
PROPERTIES VideoNeverGoesBack PictureReachesViewer
CHECK_DEADLOCK FALSE
