SPECIFICATION FairSpec
CONSTANTS
  NBUF = 2
  MaxPictures = 3
  QueueSlots = 2
  DetectSlots = 1
  Findings <- OneBox
INVARIANTS TypeOK NoBufferLost SnapshotNotOlder CountersAgree
PROPERTIES ResultsInOrder Shutdown
CHECK_DEADLOCK FALSE
