SPECIFICATION FairSpec
CONSTANTS
  Item = {a, b}
  N = 4
  Blank = Blank
  MaxPush <- TwoLaps
INVARIANTS TypeOK NeverOverfull RaceFree IInv
PROPERTIES FifoSpec AcceptedIsTaken
