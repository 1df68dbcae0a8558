SPECIFICATION FairSpec
CONSTANTS
  Room = 24
  Margin = 20
  MaxObjects = 2
  HeadLengths <- SmallHeads
  ObjectLengths <- SmallObjects
  ReceiveRoom = 24
  SseRoom = 24
  Conns = {c1, c2}
  FdLimit = 2
  SocketRoom = 1
  None = None
  Image = Image
  MaxMessages = 2
  InFlight = 1
INVARIANTS TypeOK StreamsIntact EventsWhole DescriptorOwned
PROPERTIES FeedSpec BroadcastEnds RequestServed
CHECK_DEADLOCK FALSE
