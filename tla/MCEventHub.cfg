\* Two goroutines broadcast three events to two streams, one of which is never
\* read.
SPECIFICATION FairSpec
CONSTANTS
  b1 = b1
  b2 = b2
  s1 = s1
  s2 = s2
  None = None
  Broadcasters = {b1, b2}
  Streams = {s1, s2}
  Stalled = {s2}
  Capacity = 2
  MaxEvents <- MCMaxEvents
CHECK_DEADLOCK FALSE
INVARIANTS
  SendsToOpenChannels
  InOrder
  Accounted
  MissIsFollowed
PROPERTIES
  StreamsAreFeeds
  BroadcastReturns
  GoneIsRemoved
  SentIsWritten
