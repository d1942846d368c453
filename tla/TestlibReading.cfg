SPECIFICATION ReadingSpec
CONSTANTS
  MaxFile = 5
  Files <- SmallFiles
  BUFFER_SIZE = 6
  MAX_UNREAD_COUNT = 4
  MaxUnread = 2
  MaxEofPeeks = 2
  MaxTaken = 8
  MaxUndo = 3
  MaxTestCase = 2
INVARIANTS
  ReadersKeepTheirBooks
  TokensMeanTheirText
  StreamsLoseNothing
PROPERTIES
  EveryReaderIsCharStream
CHECK_DEADLOCK FALSE
