\* Legal packets that do not leave room for a read.
SPECIFICATION FairSpec
CONSTANTS
  MaxSize = 8
  ReadSize = 3
  ChanCap = 2
  Wrap = 16
  Payloads <- LongPayloads
  MaxSent = 3
PROPERTY ImplementsStream
\* The peer may stop writing.
CHECK_DEADLOCK FALSE
