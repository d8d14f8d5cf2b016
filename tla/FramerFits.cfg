\* Packets that leave room for a read.
SPECIFICATION FairSpec
CONSTANTS
  MaxSize = 8
  ReadSize = 3
  ChanCap = 2
  Wrap = 16
  Payloads <- FittingPayloads
  MaxSent = 4
INVARIANTS TypeOK BufferNeverGrows
PROPERTIES ImplementsStream AllDelivered
\* The peer may stop writing.
CHECK_DEADLOCK FALSE
