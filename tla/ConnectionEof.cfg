\* A peer that closes.
SPECIFICATION FairSpec
CONSTANTS
  Conns = {c1}
  c1 = c1
  ChanCap = 1
  MaxPackets = 2
PROPERTY EofUnregisters
\* The system rests when every peer is silent.
CHECK_DEADLOCK FALSE
