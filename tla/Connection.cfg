\* One connection, a peer that may send anything well-formed, break or close.
SPECIFICATION FairSpec
CONSTANTS
  Conns = {c1}
  c1 = c1
  ChanCap = 1
  MaxPackets = 3
INVARIANTS TypeOK AuthFirst GoneIsClean
PROPERTIES ResetEnds CloseEnds AuthEnds ReaderEnds ClosedLeaves
\* The system rests when every peer is silent.
CHECK_DEADLOCK FALSE
