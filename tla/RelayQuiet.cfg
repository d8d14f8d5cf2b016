\* Operations on one game apart from each other, broadcasts apart from both.
SPECIFICATION QuietRelaySpec
CONSTANTS
  Clients = {alice, bob, carol}
  Games = {g1, g2}
  GameIds = {id1, id2}
  alice = alice
  bob = bob
  carol = carol
  g1 = g1
  g2 = g2
  id1 = id1
  id2 = id2
  BadId = BadId
  NoId = NoId
  NoGame = NoGame
  Nil = Nil
  MaxRequests = 4
  ChanCap = 1
  SocketCap = 1
  MaxStates = 1
SYMMETRY SymmetryOfIds
INVARIANTS MembersExact ServedExactly RangeSeesClients
PROPERTY ImplementsLobby
\* Clients may stop sending, and the process may end.
CHECK_DEADLOCK FALSE
