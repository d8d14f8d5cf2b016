\* Every interleaving of handlers and readLoop; channel and sockets fill.
SPECIFICATION RelayFairSpec
CONSTANTS
  Clients = {alice, bob}
  Games = {g1}
  GameIds = {id1}
  alice = alice
  bob = bob
  g1 = g1
  id1 = id1
  BadId = BadId
  NoId = NoId
  NoGame = NoGame
  Nil = Nil
  MaxRequests = 2
  ChanCap = 2
  SocketCap = 1
  MaxStates = 3
INVARIANTS RelayTypeOK InOrder
PROPERTY PumpDrains
\* Clients may stop sending, and the process may end.
CHECK_DEADLOCK FALSE
