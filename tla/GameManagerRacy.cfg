\* Every interleaving of the handlers; ids may collide.
SPECIFICATION FairSpec
CONSTANTS
  Clients = {alice, bob}
  Games = {g1, g2}
  GameIds = {id1, id2}
  alice = alice
  bob = bob
  g1 = g1
  g2 = g2
  id1 = id1
  id2 = id2
  BadId = BadId
  NoId = NoId
  NoGame = NoGame
  Nil = Nil
  MaxRequests = 4
INVARIANTS TypeOK OwnGameExists PumpOfGame
PROPERTY OperationsEnd
\* A handler may take no more requests than the bound, or be gone.
CHECK_DEADLOCK FALSE
