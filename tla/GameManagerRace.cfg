\* A join races a leave.
SPECIFICATION UniqueIdsSpec
CONSTANTS
  Clients = {alice, bob}
  Games = {g1, g2}
  GameIds = {id1, id2}
  alice = alice
  bob = bob
  g1 = g1
  g2 = g2
  id1 = id1
  id2 = id2
  BadId = BadId
  NoId = NoId
  NoGame = NoGame
  Nil = Nil
  MaxRequests = 6
SYMMETRY SymmetryOfIds
INVARIANT OneGame
\* A handler may take no more requests than the bound, or be gone.
CHECK_DEADLOCK FALSE
