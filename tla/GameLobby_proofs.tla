---------------------------- MODULE GameLobby_proofs ----------------------------
(***************************************************************************)
(* Proof that the lists of the games implement Lobby.tla in the schedules  *)
(* of NoOverlapRelaySpec: whatever a handler does to headers and arrays,   *)
(* to the clients of the game it is one step in or one step out, or none.  *)
(*                                                                         *)
(* RoomOf looks a client up in every list there is.  The proof reads the   *)
(* same room off the client's own handler (Home), shows with SInv that the *)
(* two agree, and then follows one handler at a time.                      *)
(***************************************************************************)
EXTENDS GameSerial_proofs

-----------------------------------------------------------------------------
(* The room of a client, as its own handler knows it *)

\* The handler of c is at a point where the list of its game has c in it.
Present(c) ==
  \/ at[c] \in {"insert", "inserting", "unlocked", "started", "setelem", "joined", "scan",
             "search"}
  \/ at[c] = "shift" /\ Own(c)[pos[c]] = c
  \/ at[c] = "shrink" /\ Own(c)[slice[game[c]].len] = c

Home(c) ==
  IF Busy(c) THEN IF Present(c) THEN game[c] ELSE NoGame
  ELSE IF gameID[c] = NoId THEN NoGame ELSE games[gameID[c]]

-----------------------------------------------------------------------------
(* Who is listed *)

LEMMA PlacesImage ==
  ASSUME NEW a, NEW I, NEW S, Places(a, I, S)
  PROVE  {a[i] : i \in I} = S
BY DEF Places

\* One handler works on a game at a time.
LEMMA OneOwner ==
  ASSUME SInv, NEW g \in Games, NEW o \in Clients, game[o] = g
  PROVE  Busy(o) /\ \A d \in Clients : game[d] = g => d = o
<1>1. \A d \in Clients : game[d] = g => Busy(d)
  BY SetsAssumption DEF SInv, WorkOK
<1> QED
  BY <1>1 DEF SInv, NoOverlap

\* Nobody is storing behind the length of the list: it is what it looks like.
LEMMA ListedElements ==
  ASSUME NEW g \in made, \A d \in Clients : game[d] = g => at[d] # "setelem"
  PROVE  Listed(g) = {arrays[g][slice[g].arr][i] : i \in 1..slice[g].len}
<1>1. \A i : {d \in Clients : at[d] = "setelem" /\ game[d] = g /\ hdr[d].len + 1 = i} = {}
  OBVIOUS
<1>2. \A i : PendingClient(g, i) = arrays[g][slice[g].arr][i]
  BY <1>1 DEF PendingClient
<1> QED
  BY <1>2 DEF Listed

\* ... or the element it is yet to get counts as stored.
LEMMA ListedPending ==
  ASSUME IInv, SInv, NEW g \in made, NEW o \in Clients, game[o] = g, at[o] = "setelem"
  PROVE  Listed(g) = InGame(g) \cup {o}
<1> DEFINE n == hdr[o].len
           a == arrays[g][slice[g].arr]
<1>1. n \in Nat /\ g \in Games
  BY DEF IInv, TypeOK, Header
<1>2. slice[g].arr = hdr[o].arr /\ slice[g].len = n + 1 /\ Places(a, 1..n, InGame(g))
  <2>1. WorkOK(o)
    BY DEF SInv
  <2> QED
    BY <2>1 DEF WorkOK, JoinOK, OneLonger, OwnLists, Own
<1>3. \A d \in Clients : game[d] = g => d = o
  BY <1>1, OneOwner
<1>4. \A i \in 1..n : PendingClient(g, i) = a[i]
  <2> TAKE i \in 1..n
  <2>1. n + 1 # i
    BY <1>1
  <2>2. {d \in Clients : at[d] = "setelem" /\ game[d] = g /\ hdr[d].len + 1 = i} = {}
    BY <1>3, <2>1
  <2> QED
    BY <2>2 DEF PendingClient
<1>5. PendingClient(g, n + 1) = o
  <2>1. {d \in Clients : at[d] = "setelem" /\ game[d] = g /\ hdr[d].len + 1 = n + 1} = {o}
    BY <1>3
  <2> QED
    BY <2>1 DEF PendingClient
<1>6. {a[i] : i \in 1..n} = InGame(g)
  BY <1>2, PlacesImage
<1>7. 1..slice[g].len = (1..n) \cup {n + 1}
  BY <1>1, <1>2
<1> HIDE DEF n, a
<1>8. Listed(g) = {PendingClient(g, i) : i \in (1..n) \cup {n + 1}}
  BY <1>7 DEF Listed
<1> QED
  BY <1>4, <1>5, <1>6, <1>8

\* A game lists the clients whose gameID is its id; about the one whose
\* handler is at work on it, the place that handler has got to decides.
LEMMA ListedExactly ==
  ASSUME IInv, SInv, NEW g \in made, NEW c \in Clients
  PROVE  c \in Listed(g) <=> IF game[c] = g THEN Present(c) ELSE gameID[c] = idOf[g]
<1> DEFINE a == arrays[g][slice[g].arr]
           n == slice[g].len
<1>1. g \in Games /\ idOf[g] # NoId /\ n \in Nat
  BY SetsAssumption DEF IInv, TypeOK, MapOK, Header
<1>2. c \in InGame(g) <=> gameID[c] = idOf[g]
  BY DEF InGame
<1>3. CASE Settled(g)
  <2>1. Lists(g, InGame(g)) /\ \A d \in Clients : game[d] # g
    BY <1>3 DEF SInv, AtRest, Settled
  <2>2. Listed(g) = {a[i] : i \in 1..n}
    BY <2>1, ListedElements
  <2>3. Places(a, 1..n, InGame(g))
    BY <2>1 DEF Lists
  <2>4. Listed(g) = InGame(g)
    BY <2>2, <2>3, PlacesImage
  <2> QED
    BY <1>2, <2>1, <2>4
<1>4. ASSUME NEW o \in Clients, game[o] = g
      PROVE  c \in Listed(g) <=> IF game[c] = g THEN Present(c) ELSE gameID[c] = idOf[g]
  <2>1. Busy(o) /\ \A d \in Clients : game[d] = g => d = o
    BY <1>1, <1>4, OneOwner
  <2>2. at[o] \in Labels \ {"idle", "gone"}
    BY <2>1 DEF IInv, TypeOK, Busy
  <2>3. WorkOK(o)
    BY DEF SInv
  <2>4. at[o] # "setelem" => Listed(g) = {a[i] : i \in 1..n}
    BY <1>4, <2>1, ListedElements
  <2>5. \A S : at[o] # "setelem" /\ Lists(g, S) => Listed(g) = S
    BY <2>4, PlacesImage DEF Lists
  <2>6. CASE at[o] = "setelem"
    <3>1. Listed(g) = InGame(g) \cup {o}
      BY <1>4, <2>6, ListedPending
    <3> QED
      BY <1>2, <1>4, <2>1, <2>6, <3>1 DEF Present
  <2>7. CASE at[o] \in {"insert", "inserting", "unlocked", "started"}
    <3>1. Lists(g, {o}) /\ InGame(g) = {}
      BY <1>4, <2>3, <2>7 DEF WorkOK, CreateOK
    <3>2. Listed(g) = {o}
      BY <2>5, <2>7, <3>1
    <3> QED
      BY <1>2, <1>4, <2>1, <2>7, <3>1, <3>2 DEF Present
  <2>8. CASE at[o] \in {"append", "grow", "store", "setlen"}
    <3>1. Lists(g, InGame(g)) /\ gameID[o] = NoId
      BY <1>4, <2>3, <2>8 DEF WorkOK, JoinOK
    <3>2. Listed(g) = InGame(g)
      BY <2>5, <2>8, <3>1
    <3> QED
      BY <1>1, <1>2, <1>4, <2>1, <2>8, <3>1, <3>2 DEF Present
  <2>9. CASE at[o] = "joined"
    <3>1. Lists(g, InGame(g) \cup {o})
      BY <1>4, <2>3, <2>9 DEF WorkOK, JoinOK
    <3>2. Listed(g) = InGame(g) \cup {o}
      BY <2>5, <2>9, <3>1
    <3> QED
      BY <1>2, <1>4, <2>1, <2>9, <3>2 DEF Present
  <2>10. CASE at[o] \in {"scan", "search"}
    <3>1. Lists(g, InGame(g)) /\ gameID[o] = idOf[g]
      BY <1>4, <2>3, <2>10 DEF WorkOK, LeaveOK
    <3>2. Listed(g) = InGame(g)
      BY <2>5, <2>10, <3>1
    <3> QED
      BY <1>2, <1>4, <2>1, <2>10, <3>1, <3>2 DEF Present
  <2>11. CASE at[o] = "shift"
    <3>1. /\ gameID[o] = idOf[g] /\ Own(o) = a
          /\ Places(a, (1..n) \ {pos[o]}, InGame(g) \ {o}) /\ a[pos[o]] \in InGame(g)
      BY <1>4, <2>3, <2>11 DEF WorkOK, LeaveOK, Own
    <3>2. o \in InGame(g)
      BY <3>1 DEF InGame
    <3>3. 1..n = ((1..n) \ {pos[o]}) \cup {pos[o]}
      <4>1. LocalOK(o) /\ pos[o] \in Nat
        BY DEF IInv, LocalsOK, TypeOK
      <4>2. pos[o] >= 1 /\ pos[o] <= n
        BY <1>4, <2>3, <2>11, <4>1 DEF LocalOK, WorkOK, LeaveOK
      <4> QED
        BY <1>1, <4>1, <4>2
    <3>4. c \in {a[i] : i \in 1..n} <=> (c \in InGame(g) \ {o} \/ (c = o /\ a[pos[o]] = o))
      <4> HIDE DEF a, n
      <4>1. (\E i \in 1..n : a[i] = c) <=> (c \in InGame(g) \ {o} \/ (c = o /\ a[pos[o]] = o))
        BY <3>1, <3>2, <3>3 DEF Places
      <4> QED
        BY <4>1, Zenon
    <3> QED
      BY <1>2, <1>4, <2>1, <2>4, <2>11, <3>1, <3>4 DEF Present
  <2>12. CASE at[o] = "shrink"
    <3>1. /\ gameID[o] = idOf[g] /\ Own(o) = a /\ n = hdr[o].len + 1
          /\ Places(a, 1..hdr[o].len, InGame(g) \ {o}) /\ a[n] \in InGame(g)
      BY <1>4, <2>3, <2>12 DEF WorkOK, LeaveOK, OneLonger, OwnLists, Own
    <3>2. o \in InGame(g)
      BY <3>1 DEF InGame
    <3>3. 1..n = (1..hdr[o].len) \cup {n}
      <4>1. hdr[o].len \in Nat
        BY DEF IInv, TypeOK, Header
      <4> QED
        BY <3>1, <4>1
    <3>4. c \in {a[i] : i \in 1..n} <=> (c \in InGame(g) \ {o} \/ (c = o /\ a[n] = o))
      <4> HIDE DEF a, n
      <4>1. (\E i \in 1..n : a[i] = c) <=> (c \in InGame(g) \ {o} \/ (c = o /\ a[n] = o))
        BY <3>1, <3>2, <3>3 DEF Places
      <4> QED
        BY <4>1, Zenon
    <3> QED
      BY <1>2, <1>4, <2>1, <2>4, <2>12, <3>1, <3>4 DEF Present
  <2>13. CASE at[o] = "left"
    <3>1. Lists(g, InGame(g) \ {o})
      BY <1>4, <2>3, <2>13 DEF WorkOK, LeaveOK
    <3>2. Listed(g) = InGame(g) \ {o}
      BY <2>5, <2>13, <3>1
    <3> QED
      BY <1>2, <1>4, <2>1, <2>13, <3>2 DEF Present
  <2> QED
    BY <2>2, <2>6, <2>7, <2>8, <2>9, <2>10, <2>11, <2>12, <2>13 DEF Labels
<1> QED
  BY <1>3, <1>4 DEF Settled

\* So the lists and the handlers agree on the room of every client.
LEMMA RoomIsHome ==
  ASSUME IInv, SInv, NEW c \in Clients
  PROVE  RoomOf(c) = Home(c)
<1> DEFINE rooms == {g \in made : c \in Listed(g)}
<1>1. \A g \in made : g \in Games /\ idOf[g] # NoId
  BY SetsAssumption DEF IInv, TypeOK, MapOK
<1>2. \A g \in made : g \in rooms <=> IF game[c] = g THEN Present(c) ELSE gameID[c] = idOf[g]
  BY ListedExactly
<1>3. WorkOK(c) /\ LocalOK(c)
  BY DEF SInv, IInv, LocalsOK
<1>4. CASE Busy(c)
  <2>1. PICK h \in made : h = game[c]
    BY <1>3, <1>4 DEF LocalOK
  <2>2. gameID[c] \in {NoId, idOf[h]}
    <3>1. at[c] \in Labels \ {"idle", "gone"}
      BY <1>4 DEF IInv, TypeOK, Busy
    <3> QED
      BY <1>3, <2>1, <3>1 DEF WorkOK, CreateOK, JoinOK, LeaveOK, Labels
  <2>3. \A g \in made : g # h => gameID[c] # idOf[g]
    BY <1>1, <2>2 DEF SInv, UniqueIds
  <2>4. rooms = IF Present(c) THEN {h} ELSE {}
    BY <1>2, <2>1, <2>3
  <2> QED
    BY <1>4, <2>1, <2>4 DEF RoomOf, Home
<1>5. CASE ~Busy(c)
  <2>1. game[c] = NoGame /\ NoGame \notin made
    BY <1>1, <1>3, <1>5, SetsAssumption DEF WorkOK
  <2>2. rooms = {g \in made : gameID[c] = idOf[g]}
    BY <1>2, <2>1
  <2>3. CASE gameID[c] = NoId
    <3>1. rooms = {}
      BY <1>1, <2>2, <2>3
    <3> QED
      BY <1>5, <2>3, <3>1 DEF RoomOf, Home
  <2>4. CASE gameID[c] # NoId
    <3>1. gameID[c] \in KnownIds
      BY <2>4 DEF IInv, OwnGameExists
    <3>2. PICK h \in made : h = games[gameID[c]]
      BY <3>1 DEF IInv, MapOK
    <3>3. idOf[h] = gameID[c]
      BY <3>1, <3>2 DEF SInv, Filed
    <3>4. rooms = {h}
      BY <2>2, <3>3 DEF SInv, UniqueIds
    <3> QED
      BY <1>5, <2>4, <3>2, <3>4 DEF RoomOf, Home
  <2> QED
    BY <2>3, <2>4
<1> QED
  BY <1>4, <1>5

-----------------------------------------------------------------------------
(* One step of one handler *)

\* What it may mean for the lobby.
Stays(c) == made' = made /\ Home(c)' = Home(c)
Creates(c) == Home(c) = NoGame /\ \E g \in Games \ made : made' = made \cup {g} /\ Home(c)' = g
Enters(c) == made' = made /\ Home(c) = NoGame /\ Home(c)' \in made
Leaves(c) == made' = made /\ Home(c) # NoGame /\ Home(c)' = NoGame

LEMMA HomeAtLabel ==
  ASSUME NEW c \in Clients
  PROVE  /\ at[c] \in {"insert", "inserting", "unlocked", "started", "setelem", "joined", "scan",
             "search"}
              => Home(c) = game[c]
         /\ at[c] \in {"append", "grow", "store", "setlen", "left"} => Home(c) = NoGame
         /\ at[c] \in {"idle", "gone"}
              => Home(c) = IF gameID[c] = NoId THEN NoGame ELSE games[gameID[c]]
         /\ at[c] = "shift" => Home(c) = IF Own(c)[pos[c]] = c THEN game[c] ELSE NoGame
         /\ at[c] = "shrink"
              => Home(c) = IF Own(c)[slice[game[c]].len] = c THEN game[c] ELSE NoGame
BY DEF Home, Busy, Present

\* The same at the end of a step.
LEMMA HomeAtLabelNext ==
  ASSUME NEW c \in Clients
  PROVE  /\ at'[c] \in {"insert", "inserting", "unlocked", "started", "setelem", "joined", "scan",
             "search"}
              => Home(c)' = game'[c]
         /\ at'[c] \in {"append", "grow", "store", "setlen", "left"} => Home(c)' = NoGame
         /\ at'[c] \in {"idle", "gone"}
              => Home(c)' = IF gameID'[c] = NoId THEN NoGame ELSE games'[gameID'[c]]
         /\ at'[c] = "shift" => Home(c)' = IF Own(c)'[pos'[c]] = c THEN game'[c] ELSE NoGame
         /\ at'[c] = "shrink"
              => Home(c)' = IF Own(c)'[slice'[game'[c]].len] = c THEN game'[c] ELSE NoGame
BY DEF Home, Busy, Present

\* The rooms of the others stay theirs.
LEMMA OtherHomes ==
  ASSUME IInv, SInv, IInv', SInv', NEW c \in Clients, OthersUntouched(c),
         NEW d \in Clients \ {c}
  PROVE  Home(d)' = Home(d)
<1>1. /\ at'[d] = at[d] /\ game'[d] = game[d] /\ hdr'[d] = hdr[d] /\ pos'[d] = pos[d]
      /\ gameID'[d] = gameID[d]
  BY DEF OthersUntouched, Kept
<1>2. Busy(d)' = Busy(d)
  BY <1>1 DEF Busy
<1>3. CASE Busy(d)
  <2>1. PICK h \in made : h = game[d]
    BY <1>3 DEF IInv, LocalsOK, LocalOK
  <2>2. h # game[c] /\ h # game'[c]
    BY <1>1, <1>2, <1>3, <2>1 DEF SInv, NoOverlap
  <2>3. arrays'[h] = arrays[h] /\ slice'[h] = slice[h]
    BY <2>2 DEF OthersUntouched
  <2>4. Own(d)' = Own(d) /\ slice'[game'[d]] = slice[game[d]]
    BY <1>1, <2>1, <2>3 DEF Own
  <2>5. Present(d)' <=> Present(d)
    BY <1>1, <2>4 DEF Present
  <2>6. Home(d) = IF Present(d) THEN game[d] ELSE NoGame
    BY <1>3 DEF Home
  <2>7. Home(d)' = IF Present(d)' THEN game'[d] ELSE NoGame
    BY <1>2, <1>3 DEF Home
  <2> QED
    BY <1>1, <2>5, <2>6, <2>7
<1>4. CASE ~Busy(d) /\ gameID[d] = NoId
  BY <1>1, <1>2, <1>4 DEF Home
<1>5. CASE ~Busy(d) /\ gameID[d] # NoId
  <2>1. gameID[d] \in KnownIds /\ gameID[d] \in KnownIds'
    BY <1>1, <1>5 DEF IInv, OwnGameExists
  <2>2. PICK g \in made : g = games[gameID[d]]
    BY <2>1 DEF IInv, MapOK
  <2>3. PICK h \in made' : h = games'[gameID[d]]
    BY <2>1 DEF IInv, MapOK
  <2>4. idOf[g] = gameID[d] /\ idOf'[h] = gameID[d]
    BY <2>1, <2>2, <2>3 DEF SInv, Filed
  <2>5. g \in made' /\ idOf'[g] = idOf[g]
    BY DEF OthersUntouched
  <2>6. g = h
    BY <2>4, <2>5 DEF SInv, UniqueIds
  <2> QED
    BY <1>1, <1>2, <1>5, <2>2, <2>3, <2>6 DEF Home
<1> QED
  BY <1>3, <1>4, <1>5

LEMMA IdlingStays ==
  ASSUME NEW c \in Clients, Idling(c)
  PROVE  Stays(c)
<1>1. UNCHANGED <<shared, private, at, frame>>
  BY DEF Idling, CreateRefused, JoinRefused, LeaveRefused, StartRefused, StartGame,
         MapFault, Refuse, Request
<1>2. UNCHANGED <<games, made, arrays, slice, gameID, at, game, hdr, pos>>
  BY <1>1 DEF shared, private, frame
<1> QED
  BY <1>2 DEF Stays, Home, Busy, Present, Own

\* A client that is not in CreateNewGame, JoinGame or Disconnect.
LEMMA HomeOfIdle ==
  ASSUME IInv, SInv, NEW c \in Clients, at[c] = "idle"
  PROVE  /\ gameID[c] = NoId => Home(c) = NoGame
         /\ gameID[c] \in KnownIds => Home(c) = games[gameID[c]]
         /\ gameID[c] \notin KnownIds => Home(c) = NoGame /\ gameID[c] = NoId
<1>1. NoId \notin KnownIds
  BY SetsAssumption DEF KnownIds
<1>2. gameID[c] \in KnownIds \cup {NoId}
  BY DEF IInv, OwnGameExists
<1> QED
  BY <1>1, <1>2, HomeAtLabel

LEMMA MovingStays ==
  ASSUME IInv, SInv, SInv', NEW c \in Clients, Moving(c)
  PROVE  Stays(c)
<1>1. TypeOK /\ WorkOK(c) /\ LocalOK(c)
  BY DEF IInv, SInv, LocalsOK
<1>2. UNCHANGED <<games, made, arrays, slice, gameID>>
  BY <1>1, MovingTouches DEF shared, private
<1>3. CASE LockGames(c)
  <2>1. at[c] = "insert" /\ at'[c] = "inserting" /\ game'[c] = game[c]
    BY <1>1, <1>3 DEF LockGames, Continue, Goto, TypeOK, frame
  <2> QED
    BY <1>2, <2>1, HomeAtLabel, HomeAtLabelNext DEF Stays
<1>4. CASE FindGame(c)
  <2>1. at[c] = "idle" /\ gameID[c] = NoId /\ at'[c] = "append"
    BY <1>1, <1>4 DEF FindGame, Request, Goto, TypeOK
  <2> QED
    BY <1>2, <2>1, HomeOfIdle, HomeAtLabelNext DEF Stays
<1>5. CASE LeaveGame(c) \/ (EndHandler(c) /\ FindOwnGame(c))
  <2>1. /\ at[c] = "idle" /\ gameID[c] \in KnownIds
        /\ at'[c] = "scan" /\ game'[c] = games[gameID[c]]
    BY <1>1, <1>5 DEF LeaveGame, EndHandler, FindOwnGame, Request, Goto, TypeOK
  <2> QED
    BY <1>2, <2>1, HomeOfIdle, HomeAtLabelNext DEF Stays
<1>6. CASE EndHandler(c) /\ ~FindOwnGame(c)
  <2>1. at[c] = "idle" /\ gameID[c] \notin KnownIds /\ at'[c] = "gone"
    BY <1>1, <1>6 DEF EndHandler, Goto, TypeOK
  <2> QED
    BY <1>2, <2>1, HomeOfIdle, HomeAtLabelNext DEF Stays
<1>7. CASE LoadHeader(c)
  <2>1. at[c] = "append" /\ at'[c] \in {"grow", "store"}
    BY <1>1, <1>7 DEF LoadHeader, Continue, Goto, TypeOK
  <2> QED
    BY <1>2, <2>1, HomeAtLabel, HomeAtLabelNext DEF Stays
<1>8. CASE LoadClients(c)
  <2>1. at[c] = "scan" /\ at'[c] = "search" /\ game'[c] = game[c]
    BY <1>1, <1>8 DEF LoadClients, Continue, Goto, TypeOK
  <2> QED
    BY <1>2, <2>1, HomeAtLabel, HomeAtLabelNext DEF Stays
<1>9. CASE SearchClient(c)
  <2>1. /\ at[c] = "search" /\ game'[c] = game[c] /\ hdr'[c] = hdr[c]
        /\ \/ at'[c] = "shrink" \/ at'[c] = "search"
           \/ at'[c] = "shift" /\ pos'[c] = pos[c] /\ Own(c)[pos[c]] = c
    BY <1>1, <1>9 DEF SearchClient, Continue, Goto, TypeOK, Own
  <2>2. Own(c)' = Own(c)
    BY <1>2, <2>1 DEF Own
  <2>3. at'[c] # "shrink"
    <3>1. hdr[c] = slice[game[c]] /\ hdr[c].len \in Nat
      BY <1>1, <2>1 DEF WorkOK, LeaveOK, TypeOK, Header
    <3>2. at'[c] = "shrink" => OneLonger(c)'
      BY DEF SInv, WorkOK, LeaveOK
    <3> QED
      BY <1>2, <2>1, <3>1, <3>2 DEF OneLonger
  <2> QED
    BY <1>2, <2>1, <2>2, <2>3, HomeAtLabel, HomeAtLabelNext DEF Stays
<1>10. CASE EndShift(c)
  <2>1. /\ at[c] = "shift" /\ pos[c] >= hdr[c].len /\ at'[c] = "shrink" /\ game'[c] = game[c]
        /\ hdr'[c] = [hdr[c] EXCEPT !.len = hdr[c].len - 1]
    BY <1>1, <1>10 DEF EndShift, Continue, Goto, TypeOK
  <2>2. /\ hdr[c] = slice[game[c]] /\ hdr[c].len \in Nat /\ pos[c] \in Nat
        /\ pos[c] <= hdr[c].len /\ hdr[c] = [arr |-> hdr[c].arr, len |-> hdr[c].len]
    BY <1>1, <2>1 DEF WorkOK, LeaveOK, LocalOK, TypeOK, Header
  <2>3. pos[c] = slice'[game'[c]].len
    BY <1>2, <2>1, <2>2
  <2>4. hdr'[c].arr = hdr[c].arr
    BY <2>1, <2>2
  <2>5. Own(c)' = Own(c)
    BY <1>2, <2>1, <2>4 DEF Own
  <2> QED
    BY <1>2, <2>1, <2>3, <2>5, HomeAtLabel, HomeAtLabelNext DEF Stays
<1> QED
  BY <1>3, <1>4, <1>5, <1>6, <1>7, <1>8, <1>9, <1>10 DEF Moving

LEMMA HandlerStepInLobby ==
  ASSUME IInv, SInv, IInv', SInv', NoOverlap', UniqueIds', NEW c \in Clients, HandlerStep(c)
  PROVE  Stays(c) \/ Creates(c) \/ Enters(c) \/ Leaves(c)
<1>1. TypeOK /\ WorkOK(c) /\ LocalOK(c)
  BY DEF IInv, SInv, LocalsOK
<1>2. CASE Idling(c)
  BY <1>2, IdlingStays
<1>3. CASE Moving(c)
  BY <1>3, MovingStays
<1>4. CASE NewGame(c)
  <2>1. at[c] = "idle" /\ gameID[c] = NoId /\ at'[c] = "insert"
    BY <1>1, <1>4 DEF NewGame, Request, Goto, TypeOK
  <2>2. PICK g \in Games \ made : made' = made \cup {g} /\ game'[c] = g
    BY <1>1, <1>4 DEF NewGame, TypeOK
  <2> QED
    BY <2>1, <2>2, HomeOfIdle, HomeAtLabelNext DEF Creates
<1>5. CASE UnlockGames(c) \/ StartReadLoop(c)
  <2>1. /\ at[c] \in {"inserting", "unlocked"} /\ at'[c] \in {"unlocked", "started"}
        /\ made' = made /\ game'[c] = game[c]
    BY <1>1, <1>5 DEF UnlockGames, StartReadLoop, Continue, Goto, TypeOK, frame
  <2> QED
    BY <2>1, HomeAtLabel, HomeAtLabelNext DEF Stays
<1>6. CASE GrowArray(c)
  <2>1. at[c] = "grow" /\ at'[c] = "store" /\ made' = made
    BY <1>1, <1>6 DEF GrowArray, Continue, Goto, TypeOK
  <2> QED
    BY <2>1, HomeAtLabel, HomeAtLabelNext DEF Stays
<1>7. CASE StoreElement(c)
  <2>1. /\ \/ at[c] = "store" /\ at'[c] = "setlen"
           \/ at[c] = "setelem" /\ at'[c] = "joined"
        /\ made' = made /\ game'[c] = game[c]
    BY <1>1, <1>7 DEF StoreElement, Continue, Goto, TypeOK, frame
  <2> QED
    BY <2>1, HomeAtLabel, HomeAtLabelNext DEF Stays
<1>8. CASE PublishLength(c)
  <2>1. /\ \/ at[c] = "store" /\ at'[c] = "setelem"
           \/ at[c] = "setlen" /\ at'[c] = "joined"
        /\ made' = made /\ game'[c] = game[c]
    BY <1>1, <1>8 DEF PublishLength, Continue, Goto, TypeOK, frame
  <2>2. game[c] \in made
    BY <1>1, <2>1 DEF LocalOK, Busy
  <2> QED
    BY <2>1, <2>2, HomeAtLabel, HomeAtLabelNext DEF Enters
<1>9. CASE FinishCreate(c) \/ FinishJoin(c)
  <2>1. /\ at[c] \in {"started", "joined"} /\ at'[c] = "idle" /\ gameID'[c] = idOf[game[c]]
        /\ made' = made /\ games' = games
    BY <1>1, <1>9 DEF FinishCreate, FinishJoin, Continue, Goto, TypeOK, shared
  <2>2. game[c] \in made /\ game[c] \in Published
    BY <1>1, <2>1 DEF LocalOK, Busy
  <2>3. games[idOf[game[c]]] = game[c] /\ idOf[game[c]] # NoId
    BY <2>2, FoundById, SetsAssumption DEF SInv, IInv, MapOK
  <2> QED
    BY <2>1, <2>3, HomeAtLabel, HomeAtLabelNext DEF Stays
<1>10. CASE MoveDown(c)
  <2>1. at[c] = "shift" /\ at'[c] = "shift" /\ made' = made /\ game'[c] = game[c]
    BY <1>1, <1>10 DEF MoveDown, Continue, Goto, TypeOK
  <2>2. Home(c)' = NoGame
    BY <1>10, <2>1, MoveDownSerial, HomeAtLabelNext
  <2> QED
    BY <2>1, <2>2 DEF Stays, Leaves
<1>11. CASE PublishShorter(c) \/ FinishLeave(c)
  <2>1. /\ \/ at[c] = "shrink" /\ at'[c] = "left"
           \/ at[c] = "left" /\ at'[c] \in {"idle", "gone"} /\ gameID'[c] = NoId
        /\ made' = made
    BY <1>1, <1>11 DEF PublishShorter, FinishLeave, Continue, Goto, AfterLeave, TypeOK, shared
  <2>2. Home(c)' = NoGame
    BY <2>1, HomeAtLabelNext
  <2> QED
    BY <2>1, <2>2 DEF Stays, Leaves
<1> QED
  BY <1>2, <1>3, <1>4, <1>5, <1>6, <1>7, <1>8, <1>9, <1>10, <1>11
  DEF HandlerStep, CreateStep, JoinStep, LeaveStep, StartStep, Idling, Moving

-----------------------------------------------------------------------------
(* The theorem *)

HomeOK == \A c \in Clients : RoomOf(c) = Home(c)

\* A handler moves nobody but its client.
LEMMA RoomsMove ==
  ASSUME IInv, SInv, IInv', SInv', HomeOK, HomeOK', NEW c \in Clients, OthersUntouched(c)
  PROVE  /\ RoomOf(c) = Home(c) /\ RoomOf(c)' = Home(c)'
         /\ \A d \in Clients \ {c} : RoomOf(d)' = RoomOf(d)
<1>1. \A d \in Clients \ {c} : Home(d)' = Home(d)
  BY OtherHomes
<1>2. \A d \in Clients : RoomOf(d) = Home(d) /\ RoomOf(d)' = Home(d)'
  BY DEF HomeOK
<1> QED
  BY <1>1, <1>2

LEMMA HandlerStepImplements ==
  ASSUME IInv, SInv, IInv', SInv', HomeOK, HomeOK', NEW c \in Clients, HandlerStep(c),
         OthersUntouched(c)
  PROVE  [Abstract!LobbyNext]_(Abstract!lobbyVars)
<1> DEFINE room == [d \in Clients |-> RoomOf(d)]
<1>1. /\ room[c] = Home(c) /\ room'[c] = Home(c)'
      /\ \A d \in Clients \ {c} : room'[d] = room[d]
  BY RoomsMove
<1>2. \A r : Home(c)' = r => room' = [room EXCEPT ![c] = r]
  <2>1. DOMAIN room = Clients /\ room = [d \in Clients |-> room[d]]
    OBVIOUS
  <2>2. room' = [d \in Clients |-> IF d = c THEN Home(c)' ELSE room[d]]
    BY <1>1
  <2> QED
    BY <2>2
<1>3. CASE Stays(c)
  <2>1. room' = room
    BY <1>1, <1>3 DEF Stays
  <2> QED
    BY <1>3, <2>1 DEF Stays, Abstract!lobbyVars
<1>4. CASE Creates(c)
  <2>1. Abstract!Create(c)
    BY <1>1, <1>2, <1>4 DEF Creates, Abstract!Create
  <2> QED
    BY <2>1 DEF Abstract!LobbyNext
<1>5. CASE Enters(c)
  <2>1. Abstract!Join(c)
    BY <1>1, <1>2, <1>5 DEF Enters, Abstract!Join
  <2> QED
    BY <2>1 DEF Abstract!LobbyNext
<1>6. CASE Leaves(c)
  <2>1. Abstract!Leave(c)
    BY <1>1, <1>2, <1>6 DEF Leaves, Abstract!Leave
  <2> QED
    BY <2>1 DEF Abstract!LobbyNext
<1>7. NoOverlap' /\ UniqueIds'
  BY DEF SInv
<1> QED
  BY <1>3, <1>4, <1>5, <1>6, <1>7, HandlerStepInLobby

\* The relay's own steps leave the lists alone.
LEMMA UnchangedImplements ==
  ASSUME UNCHANGED <<shared, private, at, frame>>
  PROVE  UNCHANGED Abstract!lobbyVars
<1>1. UNCHANGED <<made, arrays, slice, at, game, hdr>>
  BY DEF shared, private, frame
<1>2. \A d \in Clients : RoomOf(d)' = RoomOf(d)
  BY <1>1 DEF RoomOf, Listed, PendingClient
<1> QED
  BY <1>1, <1>2 DEF Abstract!lobbyVars

LEMMA RelayStepImplements ==
  ASSUME IInv, SInv, IInv', SInv', HomeOK, HomeOK',
         [RelayNext /\ NoOverlap' /\ UniqueIds']_relayVars
  PROVE  [Abstract!LobbyNext]_(Abstract!lobbyVars)
<1>1. CASE RelayNext /\ NoOverlap' /\ UniqueIds' /\ \E c \in Clients : HandlerStep(c)
  BY <1>1, HandlerStepSerial, HandlerStepImplements
<1>2. CASE RelayNext /\ ~\E c \in Clients : HandlerStep(c)
  BY <1>2, RelayStepTouches, UnchangedImplements
<1>3. CASE UNCHANGED relayVars
  BY <1>3, UnchangedImplements DEF relayVars, vars
<1> QED
  BY <1>1, <1>2, <1>3

LEMMA InitImplements == RelayInit => Abstract!LobbyInit
<1> SUFFICES ASSUME RelayInit PROVE Abstract!LobbyInit
  OBVIOUS
<1>1. made = {}
  BY DEF RelayInit, Init
<1>2. \A c \in Clients : RoomOf(c) = NoGame
  BY <1>1 DEF RoomOf
<1> QED
  BY <1>1, <1>2 DEF Abstract!LobbyInit

\* As long as membership operations on one game do not overlap, the many steps
\* in which CreateNewGame, JoinGame and Disconnect take the lists apart and put
\* them together look, to anyone who reads the lists, like single steps of the
\* client itself between being outside every room and being in one.
THEOREM LobbyImplemented == NoOverlapRelaySpec => ImplementsLobby
<1>1. IInv /\ SInv => HomeOK
  BY RoomIsHome DEF HomeOK
<1>2. /\ IInv /\ SInv /\ HomeOK /\ (IInv /\ SInv /\ HomeOK)'
      /\ [RelayNext /\ NoOverlap' /\ UniqueIds']_relayVars
      => [Abstract!LobbyNext]_(Abstract!lobbyVars)
  BY RelayStepImplements
<1> QED
  BY <1>1, <1>2, InitImplements, SerialInvariance, PTL
  DEF NoOverlapRelaySpec, ImplementsLobby, Abstract!LobbySpec
=============================================================================
