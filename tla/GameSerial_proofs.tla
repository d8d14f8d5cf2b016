--------------------------- MODULE GameSerial_proofs ---------------------------
(***************************************************************************)
(* Proofs about the schedules in which no two handlers work on one game at *)
(* a time and ids do not collide (NoOverlapRelaySpec): game.clients lists  *)
(* exactly the clients of the game.                                        *)
(*                                                                         *)
(* MembersExact speaks of settled games only and is far from inductive:    *)
(* the lists are taken apart and put together in many steps, inside an     *)
(* array that other headers share.  SInv says, for each label a handler    *)
(* can be at, which clients the list and the handler's own header have.    *)
(***************************************************************************)
EXTENDS GameRelay, GameManager_proofs, FiniteSetTheorems

-----------------------------------------------------------------------------
(* The inductive invariant *)

\* The elements of a at the indices I are the members of S, each once.
Places(a, I, S) ==
  /\ \A i \in I : a[i] \in S
  /\ \A d \in S : \E i \in I : a[i] = d
  /\ \A i, j \in I : a[i] = a[j] => i = j

InGame(g) == {c \in Clients : gameID[c] = idOf[g]}

\* game.clients has the members of S, each once.
Lists(g, S) == Places(arrays[g][slice[g].arr], 1..slice[g].len, S)

\* ... and so has the header that the handler of c holds.
Own(c) == arrays[game[c]][hdr[c].arr]
OwnLists(c, S) == Places(Own(c), 1..hdr[c].len, S)

\* The header in game.clients is one longer than the handler's.
OneLonger(c) == slice[game[c]].arr = hdr[c].arr /\ slice[game[c]].len = hdr[c].len + 1

CreateOK(c) ==
  at[c] \in {"insert", "inserting", "unlocked", "started"} =>
    gameID[c] = NoId /\ InGame(game[c]) = {} /\ Lists(game[c], {c})

JoinOK(c) ==
  LET g == game[c]
      S == InGame(g)
  IN  /\ at[c] \in {"append", "grow", "store", "setlen", "setelem", "joined"} => gameID[c] = NoId
      /\ at[c] \in {"append", "grow", "store", "setlen"} => Lists(g, S)
      /\ at[c] = "grow" => hdr[c] = slice[g]
      /\ at[c] \in {"store", "setlen"} => slice[g].len = hdr[c].len
      /\ at[c] \in {"store", "setlen", "setelem"} => OwnLists(c, S)
      /\ at[c] = "setlen" => Own(c)[hdr[c].len + 1] = c
      /\ at[c] = "setelem" => OneLonger(c)
      /\ at[c] = "joined" => Lists(g, S \cup {c})

LeaveOK(c) ==
  LET g == game[c]
      S == InGame(g)
  IN  /\ at[c] \in {"scan", "search", "shift", "shrink", "left"} => gameID[c] = idOf[g]
      /\ at[c] \in {"scan", "search"} => Lists(g, S)
      /\ at[c] \in {"search", "shift"} => hdr[c] = slice[g]
      /\ at[c] = "search" => \A i \in 1..pos[c] - 1 : Own(c)[i] # c
      /\ at[c] = "shift" => /\ Places(Own(c), (1..hdr[c].len) \ {pos[c]}, S \ {c})
                            /\ Own(c)[pos[c]] \in S
      /\ at[c] = "shrink" => /\ OneLonger(c) /\ OwnLists(c, S \ {c})
                             /\ Own(c)[slice[g].len] \in S
      /\ at[c] = "left" => Lists(g, S \ {c})

WorkOK(c) ==
  /\ CreateOK(c) /\ JoinOK(c) /\ LeaveOK(c)
  /\ ~Busy(c) => game[c] = NoGame

\* A game nobody works on lists its clients.
AtRest == \A g \in made : Settled(g) => Lists(g, InGame(g))

\* m.games files each game under its own id.
Filed == \A id \in KnownIds : idOf[games[id]] = id

SInv == NoOverlap /\ UniqueIds /\ Filed /\ AtRest /\ \A c \in Clients : WorkOK(c)

-----------------------------------------------------------------------------
(* Lists as arrays *)

LEMMA PlacesSame ==
  ASSUME NEW a, NEW b, NEW I, NEW S, Places(a, I, S), \A i \in I : b[i] = a[i]
  PROVE  Places(b, I, S)
BY DEF Places

\* append: one more element, behind the others.
LEMMA PlacesAdd ==
  ASSUME NEW a, NEW n \in Nat, NEW S, NEW c, c \notin S, Places(a, 1..n, S), a[n + 1] = c
  PROVE  Places(a, 1..n + 1, S \cup {c})
<1>1. 1..n + 1 = (1..n) \cup {n + 1} /\ n + 1 \notin 1..n
  OBVIOUS
<1>2. \A i \in 1..n : a[i] \in S
  BY DEF Places
<1>3. \A i \in 1..n + 1 : a[i] \in S \cup {c}
  BY <1>1, <1>2
<1>4. \A d \in S \cup {c} : \E i \in 1..n + 1 : a[i] = d
  BY <1>1 DEF Places
<1>5. ASSUME NEW i \in 1..n + 1, NEW j \in 1..n + 1, a[i] = a[j]
      PROVE  i = j
  <2>1. i = n + 1 <=> a[i] = c
    BY <1>1, <1>2
  <2>2. j = n + 1 <=> a[j] = c
    BY <1>1, <1>2
  <2>3. CASE a[i] = c
    BY <1>5, <2>1, <2>2, <2>3
  <2>4. CASE a[i] # c
    <3>1. i \in 1..n /\ j \in 1..n
      BY <1>1, <1>5, <2>1, <2>2, <2>4
    <3> QED
      BY <1>5, <3>1 DEF Places
  <2> QED
    BY <2>3, <2>4
<1> QED
  BY <1>3, <1>4, <1>5 DEF Places

\* removeClient has found its client at index p.
LEMMA PlacesDrop ==
  ASSUME NEW a, NEW I, NEW S, Places(a, I, S), NEW p \in I, NEW c, a[p] = c
  PROVE  Places(a, I \ {p}, S \ {c})
BY DEF Places

\* The element behind the gap at p moves into it: the gap is at p + 1.
LEMMA PlacesShift ==
  ASSUME NEW a, NEW b, NEW n \in Nat, NEW p \in Nat, p >= 1, p < n, NEW S,
         Places(a, (1..n) \ {p}, S),
         b[p] = a[p + 1], \A i \in (1..n) \ {p} : b[i] = a[i]
  PROVE  Places(b, (1..n) \ {p + 1}, S)
<1> DEFINE I == (1..n) \ {p}
           J == (1..n) \ {p + 1}
<1>1. /\ p \in J /\ p + 1 \in I
      /\ \A i \in J : i # p => i \in I
      /\ \A i \in I : i # p + 1 => i \in J /\ i # p
      /\ \A i \in I : b[i] = a[i]
  OBVIOUS
<1>2. /\ \A i \in I : a[i] \in S
      /\ \A d \in S : \E i \in I : a[i] = d
      /\ \A i, j \in I : a[i] = a[j] => i = j
  BY DEF Places
<1>3. \A i \in J : i # p + 1
  OBVIOUS
<1> HIDE DEF I, J
<1>4. \A i \in J : b[i] \in S
  BY <1>1, <1>2
<1>5. \A d \in S : \E i \in J : b[i] = d
  <2> TAKE d \in S
  <2>1. PICK i \in I : a[i] = d
    BY <1>2
  <2>2. CASE i = p + 1
    BY <1>1, <2>1, <2>2
  <2>3. CASE i # p + 1
    BY <1>1, <2>1, <2>3
  <2> QED
    BY <2>2, <2>3
<1>6. \A i, j \in J : b[i] = b[j] => i = j
  BY <1>1, <1>2, <1>3
<1> QED
  BY <1>4, <1>5, <1>6 DEF Places, J

\* With the gap at the end, the list is one shorter.
LEMMA PlacesShrink ==
  ASSUME NEW a, NEW n \in Nat, n >= 1, NEW S, Places(a, (1..n) \ {n}, S)
  PROVE  Places(a, 1..n - 1, S)
<1>1. (1..n) \ {n} = 1..n - 1
  OBVIOUS
<1> QED
  BY <1>1

-----------------------------------------------------------------------------
(* What a step of the handler of c leaves to the others *)

\* ... their locals, their clients, and every game that is not c's.
OthersUntouched(c) ==
  /\ \A d \in Clients \ {c} : Kept(d) /\ gameID'[d] = gameID[d]
  /\ made \subseteq made' /\ \A h \in made : idOf'[h] = idOf[h]
  /\ \A h \in made' \ made : h = game'[c]
  /\ \A h \in made : h # game[c] /\ h # game'[c] =>
       /\ arrays'[h] = arrays[h] /\ slice'[h] = slice[h]
       /\ InGame(h)' = InGame(h)

\* Another handler stays what it was: its game is not the one c works on.
LEMMA OthersKeep ==
  ASSUME IInv, SInv, NoOverlap', NEW c \in Clients, OthersUntouched(c),
         NEW d \in Clients \ {c}
  PROVE  WorkOK(d)'
<1>1. /\ at'[d] = at[d] /\ game'[d] = game[d] /\ hdr'[d] = hdr[d] /\ pos'[d] = pos[d]
      /\ gameID'[d] = gameID[d]
  BY DEF OthersUntouched, Kept
<1>2. Busy(d)' = Busy(d)
  BY <1>1 DEF Busy
<1>3. WorkOK(d)
  BY DEF SInv
<1>4. CASE ~Busy(d)
  <2>1. at'[d] \in {"idle", "gone"} /\ game'[d] = NoGame
    BY <1>1, <1>3, <1>4 DEF Busy, WorkOK
  <2> QED
    BY <2>1 DEF WorkOK, CreateOK, JoinOK, LeaveOK
<1>5. CASE Busy(d)
  <2>1. PICK h \in made : h = game[d]
    BY <1>5 DEF IInv, LocalsOK, LocalOK
  <2>2. h # game[c] /\ h # game'[c]
    BY <1>1, <1>2, <1>5, <2>1 DEF SInv, NoOverlap
  <2>3. /\ arrays'[h] = arrays[h] /\ slice'[h] = slice[h] /\ idOf'[h] = idOf[h]
        /\ InGame(h)' = InGame(h)
    BY <2>2 DEF OthersUntouched
  <2>4. h = game'[d]
    BY <1>1, <2>1
  <2>5. CreateOK(d)'
    BY <1>1, <1>3, <2>1, <2>3, <2>4 DEF WorkOK, CreateOK, Lists
  <2>6. JoinOK(d)'
    BY <1>1, <1>3, <2>1, <2>3, <2>4 DEF WorkOK, JoinOK, Lists, Own, OwnLists, OneLonger
  <2>7. LeaveOK(d)'
    BY <1>1, <1>3, <2>1, <2>3, <2>4 DEF WorkOK, LeaveOK, Lists, Own, OwnLists, OneLonger
  <2> QED
    BY <1>2, <1>5, <2>5, <2>6, <2>7 DEF WorkOK
<1> QED
  BY <1>4, <1>5

\* So a step keeps the invariant when it does right by the games of c.
LEMMA SerialStep ==
  ASSUME IInv, SInv, NoOverlap', UniqueIds', NEW c \in Clients, OthersUntouched(c),
         Filed', WorkOK(c)',
         \A h \in made : h = game[c] /\ h # game'[c] => Lists(h, InGame(h))'
  PROVE  SInv' /\ OthersUntouched(c)
<1>1. ASSUME NEW d \in Clients
      PROVE  WorkOK(d)'
  BY OthersKeep
<1>2. ASSUME NEW h \in made', Settled(h)'
      PROVE  Lists(h, InGame(h))'
  <2>1. h # game'[c]
    BY <1>2 DEF Settled
  <2>2. h \in made
    BY <2>1 DEF OthersUntouched
  <2>3. CASE h = game[c]
    BY <2>1, <2>2, <2>3
  <2>4. CASE h # game[c]
    <3>1. /\ arrays'[h] = arrays[h] /\ slice'[h] = slice[h]
          /\ InGame(h)' = InGame(h)
      BY <2>1, <2>2, <2>4 DEF OthersUntouched
    <3>2. Settled(h)
      <4>1. \A d \in Clients \ {c} : game'[d] = game[d]
        BY DEF OthersUntouched, Kept
      <4> QED
        BY <1>2, <2>4, <4>1 DEF Settled
    <3>3. Lists(h, InGame(h))
      BY <2>2, <3>2 DEF SInv, AtRest
    <3> QED
      BY <3>1, <3>3 DEF Lists
  <2> QED
    BY <2>3, <2>4
<1> QED
  BY <1>1, <1>2 DEF SInv, AtRest

\* A step that only moves a handler and changes its locals.
LEMMA LocalSerialStep ==
  ASSUME IInv, SInv, NoOverlap', UniqueIds', NEW c \in Clients,
         UNCHANGED <<shared, private>>, \A d \in Clients \ {c} : Kept(d),
         WorkOK(c)', game[c] \in made => game'[c] = game[c]
  PROVE  SInv' /\ OthersUntouched(c)
<1>1. OthersUntouched(c)
  BY DEF OthersUntouched, InGame, shared, private
<1>2. Filed'
  BY DEF SInv, Filed, KnownIds, shared
<1> QED
  BY <1>1, <1>2, SerialStep

\* A step that touches no handler and no game.
LEMMA UnchangedSerial ==
  ASSUME SInv, UNCHANGED <<shared, private, at, frame>>
  PROVE  SInv'
<1>1. /\ NoOverlap' /\ UniqueIds' /\ Filed'
  BY DEF SInv, NoOverlap, Busy, UniqueIds, Filed, KnownIds, shared, frame
<1>2. AtRest'
  BY DEF SInv, AtRest, Settled, Lists, InGame, shared, private, frame
<1>3. ASSUME NEW d \in Clients
      PROVE  WorkOK(d)'
  <2>1. WorkOK(d)
    BY DEF SInv
  <2>2. UNCHANGED <<made, idOf, arrays, slice, running, gameID, at, game, hdr, pos>>
    BY DEF shared, private, frame
  <2>3. CreateOK(d)'
    BY <2>1, <2>2 DEF WorkOK, CreateOK, Lists, InGame
  <2>4. JoinOK(d)'
    BY <2>1, <2>2 DEF WorkOK, JoinOK, Lists, Own, OwnLists, OneLonger, InGame
  <2>5. LeaveOK(d)'
    BY <2>1, <2>2 DEF WorkOK, LeaveOK, Lists, Own, OwnLists, OneLonger, InGame
  <2> QED
    BY <2>1, <2>2, <2>3, <2>4, <2>5 DEF WorkOK, Busy
<1> QED
  BY <1>1, <1>2, <1>3 DEF SInv

-----------------------------------------------------------------------------
(* Steps that only move a handler *)

LEMMA MovingTouches ==
  ASSUME TypeOK, NEW c \in Clients, Moving(c)
  PROVE  /\ UNCHANGED <<shared, private>>
         /\ \A d \in Clients \ {c} : Kept(d)
<1>1. UNCHANGED <<shared, private>>
  BY DEF Moving, LockGames, FindGame, LoadHeader, LeaveGame, FindOwnGame, EndHandler,
         LoadClients, SearchClient, EndShift, Continue
<1>2. \A d \in Clients \ {c} : Kept(d)
  BY DEF Moving, LockGames, FindGame, LoadHeader, LeaveGame, FindOwnGame, EndHandler,
         LoadClients, SearchClient, EndShift, Continue, Request, Goto, Kept, TypeOK, frame
<1> QED
  BY <1>1, <1>2

\* A handler that enters a game finds it settled.
LEMMA FoundGame ==
  ASSUME TypeOK, SInv, NoOverlap', NEW c \in Clients, ~Busy(c), Busy(c)',
         NEW g \in made, game'[c] = g, \A d \in Clients \ {c} : Kept(d)
  PROVE  Lists(g, InGame(g))
<1>1. game[c] = NoGame /\ NoGame # g
  BY SetsAssumption DEF SInv, WorkOK, TypeOK
<1>2. \A d \in Clients \ {c} : game[d] # g
  BY DEF NoOverlap, Kept
<1>3. Settled(g)
  BY <1>1, <1>2 DEF Settled
<1> QED
  BY <1>3 DEF SInv, AtRest

LEMMA EntersSerial ==
  ASSUME IInv, SInv, NoOverlap', UniqueIds', NEW c \in Clients,
         FindGame(c) \/ LeaveGame(c) \/ (at[c] = "idle" /\ FindOwnGame(c)),
         UNCHANGED <<shared, private>>, \A d \in Clients \ {c} : Kept(d)
  PROVE  SInv' /\ OthersUntouched(c)
<1>1. TypeOK /\ at[c] = "idle"
  BY DEF IInv, FindGame, LeaveGame, Request
<1>2. PICK id \in KnownIds :
        /\ game' = [game EXCEPT ![c] = games[id]]
        /\ \/ gameID[c] = NoId /\ at' = [at EXCEPT ![c] = "append"]
           \/ gameID[c] = id /\ at' = [at EXCEPT ![c] = "scan"]
  BY DEF FindGame, LeaveGame, FindOwnGame, Goto
<1>3. PICK g \in made : g = games[id]
  BY DEF IInv, MapOK
<1>4. /\ game'[c] = g
      /\ \/ gameID[c] = NoId /\ at'[c] = "append"
         \/ gameID[c] = idOf[g] /\ at'[c] = "scan"
  BY <1>1, <1>2, <1>3 DEF TypeOK, SInv, Filed
<1>5. Lists(g, InGame(g))
  BY <1>1, <1>4, FoundGame DEF Busy
<1>6. gameID'[c] = gameID[c] /\ idOf'[g] = idOf[g] /\ Lists(g, InGame(g))'
  BY <1>5 DEF Lists, InGame, shared, private
<1>7. WorkOK(c)'
  BY <1>4, <1>6 DEF WorkOK, Busy, CreateOK, JoinOK, LeaveOK
<1>8. game[c] \notin made
  BY <1>1, SetsAssumption DEF SInv, WorkOK, Busy, TypeOK
<1> QED
  BY <1>7, <1>8, LocalSerialStep

LEMMA LoadsSerial ==
  ASSUME IInv, SInv, NoOverlap', UniqueIds', NEW c \in Clients,
         LoadHeader(c) \/ LoadClients(c),
         UNCHANGED <<shared, private>>, \A d \in Clients \ {c} : Kept(d)
  PROVE  SInv' /\ OthersUntouched(c)
<1>1. TypeOK /\ WorkOK(c)
  BY DEF IInv, SInv
<1>2. /\ \/ at[c] = "append" /\ at'[c] \in {"grow", "store"}
         \/ at[c] = "scan" /\ at'[c] = "search" /\ pos'[c] = 1
      /\ hdr'[c] = slice[game[c]]
      /\ game'[c] = game[c]
  BY <1>1 DEF LoadHeader, LoadClients, Continue, Goto, TypeOK
<1>3. PICK g \in made : g = game[c]
  BY <1>2 DEF IInv, LocalsOK, LocalOK, Busy
<1>4. Lists(g, InGame(g)) /\ \/ at[c] = "append" /\ gameID[c] = NoId
                             \/ at[c] = "scan" /\ gameID[c] = idOf[g]
  BY <1>1, <1>2, <1>3 DEF WorkOK, JoinOK, LeaveOK
<1>5. /\ gameID'[c] = gameID[c] /\ idOf'[g] = idOf[g] /\ slice'[g] = slice[g]
      /\ Lists(g, InGame(g))'
  BY <1>4 DEF Lists, InGame, shared, private
<1>6. game'[c] = g /\ hdr'[c] = slice'[g]
  BY <1>2, <1>3, <1>5
<1>7. OwnLists(c, InGame(g))'
  BY <1>5, <1>6 DEF OwnLists, Own, Lists
<1>8. CASE at[c] = "append"
  <2>1. at'[c] \in {"grow", "store"} /\ gameID'[c] = NoId
    BY <1>2, <1>4, <1>5, <1>8
  <2>2. WorkOK(c)'
    BY <1>5, <1>6, <1>7, <2>1 DEF WorkOK, Busy, CreateOK, JoinOK, LeaveOK
  <2> QED
    BY <1>2, <2>2, LocalSerialStep
<1>9. CASE at[c] = "scan"
  <2>1. at'[c] = "search" /\ gameID'[c] = idOf'[g] /\ pos'[c] = 1
    BY <1>2, <1>4, <1>5, <1>9
  <2>2. 1..pos'[c] - 1 = {}
    BY <2>1
  <2>3. WorkOK(c)'
    BY <1>5, <1>6, <1>7, <2>1, <2>2 DEF WorkOK, Busy, CreateOK, JoinOK, LeaveOK
  <2> QED
    BY <1>2, <2>3, LocalSerialStep
<1> QED
  BY <1>2, <1>8, <1>9

\* The search ends at the client: it is in the list.
LEMMA SearchSerial ==
  ASSUME IInv, SInv, NoOverlap', UniqueIds', NEW c \in Clients, SearchClient(c),
         UNCHANGED <<shared, private>>, \A d \in Clients \ {c} : Kept(d)
  PROVE  SInv' /\ OthersUntouched(c)
<1> DEFINE i == pos[c]
           ended == i > hdr[c].len
           isSelf == ~ended /\ Own(c)[i] = c
<1>1. TypeOK /\ WorkOK(c)
  BY DEF IInv, SInv
<1>2. /\ at[c] = "search"
      /\ at'[c] = IF ended THEN "shrink" ELSE IF isSelf THEN "shift" ELSE "search"
      /\ pos'[c] = IF ended \/ isSelf THEN i ELSE i + 1
      /\ hdr'[c] = hdr[c] /\ game'[c] = game[c]
  BY <1>1 DEF SearchClient, Continue, Goto, TypeOK, Own
<1>3. PICK g \in made : g = game[c]
  BY <1>2 DEF IInv, LocalsOK, LocalOK, Busy
<1>4. /\ i \in Nat /\ i >= 1 /\ hdr[c].len \in Nat
      /\ gameID[c] = idOf[g] /\ hdr[c] = slice[g]
      /\ Lists(g, InGame(g))
      /\ \A k \in 1..i - 1 : Own(c)[k] # c
  BY <1>1, <1>2, <1>3 DEF IInv, LocalsOK, LocalOK, WorkOK, LeaveOK, TypeOK, Header
<1>5. /\ gameID'[c] = idOf'[g] /\ hdr'[c] = slice'[g]
      /\ Lists(g, InGame(g))' /\ InGame(g)' = InGame(g)
      /\ Own(c)' = Own(c) /\ game'[c] = g
  BY <1>2, <1>3, <1>4 DEF Lists, InGame, Own, shared, private
<1>6. Places(Own(c), 1..hdr[c].len, InGame(g)) /\ c \in InGame(g)
  BY <1>3, <1>4 DEF Lists, Own, InGame
<1>7. ~ended
  <2>1. PICK k \in 1..hdr[c].len : Own(c)[k] = c
    BY <1>6 DEF Places
  <2>2. k \notin 1..i - 1
    BY <1>4, <2>1
  <2> QED
    BY <1>4, <2>1, <2>2
<1>8. CASE isSelf
  <2>1. i \in 1..hdr[c].len
    BY <1>4, <1>7
  <2>2. Places(Own(c), (1..hdr[c].len) \ {i}, InGame(g) \ {c})
    BY <1>6, <1>8, <2>1, PlacesDrop
  <2>3. at'[c] = "shift" /\ pos'[c] = i
    BY <1>2, <1>8
  <2> HIDE DEF i
  <2>4. WorkOK(c)'
    BY <1>2, <1>5, <1>6, <1>8, <2>2, <2>3 DEF WorkOK, Busy, CreateOK, JoinOK, LeaveOK
  <2> QED
    BY <1>2, <2>4, LocalSerialStep
<1>9. CASE ~isSelf
  <2>1. at'[c] = "search" /\ pos'[c] = i + 1 /\ Own(c)[i] # c
    BY <1>2, <1>7, <1>9
  <2>2. \A k \in 1..pos'[c] - 1 : Own(c)[k] # c
    <3> TAKE k \in 1..pos'[c] - 1
    <3>1. k \in 1..i - 1 \/ k = i
      BY <1>4, <2>1
    <3> QED
      BY <1>4, <2>1, <3>1
  <2> HIDE DEF i
  <2>3. WorkOK(c)'
    BY <1>5, <2>1, <2>2 DEF WorkOK, Busy, CreateOK, JoinOK, LeaveOK
  <2> QED
    BY <1>2, <2>3, LocalSerialStep
<1> QED
  BY <1>8, <1>9

\* The header removeClient returns lists the others; the element behind it
\* is the client, or the last of the others a second time.
LEMMA EndShiftSerial ==
  ASSUME IInv, SInv, NoOverlap', UniqueIds', NEW c \in Clients, EndShift(c),
         UNCHANGED <<shared, private>>, \A d \in Clients \ {c} : Kept(d)
  PROVE  SInv' /\ OthersUntouched(c)
<1> DEFINE n == hdr[c].len
<1>1. TypeOK /\ WorkOK(c)
  BY DEF IInv, SInv
<1>2. /\ at[c] = "shift" /\ at'[c] = "shrink" /\ pos[c] >= n
      /\ hdr'[c] = [hdr[c] EXCEPT !.len = n - 1] /\ game'[c] = game[c]
  BY <1>1 DEF EndShift, Continue, Goto, TypeOK
<1>3. PICK g \in made : g = game[c]
  BY <1>2 DEF IInv, LocalsOK, LocalOK, Busy
<1>4. /\ hdr[c] \in Header /\ n \in Nat /\ pos[c] \in Nat /\ pos[c] >= 1 /\ pos[c] <= n
      /\ gameID[c] = idOf[g] /\ hdr[c] = slice[g]
      /\ Places(Own(c), (1..n) \ {pos[c]}, InGame(g) \ {c})
      /\ Own(c)[pos[c]] \in InGame(g)
  BY <1>1, <1>2, <1>3 DEF IInv, LocalsOK, LocalOK, WorkOK, LeaveOK, TypeOK, Header
<1>5. pos[c] = n /\ n >= 1
  BY <1>2, <1>4
<1>6. hdr'[c].arr = hdr[c].arr /\ hdr'[c].len = n - 1
  <2>1. hdr[c] = [arr |-> hdr[c].arr, len |-> hdr[c].len]
    BY <1>4 DEF Header
  <2> QED
    BY <1>2, <2>1
<1>7. Places(Own(c), 1..n - 1, InGame(g) \ {c})
  BY <1>4, <1>5, PlacesShrink
<1>8. /\ gameID'[c] = idOf'[g] /\ slice'[g] = slice[g] /\ InGame(g)' = InGame(g)
      /\ game'[c] = g
  BY <1>2, <1>3, <1>4 DEF InGame, shared, private
<1>9. Own(c)' = Own(c)
  BY <1>2, <1>6 DEF Own, shared
<1>10. OneLonger(c)' /\ slice'[g].len = n
  BY <1>4, <1>6, <1>8 DEF OneLonger
<1>11. Own(c)[n] \in InGame(g)
  BY <1>4, <1>5
<1> HIDE DEF n
<1>12. OwnLists(c, InGame(g) \ {c})'
  BY <1>6, <1>7, <1>8, <1>9 DEF OwnLists
<1>13. WorkOK(c)'
  BY <1>2, <1>8, <1>9, <1>10, <1>11, <1>12 DEF WorkOK, Busy, CreateOK, JoinOK, LeaveOK
<1> QED
  BY <1>2, <1>13, LocalSerialStep

LEMMA MovingSerial ==
  ASSUME IInv, SInv, NoOverlap', UniqueIds', NEW c \in Clients, Moving(c)
  PROVE  SInv' /\ OthersUntouched(c)
<1>1. TypeOK /\ WorkOK(c)
  BY DEF IInv, SInv
<1>2. UNCHANGED <<shared, private>> /\ \A d \in Clients \ {c} : Kept(d)
  BY <1>1, MovingTouches
<1>3. CASE LockGames(c)
  <2>1. at[c] = "insert" /\ at'[c] = "inserting" /\ game'[c] = game[c]
    BY <1>1, <1>3 DEF LockGames, Continue, Goto, TypeOK, frame
  <2>2. PICK g \in made : g = game[c]
    BY <2>1 DEF IInv, LocalsOK, LocalOK, Busy
  <2>3. gameID'[c] = NoId /\ InGame(g)' = {} /\ Lists(g, {c})' /\ game'[c] = g
    BY <1>1, <1>2, <2>1, <2>2 DEF WorkOK, CreateOK, Lists, InGame, shared, private
  <2>4. WorkOK(c)'
    BY <2>1, <2>3 DEF WorkOK, Busy, CreateOK, JoinOK, LeaveOK
  <2> QED
    BY <1>2, <2>1, <2>4, LocalSerialStep
<1>4. CASE at[c] = "idle" /\ at' = [at EXCEPT ![c] = "gone"] /\ UNCHANGED frame
  <2>1. at'[c] = "gone" /\ game'[c] = NoGame /\ game[c] = NoGame
    BY <1>1, <1>4 DEF TypeOK, WorkOK, Busy, frame
  <2>2. WorkOK(c)'
    BY <2>1 DEF WorkOK, Busy, CreateOK, JoinOK, LeaveOK
  <2> QED
    BY <1>2, <2>1, <2>2, LocalSerialStep
<1>5. CASE EndHandler(c) /\ ~FindOwnGame(c)
  BY <1>4, <1>5 DEF EndHandler, Goto
<1>6. CASE FindGame(c) \/ LeaveGame(c) \/ (at[c] = "idle" /\ FindOwnGame(c))
  BY <1>2, <1>6, EntersSerial
<1>7. CASE LoadHeader(c) \/ LoadClients(c)
  BY <1>2, <1>7, LoadsSerial
<1>8. CASE SearchClient(c)
  BY <1>2, <1>8, SearchSerial
<1>9. CASE EndShift(c)
  BY <1>2, <1>9, EndShiftSerial
<1> QED
  BY <1>3, <1>5, <1>6, <1>7, <1>8, <1>9 DEF Moving, EndHandler

-----------------------------------------------------------------------------
(* Steps that change who is in a game *)

\* Only the clients of the game whose id comes or goes change.
LEMMA OtherMembers ==
  ASSUME TypeOK, MapOK, UniqueIds, NEW c \in Clients, NEW g \in made,
         NEW x \in {NoId, idOf[g]}, gameID[c] \in {NoId, idOf[g]},
         gameID' = [gameID EXCEPT ![c] = x], idOf' = idOf
  PROVE  \A h \in made : h # g => InGame(h)' = InGame(h)
<1> TAKE h \in made
<1> HAVE h # g
<1>1. idOf[h] # idOf[g] /\ idOf[h] # NoId
  BY SetsAssumption DEF UniqueIds, MapOK
<1>2. gameID[c] # idOf[h] /\ gameID'[c] # idOf[h]
  BY <1>1 DEF TypeOK
<1>3. \A d \in Clients \ {c} : gameID'[d] = gameID[d]
  BY DEF TypeOK
<1> QED
  BY <1>2, <1>3 DEF InGame

\* The games in m.games are found under their ids, and nowhere else.
LEMMA FoundById ==
  ASSUME IInv, UniqueIds, Filed, NEW g \in made
  PROVE  /\ idOf[g] \in KnownIds => games[idOf[g]] = g
         /\ g \in Published => games[idOf[g]] = g
<1>1. ASSUME idOf[g] \in KnownIds
      PROVE  games[idOf[g]] = g
  <2>1. games[idOf[g]] \in made
    BY <1>1 DEF IInv, MapOK
  <2>2. idOf[games[idOf[g]]] = idOf[g]
    BY <1>1 DEF Filed
  <2> QED
    BY <2>1, <2>2 DEF UniqueIds
<1>2. g \in Published => idOf[g] \in KnownIds
  BY DEF IInv, MapOK
<1> QED
  BY <1>1, <1>2

\* Nobody is in a game that is not in m.games yet: its id is new.
LEMMA NobodyIn ==
  ASSUME IInv, Filed, NEW id \in GameIds, \A h \in made : idOf[h] # id
  PROVE  \A d \in Clients : gameID[d] # id
<1> SUFFICES ASSUME NEW d \in Clients, gameID[d] = id
             PROVE  FALSE
  OBVIOUS
<1>1. id \in KnownIds
  BY SetsAssumption DEF IInv, OwnGameExists
<1>2. games[id] \in made /\ idOf[games[id]] = id
  BY <1>1 DEF IInv, MapOK, Filed
<1> QED
  BY <1>2

LEMMA NewGameSerial ==
  ASSUME IInv, SInv, NoOverlap', UniqueIds', NEW c \in Clients, NewGame(c)
  PROVE  SInv' /\ OthersUntouched(c)
<1>1. TypeOK /\ WorkOK(c)
  BY DEF IInv, SInv
<1>2. PICK g \in Games \ made, id \in GameIds :
        /\ made' = made \cup {g}
        /\ idOf' = [idOf EXCEPT ![g] = id]
        /\ arrays' = [arrays EXCEPT ![g] = << <<c>> >>]
        /\ slice' = [slice EXCEPT ![g] = [arr |-> 1, len |-> 1]]
        /\ game' = [game EXCEPT ![c] = g]
  BY DEF NewGame
<1>3. /\ at[c] = "idle" /\ at' = [at EXCEPT ![c] = "insert"] /\ gameID[c] = NoId
      /\ UNCHANGED <<games, running, private, hdr, pos>>
  BY DEF NewGame, Request, Goto
<1>4. \A h \in made : h # g /\ arrays'[h] = arrays[h] /\ slice'[h] = slice[h] /\ idOf'[h] = idOf[h]
  BY <1>1, <1>2 DEF TypeOK
<1>5. game'[c] = g /\ at'[c] = "insert" /\ gameID'[c] = NoId
  BY <1>1, <1>2, <1>3 DEF TypeOK, private
<1>6. \A d \in Clients \ {c} : Kept(d) /\ gameID'[d] = gameID[d]
  BY <1>1, <1>2, <1>3 DEF TypeOK, Kept, private
<1>7. \A h \in made : InGame(h)' = InGame(h)
  BY <1>3, <1>4 DEF InGame, private
<1>8. OthersUntouched(c)
  BY <1>2, <1>3, <1>4, <1>5, <1>6, <1>7 DEF OthersUntouched
<1>9. Filed'
  <2>1. \A k \in KnownIds : games[k] \in made
    BY <1>1 DEF IInv, MapOK
  <2> QED
    BY <1>3, <1>4, <2>1 DEF SInv, Filed, KnownIds
<1>10. Lists(g, {c})'
  <2>1. arrays'[g] = << <<c>> >> /\ slice'[g] = [arr |-> 1, len |-> 1]
    BY <1>1, <1>2 DEF TypeOK
  <2>2. slice'[g].arr = 1 /\ slice'[g].len = 1
    BY <2>1
  <2>3. arrays'[g][1] = <<c>> /\ <<c>>[1] = c
    BY <2>1
  <2>4. \A i \in 1..1 : i = 1
    OBVIOUS
  <2>5. Places(<<c>>, 1..1, {c})
    BY <2>3, <2>4 DEF Places
  <2> QED
    BY <2>2, <2>3, <2>5 DEF Lists
<1>11. InGame(g)' = {}
  <2>1. idOf'[g] = id /\ g \in made' /\ \A h \in made : h \in made' /\ h # g
    BY <1>1, <1>2 DEF TypeOK
  <2>2. \A h \in made : idOf[h] # id
    BY <1>4, <2>1 DEF UniqueIds
  <2>3. \A d \in Clients : gameID[d] # id
    BY <2>2, NobodyIn DEF SInv
  <2> QED
    BY <1>3, <2>1, <2>3 DEF InGame, private
<1>12. WorkOK(c)'
  BY <1>5, <1>10, <1>11 DEF WorkOK, Busy, CreateOK, JoinOK, LeaveOK
<1>13. game[c] \notin made
  BY <1>1, <1>3, SetsAssumption DEF WorkOK, Busy, TypeOK
<1> QED
  BY <1>8, <1>9, <1>12, <1>13, SerialStep

\* The game of c comes into m.games, and its readLoop to life; its list is
\* that of its creator alone until c comes out of CreateNewGame.
LEMMA OpenGameSerial ==
  ASSUME IInv, SInv, NoOverlap', UniqueIds', NEW c \in Clients,
         UnlockGames(c) \/ StartReadLoop(c)
  PROVE  SInv' /\ OthersUntouched(c)
<1>1. TypeOK /\ MapOK /\ Filed /\ WorkOK(c)
  BY DEF IInv, SInv
<1>2. /\ at[c] \in {"inserting", "unlocked"}
      /\ at' = [at EXCEPT ![c] = "unlocked"] \/ at' = [at EXCEPT ![c] = "started"]
      /\ games' = [games EXCEPT ![idOf[game[c]]] = game[c]] \/ games' = games
      /\ UNCHANGED <<made, idOf, arrays, slice, private, frame>>
  BY DEF UnlockGames, StartReadLoop, Continue, Goto
<1>3. PICK g \in made : g = game[c]
  BY <1>2 DEF IInv, LocalsOK, LocalOK, Busy
<1>4. gameID[c] = NoId /\ InGame(g) = {} /\ Lists(g, {c})
  BY <1>1, <1>2, <1>3 DEF WorkOK, CreateOK
<1>5. \A d \in Clients \ {c} : Kept(d) /\ gameID'[d] = gameID[d]
  BY <1>1, <1>2 DEF TypeOK, Kept, private, frame
<1>6. OthersUntouched(c)
  BY <1>2, <1>5 DEF OthersUntouched, InGame, private
<1>7. Filed'
  <2>1. CASE games' = games
    BY <1>1, <1>2, <2>1 DEF Filed, KnownIds
  <2>2. CASE games' = [games EXCEPT ![idOf[g]] = g]
    <3>1. idOf[g] \in GameIds
      BY <1>1 DEF MapOK
    <3> QED
      BY <1>1, <1>2, <2>2, <3>1 DEF Filed, KnownIds, TypeOK
  <2> QED
    BY <1>2, <1>3, <2>1, <2>2
<1>8. /\ at'[c] \in {"unlocked", "started"} /\ game'[c] = g /\ gameID'[c] = NoId
      /\ InGame(g)' = {} /\ Lists(g, {c})'
  BY <1>1, <1>2, <1>3, <1>4 DEF TypeOK, InGame, Lists, private, frame
<1>9. WorkOK(c)'
  BY <1>8 DEF WorkOK, Busy, CreateOK, JoinOK, LeaveOK
<1> QED
  BY <1>3, <1>6, <1>7, <1>8, <1>9, SerialStep

LEMMA FinishSerial ==
  ASSUME IInv, SInv, NoOverlap', UniqueIds', NEW c \in Clients,
         FinishCreate(c) \/ FinishJoin(c) \/ FinishLeave(c)
  PROVE  SInv' /\ OthersUntouched(c)
<1>1. TypeOK /\ MapOK /\ UniqueIds /\ WorkOK(c)
  BY DEF IInv, SInv
<1>2. /\ at' = [at EXCEPT ![c] = "idle"] \/ at' = [at EXCEPT ![c] = "gone"]
      /\ game' = [game EXCEPT ![c] = NoGame]
      /\ hdr' = [hdr EXCEPT ![c] = NoHeader]
      /\ pos' = [pos EXCEPT ![c] = 0]
      /\ \/ at[c] \in {"started", "joined"} /\ gameID' = [gameID EXCEPT ![c] = idOf[game[c]]]
         \/ at[c] = "left" /\ gameID' = [gameID EXCEPT ![c] = NoId]
      /\ UNCHANGED shared
  BY DEF FinishCreate, FinishJoin, FinishLeave, Continue, Goto, Return, AfterLeave
<1>3. PICK g \in made : g = game[c]
  BY <1>2 DEF IInv, LocalsOK, LocalOK, Busy
<1>4. \/ gameID[c] = NoId /\ Lists(g, InGame(g) \cup {c})
         /\ gameID' = [gameID EXCEPT ![c] = idOf[g]]
      \/ gameID[c] = idOf[g] /\ Lists(g, InGame(g) \ {c})
         /\ gameID' = [gameID EXCEPT ![c] = NoId]
  <2>1. CASE at[c] = "started" /\ gameID' = [gameID EXCEPT ![c] = idOf[game[c]]]
    <3>1. gameID[c] = NoId /\ InGame(g) = {} /\ Lists(g, {c})
      BY <1>1, <1>3, <2>1 DEF WorkOK, CreateOK
    <3>2. InGame(g) \cup {c} = {c}
      BY <3>1
    <3> QED
      BY <1>3, <2>1, <3>1, <3>2
  <2>2. CASE at[c] = "joined" /\ gameID' = [gameID EXCEPT ![c] = idOf[game[c]]]
    BY <1>1, <1>3, <2>2 DEF WorkOK, JoinOK
  <2>3. CASE at[c] = "left" /\ gameID' = [gameID EXCEPT ![c] = NoId]
    BY <1>1, <1>3, <2>3 DEF WorkOK, LeaveOK
  <2> QED
    BY <1>2, <2>1, <2>2, <2>3
<1>5. UNCHANGED <<games, made, idOf, arrays, slice, running>>
  BY <1>2 DEF shared
<1>6. \A h \in made : h # g => InGame(h)' = InGame(h)
  <2>1. CASE gameID' = [gameID EXCEPT ![c] = idOf[g]]
    BY <1>1, <1>4, <1>5, <2>1, OtherMembers
  <2>2. CASE gameID' = [gameID EXCEPT ![c] = NoId]
    BY <1>1, <1>4, <1>5, <2>2, OtherMembers
  <2> QED
    BY <1>4, <2>1, <2>2
<1>7. Lists(g, InGame(g))'
  <2>1. idOf[g] # NoId
    BY <1>1, SetsAssumption DEF MapOK
  <2>2. \/ Lists(g, InGame(g) \cup {c}) /\ InGame(g)' = InGame(g) \cup {c}
        \/ Lists(g, InGame(g) \ {c}) /\ InGame(g)' = InGame(g) \ {c}
    BY <1>1, <1>4, <1>5, <2>1 DEF InGame, TypeOK
  <2> QED
    BY <1>5, <2>2 DEF Lists
<1>8. at'[c] \in {"idle", "gone"} /\ game'[c] = NoGame
  BY <1>1, <1>2 DEF TypeOK
<1>9. \A d \in Clients \ {c} : Kept(d) /\ gameID'[d] = gameID[d]
  BY <1>1, <1>2 DEF TypeOK, Kept
<1>10. OthersUntouched(c)
  BY <1>3, <1>5, <1>6, <1>9 DEF OthersUntouched
<1>11. Filed'
  BY <1>5 DEF SInv, Filed, KnownIds
<1>12. WorkOK(c)'
  BY <1>8 DEF WorkOK, Busy, CreateOK, JoinOK, LeaveOK
<1> QED
  BY <1>3, <1>7, <1>10, <1>11, <1>12, SerialStep

-----------------------------------------------------------------------------
(* Steps that write into the arrays or publish a header *)

\* A store into one array changes one element of it.
LEMMA StoreContents ==
  ASSUME TypeOK, NEW g \in Games, NEW a \in 1..Len(arrays[g]),
         NEW i \in 1..Len(arrays[g][a]), NEW e \in Slot,
         arrays' = [arrays EXCEPT ![g][a][i] = e]
  PROVE  /\ \A h \in Games : h # g => arrays'[h] = arrays[h]
         /\ \A b \in 1..Len(arrays[g]) : b # a => arrays'[g][b] = arrays[g][b]
         /\ \A j \in 1..Len(arrays[g][a]) :
              arrays'[g][a][j] = IF j = i THEN e ELSE arrays[g][a][j]
<1>1. arrays \in [Games -> Seq(Seq(Slot))] /\ arrays[g] \in Seq(Seq(Slot))
  BY DEF TypeOK
<1>2. DOMAIN arrays = Games /\ DOMAIN arrays[g] = 1..Len(arrays[g])
  BY <1>1, LenProperties
<1>3. arrays[g][a] \in Seq(Slot)
  BY <1>1, ElementOfSeq
<1>4. DOMAIN arrays[g][a] = 1..Len(arrays[g][a])
  BY <1>3, LenProperties
<1> DEFINE t == [arrays[g][a] EXCEPT ![i] = e]
           s == [arrays[g] EXCEPT ![a] = t]
<1>5. arrays' = [arrays EXCEPT ![g] = s]
  OBVIOUS
<1>6. \A j \in 1..Len(arrays[g][a]) : t[j] = IF j = i THEN e ELSE arrays[g][a][j]
  BY <1>4
<1> HIDE DEF t
<1>7. s[a] = t /\ \A b \in 1..Len(arrays[g]) : b # a => s[b] = arrays[g][b]
  BY <1>2
<1> HIDE DEF s
<1>8. arrays'[g] = s /\ \A h \in Games : h # g => arrays'[h] = arrays[h]
  BY <1>2, <1>5
<1> QED
  BY <1>6, <1>7, <1>8

\* A step of c that only writes into the arrays of its game, or its header.
LEMMA OwnGameStep ==
  ASSUME IInv, SInv, NoOverlap', UniqueIds', NEW c \in Clients, NEW g \in made, g = game[c],
         UNCHANGED <<games, made, idOf, running, private, game>>,
         \A h \in Games : h # g => arrays'[h] = arrays[h] /\ slice'[h] = slice[h],
         \A d \in Clients \ {c} : Kept(d), WorkOK(c)'
  PROVE  SInv' /\ OthersUntouched(c)
<1>1. \A h \in made : h \in Games
  BY DEF IInv, TypeOK
<1>2. OthersUntouched(c)
  BY <1>1 DEF OthersUntouched, InGame, private
<1>3. Filed'
  BY DEF SInv, Filed, KnownIds
<1> QED
  BY <1>2, <1>3, SerialStep

\* The copy has the elements of the list; the list itself is where it was.
LEMMA GrowArraySerial ==
  ASSUME IInv, SInv, NoOverlap', UniqueIds', NEW c \in Clients, GrowArray(c)
  PROVE  SInv' /\ OthersUntouched(c)
<1>1. TypeOK /\ WorkOK(c) /\ LocalOK(c)
  BY DEF IInv, SInv, LocalsOK
<1>2. at[c] = "grow"
  BY DEF GrowArray, Continue
<1>3. PICK g \in made : g = game[c]
  BY <1>1, <1>2 DEF LocalOK, Busy
<1> DEFINE old == arrays[g][hdr[c].arr]
           n == Len(arrays[g]) + 1
<1>4. /\ at' = [at EXCEPT ![c] = "store"]
      /\ arrays' = [arrays EXCEPT ![g] = Append(arrays[g], Grown(old))]
      /\ hdr' = [hdr EXCEPT ![c].arr = n]
      /\ UNCHANGED <<games, made, idOf, slice, running, private, game, pos>>
  BY <1>3 DEF GrowArray, Continue, Goto
<1>5. /\ gameID[c] = NoId /\ hdr[c] = slice[g] /\ hdr[c] \in Header
      /\ Lists(g, InGame(g)) /\ InBounds(g, hdr[c])
      /\ g \in Games /\ arrays[g] \in Seq(Seq(Slot))
  BY <1>1, <1>2, <1>3 DEF WorkOK, JoinOK, LocalOK, TypeOK
<1>6. /\ old \in Seq(Slot) /\ Len(old) \in Nat /\ hdr[c].len \in Nat /\ hdr[c].len <= Len(old)
      /\ hdr[c].arr \in 1..Len(arrays[g]) /\ Len(arrays[g]) \in Nat
  <2>1. old \in Seq(Slot)
    BY <1>5, ElementOfSeq DEF InBounds
  <2> QED
    BY <1>5, <2>1, LenProperties DEF InBounds, Header
<1>7. Grown(old) \in Seq(Slot)
  BY <1>6, GrownArray
<1>8. arrays'[g] = Append(arrays[g], Grown(old)) /\ \A h \in Games : h # g => arrays'[h] = arrays[h]
  BY <1>1, <1>4, <1>5 DEF TypeOK
<1>9. arrays'[g][n] = Grown(old) /\ \A a \in 1..Len(arrays[g]) : arrays'[g][a] = arrays[g][a]
  BY <1>5, <1>7, <1>8, AppendProperties
<1>10. hdr'[c].arr = n /\ hdr'[c].len = hdr[c].len /\ at'[c] = "store" /\ game'[c] = g
  <2>1. hdr'[c] = [hdr[c] EXCEPT !.arr = n] /\ at'[c] = "store" /\ game'[c] = g
    BY <1>1, <1>3, <1>4 DEF TypeOK
  <2>2. hdr[c] = [arr |-> hdr[c].arr, len |-> hdr[c].len]
    BY <1>5 DEF Header
  <2> HIDE DEF n
  <2>3. hdr'[c] = [arr |-> n, len |-> hdr[c].len]
    BY <2>1, <2>2
  <2> QED
    BY <2>1, <2>3
<1>11. \A i \in 1..hdr[c].len : Grown(old)[i] = old[i]
  <2> TAKE i \in 1..hdr[c].len
  <2> HIDE DEF old
  <2>1. i \in 1..2 * Len(old) /\ i <= Len(old)
    BY <1>6
  <2> QED
    BY <2>1, Zenon DEF Grown
<1>12. Places(old, 1..hdr[c].len, InGame(g))
  BY <1>5 DEF Lists
<1>13. Places(Grown(old), 1..hdr[c].len, InGame(g))
  BY <1>11, <1>12, PlacesSame
<1> HIDE DEF n
<1>14. InGame(g)' = InGame(g) /\ slice'[g] = slice[g] /\ gameID'[c] = NoId
  BY <1>4, <1>5 DEF InGame, private
<1>15. OwnLists(c, InGame(g))' /\ Lists(g, InGame(g))'
  BY <1>5, <1>6, <1>9, <1>10, <1>12, <1>13, <1>14 DEF OwnLists, Own, Lists
<1>16. WorkOK(c)'
  BY <1>5, <1>10, <1>14, <1>15 DEF WorkOK, Busy, CreateOK, JoinOK, LeaveOK
<1>17. \A d \in Clients \ {c} : Kept(d)
  BY <1>1, <1>4 DEF Kept, TypeOK
<1> QED
  BY <1>3, <1>4, <1>8, <1>16, <1>17, OwnGameStep

\* The store goes behind the list, or fills the place the length has announced.
LEMMA StoreElementSerial ==
  ASSUME IInv, SInv, NoOverlap', UniqueIds', NEW c \in Clients, StoreElement(c)
  PROVE  SInv' /\ OthersUntouched(c)
<1>1. TypeOK /\ WorkOK(c) /\ LocalOK(c)
  BY DEF IInv, SInv, LocalsOK
<1>2. at[c] \in {"store", "setelem"}
  BY DEF StoreElement, Continue
<1>3. PICK g \in made : g = game[c]
  BY <1>1, <1>2 DEF LocalOK, Busy
<1>4. PICK n \in Nat : n = hdr[c].len
  BY <1>1 DEF TypeOK, Header
<1>5. PICK k \in 1..Len(arrays[g]) : k = hdr[c].arr
  BY <1>1, <1>2, <1>3 DEF LocalOK, InBounds
<1>6. /\ \/ at[c] = "store" /\ at' = [at EXCEPT ![c] = "setlen"]
         \/ at[c] = "setelem" /\ at' = [at EXCEPT ![c] = "joined"]
      /\ arrays' = [arrays EXCEPT ![g][k][n + 1] = c]
      /\ UNCHANGED <<games, made, idOf, slice, running, private, game, hdr, pos>>
  BY <1>3, <1>4, <1>5 DEF StoreElement, Continue, Goto, frame
<1>7. /\ gameID[c] = NoId /\ Places(arrays[g][k], 1..n, InGame(g))
      /\ at[c] = "store" => slice[g].len = n /\ Lists(g, InGame(g))
      /\ at[c] = "setelem" => slice[g].arr = k /\ slice[g].len = n + 1
      /\ g \in Games
  BY <1>1, <1>2, <1>3, <1>4, <1>5 DEF WorkOK, JoinOK, OwnLists, Own, OneLonger, TypeOK
<1>8. n + 1 \in 1..Len(arrays[g][k]) /\ \A i \in 1..n : i \in 1..Len(arrays[g][k]) /\ i # n + 1
  <2>1. Len(arrays[g][k]) \in Nat
    <3>1. arrays[g][k] \in Seq(Slot)
      BY <1>1, <1>7, ElementOfSeq DEF TypeOK
    <3> QED
      BY <3>1, LenProperties
  <2>2. n < Len(arrays[g][k])
    BY <1>1, <1>2, <1>3, <1>4, <1>5 DEF LocalOK
  <2> QED
    BY <2>1, <2>2
<1>9. /\ \A h \in Games : h # g => arrays'[h] = arrays[h]
      /\ \A b \in 1..Len(arrays[g]) : b # k => arrays'[g][b] = arrays[g][b]
      /\ \A j \in 1..Len(arrays[g][k]) :
           arrays'[g][k][j] = IF j = n + 1 THEN c ELSE arrays[g][k][j]
  <2>1. TypeOK /\ g \in Games /\ n + 1 \in 1..Len(arrays[g][k])
    BY <1>1, <1>7, <1>8
  <2>2. arrays' = [arrays EXCEPT ![g][k][n + 1] = c] /\ c \in Slot
    BY <1>6 DEF Slot
  <2> QED
    BY <2>1, <2>2, StoreContents, ZenonT(40)
<1>10. Places(arrays'[g][k], 1..n, InGame(g))
  <2>1. \A i \in 1..n : arrays'[g][k][i] = arrays[g][k][i]
    BY <1>8, <1>9
  <2> QED
    BY <1>7, <2>1, PlacesSame
<1>11. c \notin InGame(g)
  <2>1. idOf[g] # NoId
    BY SetsAssumption DEF IInv, MapOK
  <2> QED
    BY <1>7, <2>1 DEF InGame
<1>12. Places(arrays'[g][k], 1..n + 1, InGame(g) \cup {c})
  BY <1>8, <1>9, <1>10, <1>11, PlacesAdd
<1>13. /\ InGame(g)' = InGame(g) /\ slice'[g] = slice[g] /\ gameID'[c] = NoId
       /\ game'[c] = g /\ hdr'[c].arr = k /\ hdr'[c].len = n
       /\ \/ at[c] = "store" /\ at'[c] = "setlen"
          \/ at[c] = "setelem" /\ at'[c] = "joined"
  BY <1>1, <1>3, <1>4, <1>5, <1>6, <1>7 DEF InGame, private, TypeOK
<1>14. ASSUME at[c] = "store" PROVE WorkOK(c)'
  <2>1. slice[g].arr \in 1..Len(arrays[g])
    BY DEF IInv, ArraysOK, InBounds
  <2>2. Places(arrays'[g][slice[g].arr], 1..n, InGame(g))
    <3>1. CASE slice[g].arr = k
      BY <1>10, <3>1
    <3>2. CASE slice[g].arr # k
      BY <1>7, <1>9, <1>14, <2>1, <3>2 DEF Lists
    <3> QED
      BY <3>1, <3>2
  <2>3. Lists(g, InGame(g))'
    BY <1>7, <1>13, <1>14, <2>2 DEF Lists
  <2>4. OwnLists(c, InGame(g))' /\ Own(c)' = arrays'[g][k]
    BY <1>10, <1>13 DEF OwnLists, Own
  <2>5. Own(c)'[hdr'[c].len + 1] = c
    BY <1>8, <1>9, <1>13, <2>4
  <2> QED
    BY <1>7, <1>13, <1>14, <2>3, <2>4, <2>5 DEF WorkOK, Busy, CreateOK, JoinOK, LeaveOK
<1>15. ASSUME at[c] = "setelem" PROVE WorkOK(c)'
  <2>1. Lists(g, InGame(g) \cup {c})'
    BY <1>7, <1>12, <1>13, <1>15 DEF Lists
  <2> QED
    BY <1>13, <1>15, <2>1 DEF WorkOK, Busy, CreateOK, JoinOK, LeaveOK
<1>16. \A d \in Clients \ {c} : Kept(d)
  BY <1>1, <1>6 DEF Kept, TypeOK
<1> QED
  BY <1>2, <1>3, <1>6, <1>9, <1>14, <1>15, <1>16, OwnGameStep

LEMMA PublishLengthSerial ==
  ASSUME IInv, SInv, NoOverlap', UniqueIds', NEW c \in Clients, PublishLength(c)
  PROVE  SInv' /\ OthersUntouched(c)
<1>1. TypeOK /\ WorkOK(c) /\ LocalOK(c)
  BY DEF IInv, SInv, LocalsOK
<1>2. at[c] \in {"store", "setlen"}
  BY DEF PublishLength, Continue
<1>3. PICK g \in made : g = game[c]
  BY <1>1, <1>2 DEF LocalOK, Busy
<1>4. PICK n \in Nat : n = hdr[c].len
  BY <1>1 DEF TypeOK, Header
<1>5. /\ \/ at[c] = "store" /\ at' = [at EXCEPT ![c] = "setelem"]
         \/ at[c] = "setlen" /\ at' = [at EXCEPT ![c] = "joined"]
      /\ slice' = [slice EXCEPT ![g] = [hdr[c] EXCEPT !.len = n + 1]]
      /\ UNCHANGED <<games, made, idOf, arrays, running, private, game, hdr, pos>>
  BY <1>3, <1>4 DEF PublishLength, Continue, Goto, frame
<1>6. gameID[c] = NoId /\ OwnLists(c, InGame(g)) /\ g \in Games /\ hdr[c] \in Header
  BY <1>1, <1>2, <1>3 DEF WorkOK, JoinOK, TypeOK
<1>7. slice'[g].arr = hdr[c].arr /\ slice'[g].len = n + 1
  <2>1. slice'[g] = [hdr[c] EXCEPT !.len = n + 1]
    BY <1>1, <1>5, <1>6 DEF TypeOK
  <2>2. hdr[c] = [arr |-> hdr[c].arr, len |-> hdr[c].len]
    BY <1>6 DEF Header
  <2> QED
    BY <2>1, <2>2
<1>8. /\ \A h \in Games : h # g => slice'[h] = slice[h]
      /\ game'[c] = g /\ hdr'[c] = hdr[c] /\ gameID'[c] = NoId /\ Own(c)' = Own(c)
      /\ InGame(g)' = InGame(g)
      /\ \/ at[c] = "store" /\ at'[c] = "setelem"
         \/ at[c] = "setlen" /\ at'[c] = "joined"
  BY <1>1, <1>3, <1>5, <1>6 DEF TypeOK, InGame, Own, private
<1>9. ASSUME at[c] = "store"
      PROVE  WorkOK(c)'
  <2>1. at'[c] = "setelem" /\ OneLonger(c)' /\ OwnLists(c, InGame(g))'
    BY <1>4, <1>6, <1>7, <1>8, <1>9 DEF OneLonger, OwnLists
  <2> QED
    BY <1>8, <2>1 DEF WorkOK, Busy, CreateOK, JoinOK, LeaveOK
<1>10. ASSUME at[c] = "setlen"
       PROVE  WorkOK(c)'
  <2>1. Own(c)[n + 1] = c
    BY <1>1, <1>4, <1>10 DEF WorkOK, JoinOK
  <2>2. c \notin InGame(g)
    <3>1. idOf[g] # NoId
      BY SetsAssumption DEF IInv, MapOK
    <3> QED
      BY <1>6, <3>1 DEF InGame
  <2>3. Places(Own(c), 1..n, InGame(g))
    BY <1>4, <1>6 DEF OwnLists
  <2>4. Places(Own(c), 1..n + 1, InGame(g) \cup {c})
    BY <2>1, <2>2, <2>3, PlacesAdd
  <2>5. arrays'[g][slice'[g].arr] = Own(c)
    BY <1>3, <1>5, <1>7 DEF Own
  <2>6. at'[c] = "joined" /\ Lists(g, InGame(g) \cup {c})'
    BY <1>7, <1>8, <1>10, <2>4, <2>5 DEF Lists
  <2> QED
    BY <1>8, <2>6 DEF WorkOK, Busy, CreateOK, JoinOK, LeaveOK
<1>11. \A d \in Clients \ {c} : Kept(d)
  BY <1>1, <1>5 DEF Kept, TypeOK
<1> QED
  BY <1>2, <1>3, <1>5, <1>8, <1>9, <1>10, <1>11, OwnGameStep

LEMMA PublishShorterSerial ==
  ASSUME IInv, SInv, NoOverlap', UniqueIds', NEW c \in Clients, PublishShorter(c)
  PROVE  SInv' /\ OthersUntouched(c)
<1>1. TypeOK /\ WorkOK(c) /\ LocalOK(c)
  BY DEF IInv, SInv, LocalsOK
<1>2. /\ at[c] = "shrink" /\ at' = [at EXCEPT ![c] = "left"]
      /\ slice' = [slice EXCEPT ![game[c]] = hdr[c]]
      /\ UNCHANGED <<games, made, idOf, arrays, running, private, game, hdr, pos>>
  BY DEF PublishShorter, Continue, Goto, frame
<1>3. PICK g \in made : g = game[c]
  BY <1>1, <1>2 DEF LocalOK, Busy
<1>4. gameID[c] = idOf[g] /\ OwnLists(c, InGame(g) \ {c}) /\ g \in Games
  BY <1>1, <1>2, <1>3 DEF WorkOK, LeaveOK, TypeOK
<1>5. /\ slice'[g] = hdr[c] /\ \A h \in Games : h # g => slice'[h] = slice[h]
      /\ at'[c] = "left" /\ game'[c] = g /\ gameID'[c] = idOf'[g] /\ InGame(g)' = InGame(g)
  BY <1>1, <1>2, <1>3, <1>4 DEF TypeOK, InGame, private
<1>6. Lists(g, InGame(g) \ {c})'
  BY <1>2, <1>3, <1>4, <1>5 DEF Lists, OwnLists, Own
<1>7. WorkOK(c)'
  BY <1>5, <1>6 DEF WorkOK, Busy, CreateOK, JoinOK, LeaveOK
<1>8. \A d \in Clients \ {c} : Kept(d)
  BY <1>1, <1>2 DEF Kept, TypeOK
<1> QED
  BY <1>2, <1>3, <1>5, <1>7, <1>8, OwnGameStep

\* The gap moves up by one; the element over it is there a second time.
LEMMA MoveDownSerial ==
  ASSUME IInv, SInv, NoOverlap', UniqueIds', NEW c \in Clients, MoveDown(c)
  PROVE  SInv' /\ OthersUntouched(c) /\ Own(c)'[pos'[c]] # c
<1>1. TypeOK /\ WorkOK(c) /\ LocalOK(c)
  BY DEF IInv, SInv, LocalsOK
<1>2. at[c] = "shift"
  BY DEF MoveDown, Continue
<1>3. PICK g \in made : g = game[c]
  BY <1>1, <1>2 DEF LocalOK, Busy
<1>4. PICK n \in Nat : n = hdr[c].len
  BY <1>1 DEF TypeOK, Header
<1>5. PICK k \in 1..Len(arrays[g]) : k = hdr[c].arr
  BY <1>1, <1>2, <1>3 DEF LocalOK, InBounds
<1>6. PICK p \in Nat : p = pos[c]
  BY <1>1 DEF TypeOK
<1> DEFINE e == arrays[g][k][p + 1]
<1>7. /\ p < n
      /\ arrays' = [arrays EXCEPT ![g][k][p] = e]
      /\ pos' = [pos EXCEPT ![c] = p + 1]
      /\ at' = [at EXCEPT ![c] = "shift"]
      /\ UNCHANGED <<games, made, idOf, slice, running, private, game, hdr>>
  BY <1>3, <1>4, <1>5, <1>6 DEF MoveDown, Continue, Goto
<1>8. /\ p >= 1 /\ g \in Games /\ gameID[c] = idOf[g] /\ hdr[c] = slice[g]
      /\ Places(arrays[g][k], (1..n) \ {p}, InGame(g) \ {c})
  BY <1>1, <1>2, <1>3, <1>4, <1>5, <1>6 DEF LocalOK, WorkOK, LeaveOK, Own, TypeOK
<1>9. n <= Len(arrays[g][k]) /\ Len(arrays[g][k]) \in Nat /\ arrays[g][k] \in Seq(Slot)
  <2>1. arrays[g][k] \in Seq(Slot)
    BY <1>1, <1>8, ElementOfSeq DEF TypeOK
  <2>2. n <= Len(arrays[g][k])
    BY <1>1, <1>2, <1>3, <1>4, <1>5 DEF LocalOK, InBounds
  <2> QED
    BY <2>1, <2>2, LenProperties
<1>10. /\ p \in 1..Len(arrays[g][k]) /\ p + 1 \in 1..Len(arrays[g][k])
       /\ p + 1 \in (1..n) \ {p}
       /\ \A i \in 1..n : i \in 1..Len(arrays[g][k])
  BY <1>7, <1>8, <1>9
<1>11. e \in Slot /\ e \in InGame(g) \ {c}
  <2>1. e \in Slot
    BY <1>9, <1>10, ElementOfSeq
  <2>2. e \in InGame(g) \ {c}
    BY <1>8, <1>10 DEF Places
  <2> QED
    BY <2>1, <2>2
<1> HIDE DEF e
<1>12. /\ \A h \in Games : h # g => arrays'[h] = arrays[h]
       /\ \A j \in 1..Len(arrays[g][k]) :
            arrays'[g][k][j] = IF j = p THEN e ELSE arrays[g][k][j]
  <2>1. TypeOK /\ g \in Games /\ p \in 1..Len(arrays[g][k]) /\ e \in Slot
    BY <1>1, <1>8, <1>10, <1>11, Zenon
  <2>2. arrays' = [arrays EXCEPT ![g][k][p] = e]
    BY <1>7
  <2> QED
    BY <2>1, <2>2, StoreContents, ZenonT(40)
<1>13. arrays'[g][k][p] = arrays[g][k][p + 1]
  BY <1>10, <1>12 DEF e
<1>14. \A i \in (1..n) \ {p} : arrays'[g][k][i] = arrays[g][k][i]
  BY <1>10, <1>12
<1>15. Places(arrays'[g][k], (1..n) \ {p + 1}, InGame(g) \ {c})
  BY <1>7, <1>8, <1>13, <1>14, PlacesShift
<1>16. /\ at'[c] = "shift" /\ game'[c] = g /\ hdr'[c] = hdr[c] /\ pos'[c] = p + 1
       /\ slice'[g] = slice[g] /\ gameID'[c] = idOf'[g] /\ InGame(g)' = InGame(g)
  BY <1>1, <1>3, <1>7, <1>8 DEF TypeOK, InGame, private
<1>17. Own(c)' = arrays'[g][k]
  BY <1>5, <1>16 DEF Own
<1>18. arrays'[g][k][p + 1] \in InGame(g) \ {c}
  <2>1. arrays'[g][k][p + 1] = arrays[g][k][p + 1]
    BY <1>10, <1>14
  <2> QED
    BY <1>11, <2>1 DEF e
<1>19. WorkOK(c)'
  BY <1>4, <1>8, <1>15, <1>16, <1>17, <1>18 DEF WorkOK, Busy, CreateOK, JoinOK, LeaveOK
<1>20. \A d \in Clients \ {c} : Kept(d)
  BY <1>1, <1>7 DEF Kept, TypeOK
<1>21. Own(c)'[pos'[c]] # c
  BY <1>16, <1>17, <1>18
<1> QED
  BY <1>3, <1>7, <1>12, <1>19, <1>20, <1>21, OwnGameStep

-----------------------------------------------------------------------------
(* The theorem *)

LEMMA HandlerStepSerial ==
  ASSUME IInv, SInv, NoOverlap', UniqueIds', NEW c \in Clients, HandlerStep(c)
  PROVE  SInv' /\ OthersUntouched(c)
<1>1. CASE Idling(c)
  <2>1. UNCHANGED <<shared, private, at, frame>>
    BY <1>1 DEF Idling, CreateRefused, JoinRefused, LeaveRefused, StartRefused, StartGame,
                MapFault, Refuse, Request
  <2>2. OthersUntouched(c)
    BY <2>1 DEF OthersUntouched, Kept, InGame, shared, private, frame
  <2> QED
    BY <2>1, <2>2, UnchangedSerial
<1>2. CASE Moving(c)
  BY <1>2, MovingSerial
<1>3. CASE NewGame(c)
  BY <1>3, NewGameSerial
<1>4. CASE UnlockGames(c) \/ StartReadLoop(c)
  BY <1>4, OpenGameSerial
<1>5. CASE GrowArray(c)
  BY <1>5, GrowArraySerial
<1>6. CASE StoreElement(c)
  BY <1>6, StoreElementSerial
<1>7. CASE MoveDown(c)
  BY <1>7, MoveDownSerial
<1>8. CASE PublishLength(c)
  BY <1>8, PublishLengthSerial
<1>9. CASE PublishShorter(c)
  BY <1>9, PublishShorterSerial
<1>10. CASE FinishCreate(c) \/ FinishJoin(c) \/ FinishLeave(c)
  BY <1>10, FinishSerial
<1> QED
  BY <1>1, <1>2, <1>3, <1>4, <1>5, <1>6, <1>7, <1>8, <1>9, <1>10
  DEF HandlerStep, CreateStep, JoinStep, LeaveStep, StartStep, Idling, Moving

LEMMA InitSerial == Init => SInv
<1> SUFFICES ASSUME Init PROVE SInv
  OBVIOUS
<1>1. NoOverlap /\ UniqueIds /\ Filed /\ AtRest
  BY DEF Init, NoOverlap, UniqueIds, Filed, AtRest, KnownIds, Busy
<1>2. \A c \in Clients : at[c] = "idle" /\ game[c] = NoGame
  BY DEF Init
<1>3. \A c \in Clients : WorkOK(c)
  BY <1>2 DEF WorkOK, CreateOK, JoinOK, LeaveOK, Busy
<1> QED
  BY <1>1, <1>3 DEF SInv

\* The steps of the relay that are no handler's touch nothing of this.
LEMMA RelayStepTouches ==
  ASSUME RelayNext, ~\E c \in Clients : HandlerStep(c)
  PROVE  UNCHANGED <<shared, private, at, frame, reply, requests, quitting>> /\ up' \in {up, FALSE}
BY DEF RelayNext, ManagerStep, TakeState, PumpState, ClientRead, LoopStep, ReceiveState,
       StartRange, SkipSender, LoadClient, WriteState, WriteReturns, NilClient, EndRange,
       WaitAgain, vars

LEMMA RelayStepSerial ==
  ASSUME IInv, SInv, [RelayNext /\ NoOverlap' /\ UniqueIds']_relayVars
  PROVE  IInv' /\ SInv'
<1>1. CASE RelayNext /\ NoOverlap' /\ UniqueIds' /\ \E c \in Clients : HandlerStep(c)
  BY <1>1, HandlerStepPreserves, HandlerStepSerial
<1>2. CASE RelayNext /\ ~\E c \in Clients : HandlerStep(c)
  <2>1. up' \in BOOLEAN
    BY <1>2, RelayStepTouches DEF IInv, TypeOK
  <2> QED
    BY <1>2, <2>1, RelayStepTouches, UnchangedPreserves, UnchangedSerial
<1>3. CASE UNCHANGED relayVars
  <2>1. UNCHANGED <<shared, private, at, frame, reply, requests, quitting>> /\ up' \in BOOLEAN
    BY <1>3 DEF relayVars, vars, IInv, TypeOK
  <2> QED
    BY <2>1, UnchangedPreserves, UnchangedSerial
<1> QED
  BY <1>1, <1>2, <1>3

LEMMA SerialInvariance == NoOverlapRelaySpec => [](IInv /\ SInv)
<1>1. RelayInit => IInv /\ SInv
  BY InitEstablishes, InitSerial DEF RelayInit
<1>2. (IInv /\ SInv) /\ [RelayNext /\ NoOverlap' /\ UniqueIds']_relayVars => (IInv /\ SInv)'
  BY RelayStepSerial
<1> QED
  BY <1>1, <1>2, PTL DEF NoOverlapRelaySpec

\* A list without repetition is as long as the set of its elements.
LEMMA DistinctLength ==
  ASSUME NEW n \in Nat, NEW a, NEW S, Places(a, 1..n, S)
  PROVE  IsFiniteSet(S) /\ Cardinality(S) = n
<1> DEFINE f == [i \in 1..n |-> a[i]]
<1>1. f \in Bijection(1..n, S)
  BY DEF Places, Bijection, Injection, Surjection, IsInjective
<1>2. ExistsBijection(1..n, S)
  BY <1>1 DEF ExistsBijection
<1>3. IsFiniteSet(1..n) /\ Cardinality(1..n) = n
  BY FS_Interval
<1> QED
  BY <1>2, <1>3, FS_Bijection

LEMMA ListsMembers ==
  ASSUME IInv, NEW g \in made, NEW S, Lists(g, S)
  PROVE  Members(g) = S /\ Len(ClientList(g)) = Cardinality(S)
<1> DEFINE a == arrays[g][slice[g].arr]
           n == slice[g].len
           s == SubSeq(a, 1, n)
<1>1. /\ a \in Seq(Slot) /\ n \in Nat /\ n <= Len(a) /\ Len(a) \in Nat
  <2>1. arrays[g] \in Seq(Seq(Slot)) /\ slice[g] \in Header /\ InBounds(g, slice[g])
    BY DEF IInv, TypeOK, ArraysOK
  <2>2. a \in Seq(Slot)
    BY <2>1, ElementOfSeq DEF InBounds
  <2> QED
    BY <2>1, <2>2, LenProperties DEF InBounds, Header
<1>2. ClientList(g) = s
  BY DEF ClientList, Elements
<1>3. Places(a, 1..n, S)
  BY DEF Lists
<1> HIDE DEF a, n
<1>4. Len(s) = n /\ \A i \in 1..n : s[i] = a[i]
  BY <1>1, SubSeqProperties
<1>5. Members(g) = S
  <2>1. Members(g) = {a[i] : i \in 1..n}
    BY <1>2, <1>4 DEF Members
  <2> QED
    BY <1>3, <2>1 DEF Places
<1> QED
  BY <1>1, <1>2, <1>3, <1>4, <1>5, DistinctLength

\* game.clients and Client.gameID agree in every settled game, whatever the
\* joins and leaves of the other games are in the middle of: each client whose
\* gameID is the game's is in its list once, and nothing else is.
THEOREM ListsExact == NoOverlapRelaySpec => []MembersExact
<1>1. IInv /\ SInv => MembersExact
  <2> SUFFICES ASSUME IInv, SInv, NEW g \in made, Settled(g)
               PROVE  Members(g) = InGame(g) /\ Len(ClientList(g)) = Cardinality(Members(g))
    BY DEF MembersExact, InGame
  <2>1. Lists(g, InGame(g))
    BY DEF SInv, AtRest
  <2> QED
    BY <2>1, ListsMembers
<1> QED
  BY <1>1, SerialInvariance, PTL

=============================================================================
