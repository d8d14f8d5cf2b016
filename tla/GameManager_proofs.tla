-------------------------- MODULE GameManager_proofs --------------------------
(***************************************************************************)
(* Proofs about GameManager.tla for every set of clients, games and ids,   *)
(* under every interleaving of the handlers (Spec).                        *)
(*                                                                         *)
(* OwnGameExists and PumpOfGame are not inductive: JoinGame copies a *Game *)
(* into a local and uses it many steps later, and the moves inside the     *)
(* backing arrays keep their type only because every header in use stays   *)
(* inside its array.  IInv adds what the map, the handlers' locals and the *)
(* arrays satisfy in between.  Published, the games others can have found, *)
(* only grows: go game.readLoop() takes a game from one part of it to the  *)
(* other.                                                                  *)
(***************************************************************************)
EXTENDS GameManager, SequenceTheorems, TLAPS

-----------------------------------------------------------------------------
(* The inductive invariant *)

\* What is in m.games was made and published; the id of a published game
\* stays in m.games, though another game may have taken its place.
MapOK ==
  /\ \A g \in made : idOf[g] \in GameIds
  /\ Published \subseteq made
  /\ \A id \in KnownIds : games[id] \in Published
  /\ \A g \in Published : idOf[g] \in KnownIds

\* A header over the arrays of game g that stays inside its array.
InBounds(g, h) ==
  /\ h.arr \in 1..Len(arrays[g])
  /\ h.len <= Len(arrays[g][h.arr])

ArraysOK ==
  \A g \in made :
    /\ InBounds(g, slice[g])
    /\ \A a \in 1..Len(arrays[g]) : Len(arrays[g][a]) >= 1

\* The locals of the handler of c at each of its labels.
LocalOK(c) ==
  /\ Busy(c) => game[c] \in made
  /\ Busy(c) /\ at[c] \notin {"insert", "inserting"} => game[c] \in Published
  /\ at[c] \in {"grow", "store", "setlen", "setelem", "search", "shift", "shrink"}
       => InBounds(game[c], hdr[c])
  /\ at[c] \in {"store", "setlen", "setelem"}
       => hdr[c].len < Len(arrays[game[c]][hdr[c].arr])
  /\ at[c] \in {"search", "shift"} => pos[c] >= 1
  /\ at[c] = "shift" => pos[c] <= hdr[c].len

LocalsOK == \A c \in Clients : LocalOK(c)

IInv == TypeOK /\ MapOK /\ ArraysOK /\ LocalsOK /\ OwnGameExists /\ PumpOfGame

-----------------------------------------------------------------------------
(* Sequences of sequences *)

\* Storing an element in one of the backing arrays changes no length.
LEMMA StoreInArray ==
  ASSUME NEW S, NEW s \in Seq(Seq(S)), NEW a \in 1..Len(s), NEW i \in Int, NEW e \in S
  PROVE  /\ [s EXCEPT ![a][i] = e] \in Seq(Seq(S))
         /\ Len([s EXCEPT ![a][i] = e]) = Len(s)
         /\ \A k \in 1..Len(s) : Len([s EXCEPT ![a][i] = e][k]) = Len(s[k])
<1> DEFINE t == [s[a] EXCEPT ![i] = e]
<1>1. s[a] \in Seq(S)
  BY ElementOfSeq
<1>2. t \in Seq(S) /\ Len(t) = Len(s[a])
  <2>1. CASE i \in 1..Len(s[a])
    BY <1>1, <2>1, ExceptSeq
  <2>2. CASE i \notin 1..Len(s[a])
    <3>1. DOMAIN s[a] = 1..Len(s[a]) /\ s[a] \in [1..Len(s[a]) -> S]
      BY <1>1, LenProperties
    <3>2. t = s[a]
      BY <2>2, <3>1
    <3> QED
      BY <1>1, <3>2
  <2> QED
    BY <2>1, <2>2
<1>3. [s EXCEPT ![a][i] = e] = [s EXCEPT ![a] = t]
  OBVIOUS
<1> HIDE DEF t
<1>4. /\ [s EXCEPT ![a] = t] \in Seq(Seq(S))
      /\ Len([s EXCEPT ![a] = t]) = Len(s)
      /\ \A k \in 1..Len(s) : [s EXCEPT ![a] = t][k] = IF k = a THEN t ELSE s[k]
  BY <1>2, ExceptSeq
<1> QED
  BY <1>2, <1>3, <1>4

\* growslice returns a sequence twice as long.
LEMMA GrownArray ==
  ASSUME NEW a \in Seq(Slot)
  PROVE  Grown(a) \in Seq(Slot) /\ Len(Grown(a)) = 2 * Len(a)
<1>1. Len(a) \in Nat /\ \A i \in 1..Len(a) : a[i] \in Slot
  BY ElementOfSeq, LenProperties
<1>2. Nil \in Slot
  BY DEF Slot
<1>3. \A i \in 1..2 * Len(a) : (IF i <= Len(a) THEN a[i] ELSE Nil) \in Slot
  BY <1>1, <1>2
<1>4. Grown(a) \in [1..2 * Len(a) -> Slot]
  BY <1>3 DEF Grown
<1>5. 2 * Len(a) \in Nat
  BY <1>1
<1> QED
  BY <1>4, <1>5

-----------------------------------------------------------------------------
(* What a step of the handler of c leaves to the others *)

\* The arrays of the games in use are only added to, and keep their lengths.
ArraysExtend ==
  \A g \in made :
    /\ Len(arrays'[g]) >= Len(arrays[g])
    /\ \A a \in 1..Len(arrays[g]) : Len(arrays'[g][a]) = Len(arrays[g][a])

Kept(d) == at'[d] = at[d] /\ game'[d] = game[d] /\ hdr'[d] = hdr[d] /\ pos'[d] = pos[d]

\* Only the creator of a game publishes it, or has its readLoop started.
LEMMA PublishedSame ==
  ASSUME running' = running, NEW c \in Clients, \A d \in Clients \ {c} : Kept(d),
         at[c] # "unlocked", at'[c] # "unlocked"
  PROVE  Published' = Published
<1>1. \A d \in Clients : at'[d] = "unlocked" <=> at[d] = "unlocked"
  BY DEF Kept
<1>2. \A d \in Clients : at[d] = "unlocked" => game'[d] = game[d]
  BY DEF Kept
<1> QED
  BY <1>1, <1>2 DEF Published

\* A handler that stands still keeps what is true of its locals.
LEMMA StandingStill ==
  ASSUME TypeOK, TypeOK', NEW d \in Clients, LocalOK(d), Kept(d),
         made \subseteq made', Published \subseteq Published', ArraysExtend
  PROVE  LocalOK(d)'
<1>1. \A g \in Games : Len(arrays[g]) \in Nat /\ Len(arrays'[g]) \in Nat
  BY LenProperties DEF TypeOK
<1>2. \A g \in made, h \in Header : InBounds(g, h) =>
        /\ h.arr \in 1..Len(arrays'[g])
        /\ h.len <= Len(arrays'[g][h.arr])
        /\ Len(arrays'[g][h.arr]) = Len(arrays[g][h.arr])
  <2> SUFFICES ASSUME NEW g \in made, NEW h \in Header, InBounds(g, h)
               PROVE  /\ h.arr \in 1..Len(arrays'[g])
                      /\ h.len <= Len(arrays'[g][h.arr])
                      /\ Len(arrays'[g][h.arr]) = Len(arrays[g][h.arr])
    OBVIOUS
  <2>1. h.arr \in 1..Len(arrays[g]) /\ h.len <= Len(arrays[g][h.arr])
    BY DEF InBounds
  <2>2. Len(arrays'[g]) >= Len(arrays[g])
    BY DEF ArraysExtend
  <2>3. Len(arrays'[g][h.arr]) = Len(arrays[g][h.arr])
    BY <2>1 DEF ArraysExtend
  <2>4. g \in Games
    BY DEF TypeOK
  <2> QED
    BY <1>1, <2>1, <2>2, <2>3, <2>4
<1>3. hdr[d] \in Header
  BY DEF TypeOK
<1>4. Busy(d)' = Busy(d)
  BY DEF Busy, Kept
<1>5. at[d] \in {"grow", "store", "setlen", "setelem", "search", "shift", "shrink"} => Busy(d)
  BY DEF Busy
<1> QED
  BY <1>2, <1>3, <1>4, <1>5 DEF LocalOK, Kept, InBounds

-----------------------------------------------------------------------------
(* One lemma per family of steps *)

\* Refusals, StartGame and the runtime's fault touch nothing the invariant is about.
Idling(c) ==
  CreateRefused(c) \/ JoinRefused(c) \/ LeaveRefused(c) \/ StartRefused(c)
    \/ StartGame(c) \/ MapFault(c)

LEMMA IdlingPreserves ==
  ASSUME IInv, NEW c \in Clients, Idling(c)
  PROVE  IInv'
<1>1. UNCHANGED <<shared, private, at, frame, quitting>>
  BY DEF Idling, CreateRefused, JoinRefused, LeaveRefused, StartRefused, StartGame,
         MapFault, Refuse, Request
<1>2. reply' \in [Clients -> Replies] /\ requests' \in Nat /\ up' \in BOOLEAN
  <2>1. (\E err \in Errors : Refuse(c, err)) \/ StartGame(c) \/ MapFault(c)
    BY DEF Idling, CreateRefused, JoinRefused, LeaveRefused, StartRefused, Errors
  <2>2. TypeOK
    BY DEF IInv
  <2>3. CASE \E err \in Errors : Refuse(c, err)
    BY <2>2, <2>3 DEF Refuse, Request, Answer, Replies, TypeOK
  <2>4. CASE StartGame(c)
    BY <2>2, <2>4 DEF StartGame, Request, TypeOK
  <2>5. CASE MapFault(c)
    BY <2>2, <2>5 DEF MapFault, TypeOK
  <2> QED
    BY <2>1, <2>3, <2>4, <2>5
<1>3. TypeOK'
  BY <1>1, <1>2 DEF IInv, TypeOK, shared, private, frame
<1>4. Published' = Published
  BY <1>1 DEF Published, shared, frame
<1>5. MapOK' /\ ArraysOK' /\ OwnGameExists' /\ PumpOfGame'
  BY <1>1, <1>4 DEF IInv, MapOK, ArraysOK, OwnGameExists, PumpOfGame, KnownIds, InBounds,
              shared, private, frame
<1>6. LocalsOK'
  BY <1>1, <1>4 DEF IInv, LocalsOK, LocalOK, Busy, InBounds, shared, frame
<1> QED
  BY <1>3, <1>5, <1>6 DEF IInv

\* Steps that only move a handler and change its locals.
LEMMA LocalStepPreserves ==
  ASSUME IInv, NEW c \in Clients, UNCHANGED <<shared, private>>, TypeOK',
         \A d \in Clients \ {c} : Kept(d), LocalOK(c)', Published' = Published
  PROVE  IInv'
<1>1. MapOK' /\ ArraysOK' /\ OwnGameExists' /\ PumpOfGame'
  BY DEF IInv, MapOK, ArraysOK, OwnGameExists, PumpOfGame, KnownIds, InBounds,
         shared, private
<1>2. ArraysExtend
  <2>1. \A g \in made : Len(arrays[g]) \in Nat
    BY LenProperties DEF IInv, TypeOK
  <2> QED
    BY <2>1 DEF ArraysExtend, shared
<1>3. ASSUME NEW d \in Clients \ {c}
      PROVE  LocalOK(d)'
  BY <1>2, StandingStill DEF IInv, LocalsOK, shared
<1> QED
  BY <1>1, <1>3 DEF IInv, LocalsOK

Moving(c) ==
  \/ LockGames(c) \/ FindGame(c) \/ LoadHeader(c) \/ LeaveGame(c) \/ EndHandler(c)
  \/ LoadClients(c) \/ SearchClient(c) \/ EndShift(c)

LEMMA MovingPreserves ==
  ASSUME IInv, NEW c \in Clients, Moving(c)
  PROVE  IInv'
<1> USE DEF IInv
<1>1. UNCHANGED <<shared, private>>
  BY DEF Moving, LockGames, FindGame, LoadHeader, LeaveGame, FindOwnGame, EndHandler,
         LoadClients, SearchClient, EndShift, Continue
<1>2. /\ \A d \in Clients \ {c} : Kept(d)
      /\ requests' \in Nat /\ quitting' \in SUBSET Clients /\ up' \in BOOLEAN
      /\ reply' \in [Clients -> Replies]
  BY DEF Moving, LockGames, FindGame, LoadHeader, LeaveGame, FindOwnGame, EndHandler,
         LoadClients, SearchClient, EndShift, Continue, Request, Goto, Kept, TypeOK, frame
<1>3. LocalOK(c)
  BY DEF LocalsOK
<1>4. \A g \in made : slice[g] \in Header /\ InBounds(g, slice[g])
  BY DEF ArraysOK, TypeOK
<1>5. Published' = Published
  <2>1. at[c] # "unlocked" /\ at'[c] # "unlocked"
    BY DEF Moving, LockGames, FindGame, LoadHeader, LeaveGame, FindOwnGame, EndHandler,
           LoadClients, SearchClient, EndShift, Continue, Request, Goto, TypeOK
  <2> QED
    BY <1>1, <1>2, <2>1, PublishedSame DEF shared
<1>6. CASE LockGames(c)
  <2>1. at' = [at EXCEPT ![c] = "inserting"] /\ at[c] = "insert" /\ UNCHANGED frame
    BY <1>6 DEF LockGames, Continue, Goto
  <2>2. TypeOK'
    BY <1>1, <1>2, <2>1 DEF TypeOK, Labels, shared, private, frame
  <2>3. LocalOK(c)'
    BY <1>5, <1>1, <1>3, <2>1 DEF LocalOK, Busy, TypeOK, shared, frame
  <2> QED
    BY <1>1, <1>2, <2>2, <2>3, <1>5, LocalStepPreserves
<1>7. CASE FindGame(c) \/ (gameID[c] \in KnownIds /\ FindOwnGame(c))
  <2>1. /\ \E id \in KnownIds : game' = [game EXCEPT ![c] = games[id]]
        /\ at' = [at EXCEPT ![c] = "append"] \/ at' = [at EXCEPT ![c] = "scan"]
        /\ UNCHANGED <<hdr, pos>>
    BY <1>7 DEF FindGame, FindOwnGame, Goto
  <2>2. \A id \in KnownIds : games[id] \in Published /\ games[id] \in made
    BY DEF MapOK
  <2>3. TypeOK'
    BY <1>1, <1>2, <2>1, <2>2 DEF TypeOK, Labels, shared, private
  <2>4. LocalOK(c)'
    BY <1>5, <1>1, <2>1, <2>2 DEF LocalOK, Busy, TypeOK, shared
  <2> QED
    BY <1>1, <1>2, <2>3, <2>4, <1>5, LocalStepPreserves
<1>8. CASE at' = [at EXCEPT ![c] = "gone"] /\ UNCHANGED frame
  <2>1. TypeOK'
    BY <1>1, <1>2, <1>8 DEF TypeOK, Labels, shared, private, frame
  <2>2. LocalOK(c)'
    BY <1>5, <1>8 DEF LocalOK, Busy, TypeOK, frame
  <2> QED
    BY <1>1, <1>2, <2>1, <2>2, <1>5, LocalStepPreserves
<1>9. CASE LoadHeader(c)
  <2> DEFINE full == slice[game[c]].len = Len(arrays[game[c]][slice[game[c]].arr])
  <2>1. /\ at[c] = "append"
        /\ at' = [at EXCEPT ![c] = IF full THEN "grow" ELSE "store"]
        /\ hdr' = [hdr EXCEPT ![c] = slice[game[c]]]
        /\ UNCHANGED <<game, pos>>
    BY <1>9 DEF LoadHeader, Continue, Goto
  <2>2. game[c] \in made
    BY <1>3, <2>1 DEF LocalOK, Busy
  <2>3. TypeOK'
    BY <1>1, <1>2, <1>4, <2>1, <2>2 DEF TypeOK, Labels, shared, private
  <2>4. Len(arrays[game[c]][slice[game[c]].arr]) \in Nat
    <3>1. arrays[game[c]] \in Seq(Seq(Slot))
      BY <2>2 DEF TypeOK
    <3>2. slice[game[c]].arr \in 1..Len(arrays[game[c]])
      BY <1>4, <2>2 DEF InBounds
    <3> QED
      BY <3>1, <3>2, ElementOfSeq, LenProperties
  <2>5. /\ hdr'[c] = slice[game[c]] /\ game'[c] = game[c]
        /\ at'[c] = IF full THEN "grow" ELSE "store"
    BY <2>1 DEF TypeOK
  <2>6. ~full => slice[game[c]].len < Len(arrays[game[c]][slice[game[c]].arr])
    BY <1>4, <2>2, <2>4 DEF InBounds, Header
  <2>7. LocalOK(c)'
    BY <1>5, <1>1, <1>3, <1>4, <2>1, <2>2, <2>5, <2>6, SMTT(30) DEF LocalOK, Busy, InBounds, shared
  <2> QED
    BY <1>1, <1>2, <2>3, <2>7, <1>5, LocalStepPreserves
<1>10. CASE LoadClients(c)
  <2>1. /\ at[c] = "scan"
        /\ at' = [at EXCEPT ![c] = "search"]
        /\ hdr' = [hdr EXCEPT ![c] = slice[game[c]]]
        /\ pos' = [pos EXCEPT ![c] = 1]
        /\ UNCHANGED game
    BY <1>10 DEF LoadClients, Continue, Goto
  <2>2. game[c] \in made
    BY <1>3, <2>1 DEF LocalOK, Busy
  <2>3. TypeOK'
    BY <1>1, <1>2, <1>4, <2>1, <2>2 DEF TypeOK, Labels, shared, private
  <2>4. LocalOK(c)'
    BY <1>5, <1>1, <1>3, <1>4, <2>1, <2>2 DEF LocalOK, Busy, InBounds, TypeOK, shared
  <2> QED
    BY <1>1, <1>2, <2>3, <2>4, <1>5, LocalStepPreserves
<1>11. CASE SearchClient(c)
  <2> DEFINE ended == pos[c] > hdr[c].len
             isSelf == ~ended /\ arrays[game[c]][hdr[c].arr][pos[c]] = c
             next == IF ended THEN "shrink" ELSE IF isSelf THEN "shift" ELSE "search"
  <2>1. /\ at[c] = "search"
        /\ at' = [at EXCEPT ![c] = next]
        /\ pos' = [pos EXCEPT ![c] = IF ended \/ isSelf THEN pos[c] ELSE pos[c] + 1]
        /\ UNCHANGED <<game, hdr>>
    BY <1>11 DEF SearchClient, Continue, Goto
  <2>2. pos[c] \in Nat /\ hdr[c].len \in Nat /\ pos[c] >= 1
    BY <1>3, <2>1 DEF TypeOK, Header, LocalOK
  <2>3. TypeOK'
    BY <1>1, <1>2, <2>1, <2>2 DEF TypeOK, Labels, shared, private
  <2>4. /\ game[c] \in Published /\ game[c] \in made
        /\ InBounds(game[c], hdr[c])
    BY <1>3, <2>1 DEF LocalOK, Busy
  <2>5. /\ at'[c] = next
        /\ pos'[c] = IF ended \/ isSelf THEN pos[c] ELSE pos[c] + 1
        /\ game'[c] = game[c] /\ hdr'[c] = hdr[c]
    BY <2>1 DEF TypeOK
  <2>6. pos'[c] >= 1 /\ (at'[c] = "shift" => pos'[c] <= hdr'[c].len)
    BY <2>2, <2>5
  <2>7. at'[c] \in {"shrink", "shift", "search"}
    BY <2>5
  <2>8. InBounds(game[c], hdr[c])' /\ game'[c] \in made' /\ game'[c] \in Published'
    BY <1>1, <1>5, <2>4, <2>5 DEF InBounds, shared
  <2> HIDE DEF IInv
  <2>9. LocalOK(c)'
    BY <2>6, <2>7, <2>8 DEF LocalOK
  <2> QED
    BY <1>1, <1>2, <1>5, <2>3, <2>9, LocalStepPreserves DEF IInv
<1>12. CASE EndShift(c)
  <2>1. /\ at[c] = "shift"
        /\ at' = [at EXCEPT ![c] = "shrink"]
        /\ hdr' = [hdr EXCEPT ![c].len = hdr[c].len - 1]
        /\ UNCHANGED <<game, pos>>
    BY <1>12 DEF EndShift, Continue, Goto
  <2>2. /\ hdr[c] \in Header /\ pos[c] \in Nat
        /\ 1 <= pos[c] /\ pos[c] <= hdr[c].len
        /\ game[c] \in Published /\ game[c] \in made
        /\ InBounds(game[c], hdr[c])
    BY <1>3, <2>1 DEF LocalOK, Busy, TypeOK
  <2>3. /\ hdr'[c].arr = hdr[c].arr /\ hdr'[c].len = hdr[c].len - 1
        /\ hdr'[c] \in Header
        /\ at'[c] = "shrink" /\ game'[c] = game[c]
    <3>1. hdr'[c] = [hdr[c] EXCEPT !.len = hdr[c].len - 1]
      BY <2>1 DEF TypeOK
    <3>2. hdr[c].len - 1 \in Nat /\ hdr[c].arr \in Nat /\ hdr[c].len \in Nat
      BY <2>2 DEF Header
    <3>3. hdr[c] = [arr |-> hdr[c].arr, len |-> hdr[c].len]
      BY <2>2 DEF Header
    <3>4. hdr'[c] = [arr |-> hdr[c].arr, len |-> hdr[c].len - 1]
      BY <3>1, <3>3
    <3>5. at'[c] = "shrink" /\ game'[c] = game[c]
      BY <2>1 DEF TypeOK
    <3> QED
      BY <3>2, <3>4, <3>5 DEF Header
  <2>4. hdr' \in [Clients -> Header]
    BY <2>1, <2>3 DEF TypeOK
  <2>5. TypeOK'
    BY <1>1, <1>2, <2>1, <2>4 DEF TypeOK, Labels, shared, private
  <2>6. Len(arrays[game[c]][hdr[c].arr]) \in Nat
    <3>1. arrays[game[c]] \in Seq(Seq(Slot)) /\ hdr[c].arr \in 1..Len(arrays[game[c]])
      BY <2>2 DEF TypeOK, InBounds
    <3> QED
      BY <3>1, ElementOfSeq, LenProperties
  <2>7. LocalOK(c)'
    BY <1>5, <1>1, <2>2, <2>3, <2>6 DEF LocalOK, Busy, InBounds, Header, shared
  <2> QED
    BY <1>1, <1>2, <2>5, <2>7, <1>5, LocalStepPreserves
<1> QED
  BY <1>6, <1>7, <1>8, <1>9, <1>10, <1>11, <1>12
  DEF Moving, LeaveGame, EndHandler, FindOwnGame, Goto

\* Steps that write into the backing arrays.
LEMMA ArrayStepPreserves ==
  ASSUME IInv, NEW c \in Clients, TypeOK', LocalOK(c)',
         UNCHANGED <<games, made, idOf, slice, private>>,
         \A d \in Clients \ {c} : Kept(d), Published' = Published,
         ArraysExtend,
         \A g \in made : \A a \in 1..Len(arrays'[g]) : Len(arrays'[g][a]) >= 1
  PROVE  IInv'
<1>1. MapOK' /\ OwnGameExists' /\ PumpOfGame'
  BY DEF IInv, MapOK, OwnGameExists, PumpOfGame, KnownIds, private
<1>2. ASSUME NEW g \in made
      PROVE  /\ slice[g].arr \in 1..Len(arrays'[g])
             /\ slice[g].len <= Len(arrays'[g][slice[g].arr])
  <2>1. g \in Games /\ InBounds(g, slice[g])
    BY DEF IInv, TypeOK, ArraysOK
  <2>2. Len(arrays[g]) \in Nat /\ Len(arrays'[g]) \in Nat
    BY <2>1, LenProperties DEF IInv, TypeOK
  <2>3. slice[g].arr \in 1..Len(arrays[g]) /\ slice[g].len <= Len(arrays[g][slice[g].arr])
    BY <2>1 DEF InBounds
  <2>4. /\ Len(arrays'[g]) >= Len(arrays[g])
        /\ Len(arrays'[g][slice[g].arr]) = Len(arrays[g][slice[g].arr])
    BY <2>3 DEF ArraysExtend
  <2> QED
    BY <2>2, <2>3, <2>4
<1>3. ArraysOK'
  BY <1>2 DEF ArraysOK, InBounds
<1>4. ASSUME NEW d \in Clients \ {c}
      PROVE  LocalOK(d)'
  BY StandingStill DEF IInv, LocalsOK
<1> QED
  BY <1>1, <1>3, <1>4 DEF IInv, LocalsOK

\* What a store into one backing array of a game in use does.
LEMMA StoreStep ==
  ASSUME TypeOK, ArraysOK, NEW g \in made, NEW a \in 1..Len(arrays[g]),
         NEW i \in Int, NEW e \in Slot,
         arrays' = [arrays EXCEPT ![g][a][i] = e]
  PROVE  /\ arrays' \in [Games -> Seq(Seq(Slot))]
         /\ ArraysExtend
         /\ \A h \in made : Len(arrays'[h]) = Len(arrays[h])
         /\ \A h \in made : \A k \in 1..Len(arrays'[h]) : Len(arrays'[h][k]) >= 1
<1>1. g \in Games /\ arrays[g] \in Seq(Seq(Slot))
  BY DEF TypeOK
<1> DEFINE s == [arrays[g] EXCEPT ![a][i] = e]
<1>2. /\ s \in Seq(Seq(Slot))
      /\ Len(s) = Len(arrays[g])
      /\ \A k \in 1..Len(arrays[g]) : Len(s[k]) = Len(arrays[g][k])
  BY <1>1, StoreInArray
<1>3. arrays' = [arrays EXCEPT ![g] = s]
  OBVIOUS
<1> HIDE DEF s
<1>4. arrays'[g] = s /\ \A h \in Games \ {g} : arrays'[h] = arrays[h]
  BY <1>1, <1>3 DEF TypeOK
<1>5. arrays' \in [Games -> Seq(Seq(Slot))]
  BY <1>1, <1>2, <1>3 DEF TypeOK
<1>6. \A h \in made : h \in Games /\ Len(arrays[h]) \in Nat
  BY LenProperties DEF TypeOK
<1>7. \A h \in made : /\ Len(arrays'[h]) = Len(arrays[h])
                      /\ \A k \in 1..Len(arrays[h]) : Len(arrays'[h][k]) = Len(arrays[h][k])
  BY <1>2, <1>4, <1>6
<1> QED
  BY <1>5, <1>6, <1>7 DEF ArraysExtend, ArraysOK

LEMMA StoreElementPreserves ==
  ASSUME IInv, NEW c \in Clients, StoreElement(c)
  PROVE  IInv'
<1> USE DEF IInv
<1>1. /\ \/ at[c] = "store" /\ at' = [at EXCEPT ![c] = "setlen"]
         \/ at[c] = "setelem" /\ at' = [at EXCEPT ![c] = "joined"]
      /\ arrays' = [arrays EXCEPT ![game[c]][hdr[c].arr][hdr[c].len + 1] = c]
      /\ UNCHANGED <<games, made, idOf, slice, running, private, frame, reply,
                     requests, quitting, up>>
  BY DEF StoreElement, Continue, Goto
<1>2. /\ game[c] \in made /\ game[c] \in Published /\ hdr[c] \in Header
      /\ InBounds(game[c], hdr[c])
      /\ hdr[c].len < Len(arrays[game[c]][hdr[c].arr])
  BY <1>1 DEF LocalsOK, LocalOK, Busy, TypeOK
<1>3. /\ arrays' \in [Games -> Seq(Seq(Slot))]
      /\ ArraysExtend
      /\ \A h \in made : Len(arrays'[h]) = Len(arrays[h])
      /\ \A h \in made : \A k \in 1..Len(arrays'[h]) : Len(arrays'[h][k]) >= 1
  <2>1. hdr[c].len + 1 \in Int /\ c \in Slot /\ hdr[c].arr \in 1..Len(arrays[game[c]])
    BY <1>2 DEF Header, Slot, InBounds
  <2> QED
    BY <1>1, <1>2, <2>1, StoreStep
<1>4. TypeOK'
  BY <1>1, <1>3 DEF TypeOK, Labels, private, frame
<1>5. \A d \in Clients \ {c} : Kept(d)
  BY <1>1 DEF Kept, TypeOK, frame
<1>6. at'[c] \in {"setlen", "joined"}
  BY <1>1 DEF TypeOK
<1>7. Published' = Published
  BY <1>1, <1>5, <1>6, PublishedSame
<1>8. /\ hdr[c].arr \in 1..Len(arrays'[game[c]])
      /\ Len(arrays'[game[c]][hdr[c].arr]) = Len(arrays[game[c]][hdr[c].arr])
  BY <1>2, <1>3 DEF InBounds, ArraysExtend
<1>9. LocalOK(c)'
  BY <1>1, <1>2, <1>6, <1>8, <1>7 DEF LocalOK, Busy, InBounds, frame
<1> QED
  BY <1>1, <1>7, <1>3, <1>4, <1>5, <1>9, ArrayStepPreserves

LEMMA NextInRange ==
  ASSUME NEW i \in Nat, i >= 1, NEW n \in Nat, i < n, NEW m \in Nat, n <= m
  PROVE  i + 1 \in 1..m
OBVIOUS

LEMMA MoveDownPreserves ==
  ASSUME IInv, NEW c \in Clients, MoveDown(c)
  PROVE  IInv'
<1> USE DEF IInv
<1> DEFINE e == arrays[game[c]][hdr[c].arr][pos[c] + 1]
<1>1. /\ at[c] = "shift" /\ at' = [at EXCEPT ![c] = "shift"]
      /\ pos[c] < hdr[c].len
      /\ arrays' = [arrays EXCEPT ![game[c]][hdr[c].arr][pos[c]] = e]
      /\ pos' = [pos EXCEPT ![c] = pos[c] + 1]
      /\ UNCHANGED <<games, made, idOf, slice, running, private, game, hdr, reply,
                     requests, quitting, up>>
  BY DEF MoveDown, Continue, Goto
<1>2. /\ game[c] \in made /\ game[c] \in Published
      /\ hdr[c] \in Header /\ pos[c] \in Nat /\ pos[c] >= 1
      /\ InBounds(game[c], hdr[c])
  BY <1>1 DEF LocalsOK, LocalOK, Busy, TypeOK
<1>3. e \in Slot
  <2>1. arrays[game[c]] \in Seq(Seq(Slot)) /\ hdr[c].arr \in 1..Len(arrays[game[c]])
    BY <1>2 DEF TypeOK, InBounds
  <2>2. arrays[game[c]][hdr[c].arr] \in Seq(Slot)
    BY <2>1, ElementOfSeq
  <2>3. pos[c] + 1 \in 1..Len(arrays[game[c]][hdr[c].arr])
    <3>1. hdr[c].len \in Nat /\ hdr[c].len <= Len(arrays[game[c]][hdr[c].arr])
      BY <1>2 DEF InBounds, Header
    <3>2. Len(arrays[game[c]][hdr[c].arr]) \in Nat
      BY <2>2, LenProperties
    <3>3. pos[c] < hdr[c].len /\ pos[c] \in Nat /\ pos[c] >= 1
      BY <1>1, <1>2
    <3> HIDE DEF IInv, e
    <3> QED
      BY <3>1, <3>2, <3>3, NextInRange
  <2> QED
    BY <2>2, <2>3, ElementOfSeq
<1> HIDE DEF e
<1>4. /\ arrays' \in [Games -> Seq(Seq(Slot))]
      /\ ArraysExtend
      /\ \A h \in made : Len(arrays'[h]) = Len(arrays[h])
      /\ \A h \in made : \A k \in 1..Len(arrays'[h]) : Len(arrays'[h][k]) >= 1
  <2>1. pos[c] \in Int /\ hdr[c].arr \in 1..Len(arrays[game[c]])
    BY <1>2 DEF InBounds
  <2> QED
    BY <1>1, <1>2, <1>3, <2>1, StoreStep
<1>5. TypeOK'
  <2>1. TypeOK
    OBVIOUS
  <2> HIDE DEF IInv
  <2>2. at' \in [Clients -> Labels] /\ pos' \in [Clients -> Nat]
    BY <1>1, <1>2, <2>1 DEF TypeOK, Labels
  <2> QED
    BY <1>1, <1>4, <2>1, <2>2 DEF TypeOK, private
<1>6. \A d \in Clients \ {c} : Kept(d)
  BY <1>1 DEF Kept, TypeOK
<1>7. at'[c] = "shift" /\ pos'[c] = pos[c] + 1
  BY <1>1 DEF TypeOK
<1>8. Published' = Published
  BY <1>1, <1>6, <1>7, PublishedSame
<1>9. /\ hdr[c].arr \in 1..Len(arrays'[game[c]])
      /\ Len(arrays'[game[c]][hdr[c].arr]) = Len(arrays[game[c]][hdr[c].arr])
  BY <1>2, <1>4 DEF InBounds, ArraysExtend
<1>10. LocalOK(c)'
  <2>1. InBounds(game[c], hdr[c])'
    BY <1>1, <1>2, <1>9 DEF InBounds
  <2>2. pos'[c] >= 1 /\ pos'[c] <= hdr'[c].len
    BY <1>1, <1>2, <1>7 DEF Header
  <2>3. game'[c] \in made' /\ game'[c] \in Published'
    BY <1>1, <1>2, <1>8
  <2> HIDE DEF IInv
  <2> QED
    BY <1>7, <2>1, <2>2, <2>3 DEF LocalOK
<1> QED
  BY <1>1, <1>4, <1>5, <1>6, <1>8, <1>10, ArrayStepPreserves

LEMMA GrowArrayPreserves ==
  ASSUME IInv, NEW c \in Clients, GrowArray(c)
  PROVE  IInv'
<1> USE DEF IInv
<1> DEFINE g == game[c]
           n == Len(arrays[g]) + 1
           old == arrays[g][hdr[c].arr]
<1>1. /\ at[c] = "grow" /\ at' = [at EXCEPT ![c] = "store"]
      /\ arrays' = [arrays EXCEPT ![g] = Append(arrays[g], Grown(old))]
      /\ hdr' = [hdr EXCEPT ![c].arr = n]
      /\ UNCHANGED <<games, made, idOf, slice, running, private, game, pos, reply,
                     requests, quitting, up>>
  BY DEF GrowArray, Continue, Goto
<1>2. /\ g \in made /\ g \in Published /\ g \in Games /\ hdr[c] \in Header
      /\ InBounds(g, hdr[c])
      /\ arrays[g] \in Seq(Seq(Slot))
  BY <1>1 DEF LocalsOK, LocalOK, Busy, TypeOK
<1>3. /\ old \in Seq(Slot) /\ Len(old) \in Nat /\ Len(old) >= 1 /\ hdr[c].len <= Len(old)
      /\ Len(arrays[g]) \in Nat
  <2>1. old \in Seq(Slot)
    BY <1>2, ElementOfSeq DEF InBounds
  <2> QED
    BY <1>2, <2>1, LenProperties DEF InBounds, ArraysOK
<1>4. Grown(old) \in Seq(Slot) /\ Len(Grown(old)) = 2 * Len(old)
  BY <1>3, GrownArray
<1>5. arrays'[g] = Append(arrays[g], Grown(old))
  <2>1. arrays \in [Games -> Seq(Seq(Slot))]
    BY DEF TypeOK
  <2> HIDE DEF IInv
  <2> QED
    BY <1>1, <1>2, <2>1
<1>6. /\ arrays'[g] \in Seq(Seq(Slot)) /\ Len(arrays'[g]) = n /\ arrays'[g][n] = Grown(old)
      /\ \A a \in 1..Len(arrays[g]) : arrays'[g][a] = arrays[g][a]
  BY <1>2, <1>4, <1>5, AppendProperties
<1>7. hdr'[c] = [arr |-> n, len |-> hdr[c].len]
  <2>1. hdr'[c] = [hdr[c] EXCEPT !.arr = n]
    BY <1>1 DEF TypeOK
  <2>2. hdr[c] = [arr |-> hdr[c].arr, len |-> hdr[c].len]
    BY <1>2 DEF Header
  <2> QED
    BY <2>1, <2>2
<1>8. hdr'[c].arr = n /\ hdr'[c].len = hdr[c].len /\ hdr'[c] \in Header
  BY <1>2, <1>3, <1>7 DEF Header
<1>9. TypeOK'
  <2>1. arrays' \in [Games -> Seq(Seq(Slot))]
    BY <1>1, <1>2, <1>5, <1>6 DEF TypeOK
  <2>2. hdr' \in [Clients -> Header]
    BY <1>1, <1>8 DEF TypeOK
  <2> QED
    BY <1>1, <2>1, <2>2 DEF TypeOK, Labels, private
<1>10. \A d \in Clients \ {c} : Kept(d)
  BY <1>1 DEF Kept, TypeOK
<1>11. Published' = Published
  <2>1. at'[c] = "store"
    BY <1>1 DEF TypeOK
  <2> QED
    BY <1>1, <1>10, <2>1, PublishedSame
<1>12. \A h \in made \ {g} : arrays'[h] = arrays[h]
  BY <1>1, <1>2 DEF TypeOK
<1>13. \A h \in made : h \in Games /\ Len(arrays[h]) \in Nat
  BY LenProperties DEF TypeOK
<1>14. ArraysExtend
  <2>1. ASSUME NEW h \in made \ {g}
        PROVE  /\ Len(arrays'[h]) >= Len(arrays[h])
               /\ \A a \in 1..Len(arrays[h]) : Len(arrays'[h][a]) = Len(arrays[h][a])
    <3> HIDE DEF g
    <3> QED
      BY <1>12, <1>13, <2>1
  <2>2. /\ Len(arrays'[g]) >= Len(arrays[g])
        /\ \A a \in 1..Len(arrays[g]) : Len(arrays'[g][a]) = Len(arrays[g][a])
    <3>1. Len(arrays'[g]) = Len(arrays[g]) + 1
      BY <1>6
    <3> HIDE DEF g, n, old
    <3> QED
      BY <1>3, <1>6, <3>1, SMTT(30)
  <2> HIDE DEF g
  <2> QED
    BY <2>1, <2>2 DEF ArraysExtend
<1>15. \A h \in made : \A a \in 1..Len(arrays'[h]) : Len(arrays'[h][a]) >= 1
  <2>1. ASSUME NEW h \in made \ {g}
        PROVE  \A a \in 1..Len(arrays'[h]) : Len(arrays'[h][a]) >= 1
    BY <1>12, <2>1 DEF ArraysOK
  <2>2. ASSUME NEW a \in 1..n
        PROVE  Len(arrays'[g][a]) >= 1
    <3>1. CASE a = n
      BY <1>3, <1>4, <1>6, <3>1
    <3>2. CASE a # n
      <4>1. a \in 1..Len(arrays[g])
        BY <1>3, <3>2
      <4> QED
        BY <1>2, <1>6, <4>1 DEF ArraysOK
    <3> QED
      BY <3>1, <3>2
  <2> QED
    BY <1>6, <2>1, <2>2
<1>16. LocalOK(c)'
  <2>1. at'[c] = "store" /\ game'[c] = g
    BY <1>1 DEF TypeOK
  <2>2. /\ hdr'[c].arr \in 1..Len(arrays'[g])
        /\ hdr'[c].len < Len(arrays'[g][hdr'[c].arr])
        /\ hdr'[c].len <= Len(arrays'[g][hdr'[c].arr])
    <3>1. n \in 1..n /\ hdr[c].len \in Nat
      BY <1>2, <1>3 DEF Header
    <3>2. arrays'[g][hdr'[c].arr] = Grown(old) /\ hdr[c].len < 2 * Len(old)
      BY <1>3, <1>6, <1>8, <3>1, SMTT(30)
    <3> HIDE DEF n, old, g
    <3>3. hdr'[c].arr \in 1..Len(arrays'[g])
      BY <1>6, <1>8, <3>1
    <3>4. Len(arrays'[g][hdr'[c].arr]) = 2 * Len(old) /\ Len(old) \in Nat
      BY <1>3, <1>4, <3>2
    <3>5. hdr'[c].len \in Nat /\ hdr'[c].len < 2 * Len(old)
      BY <1>8, <3>1, <3>2
    <3> HIDE DEF IInv
    <3> QED
      BY <3>3, <3>4, <3>5
  <2> QED
    BY <1>1, <1>2, <1>11, <2>1, <2>2 DEF LocalOK, Busy, InBounds
<1> QED
  BY <1>1, <1>11, <1>9, <1>10, <1>14, <1>15, <1>16, ArrayStepPreserves

\* Steps that publish a new header of game.clients.
LEMMA SliceStepPreserves ==
  ASSUME IInv, NEW c \in Clients, NEW h \in Header,
         game[c] \in made, InBounds(game[c], h),
         slice' = [slice EXCEPT ![game[c]] = h],
         UNCHANGED <<games, made, idOf, arrays, running, private, frame, reply,
                     requests, quitting, up>>,
         NEW label \in {"setelem", "joined", "left"}, at' = [at EXCEPT ![c] = label],
         Busy(c), at[c] \notin {"insert", "inserting", "unlocked"},
         label = "setelem" => at[c] = "store"
  PROVE  IInv'
<1> USE DEF IInv
<1>1. TypeOK'
  BY DEF TypeOK, Labels, private, frame
<1>2. \A d \in Clients \ {c} : Kept(d)
  BY DEF Kept, TypeOK, frame
<1>3. Published' = Published
  <2>1. at'[c] # "unlocked"
    BY DEF TypeOK
  <2> QED
    BY <1>2, <2>1, PublishedSame
<1>4. MapOK' /\ OwnGameExists' /\ PumpOfGame'
  BY <1>3 DEF MapOK, OwnGameExists, PumpOfGame, KnownIds, private
<1>5. ArraysOK'
  BY DEF ArraysOK, InBounds, TypeOK
<1>6. ArraysExtend
  <2>1. \A g \in made : Len(arrays[g]) \in Nat
    BY LenProperties DEF TypeOK
  <2> QED
    BY <2>1 DEF ArraysExtend
<1>7. ASSUME NEW d \in Clients \ {c}
      PROVE  LocalOK(d)'
  BY <1>1, <1>6, <1>2, <1>3, StandingStill DEF LocalsOK
<1>8. LocalOK(c)'
  <2>1. LocalOK(c) /\ at'[c] = label
    BY DEF LocalsOK, TypeOK
  <2> QED
    BY <1>3, <2>1 DEF LocalOK, Busy, InBounds, frame
<1> QED
  BY <1>1, <1>4, <1>5, <1>7, <1>8 DEF LocalsOK

LEMMA PublishPreserves ==
  ASSUME IInv, NEW c \in Clients, PublishLength(c) \/ PublishShorter(c)
  PROVE  IInv'
<1> USE DEF IInv
<1>1. LocalOK(c) /\ hdr[c] \in Header
  BY DEF LocalsOK, TypeOK
<1>2. CASE PublishLength(c)
  <2> DEFINE h == [hdr[c] EXCEPT !.len = hdr[c].len + 1]
  <2>1. /\ slice' = [slice EXCEPT ![game[c]] = h]
        /\ UNCHANGED <<games, made, idOf, arrays, running, private, frame, reply,
                       requests, quitting, up>>
        /\ \/ at[c] = "store" /\ at' = [at EXCEPT ![c] = "setelem"]
           \/ at[c] = "setlen" /\ at' = [at EXCEPT ![c] = "joined"]
    BY <1>2 DEF PublishLength, Continue, Goto
  <2>2. /\ Busy(c) /\ game[c] \in made /\ InBounds(game[c], hdr[c])
        /\ hdr[c].len < Len(arrays[game[c]][hdr[c].arr])
    BY <1>1, <2>1 DEF LocalOK, Busy
  <2>3. Len(arrays[game[c]][hdr[c].arr]) \in Nat
    <3>1. arrays[game[c]] \in Seq(Seq(Slot)) /\ hdr[c].arr \in 1..Len(arrays[game[c]])
      BY <2>2 DEF TypeOK, InBounds
    <3> QED
      <4>1. arrays[game[c]][hdr[c].arr] \in Seq(Slot)
        BY <3>1, ElementOfSeq
      <4> QED
        BY <4>1, LenProperties
  <2>4. hdr[c] = [arr |-> hdr[c].arr, len |-> hdr[c].len]
    BY <1>1 DEF Header
  <2>5. h = [arr |-> hdr[c].arr, len |-> hdr[c].len + 1]
    BY <2>4
  <2>6. h \in Header /\ InBounds(game[c], h)
    <3>1. hdr[c].arr \in 1..Len(arrays[game[c]]) /\ hdr[c].arr \in Nat /\ hdr[c].len \in Nat
      BY <1>1, <2>2 DEF Header, InBounds
    <3>2. h.arr = hdr[c].arr /\ h.len = hdr[c].len + 1
      BY <2>5
    <3>3. h \in Header
      BY <2>5, <3>1 DEF Header
    <3> HIDE DEF IInv, h
    <3>4. h.arr \in 1..Len(arrays[game[c]]) /\ h.len <= Len(arrays[game[c]][h.arr])
      BY <2>2, <2>3, <3>1, <3>2, SMTT(30)
    <3> QED
      BY <3>3, <3>4 DEF InBounds
  <2> HIDE DEF h
  <2> QED
    BY <2>1, <2>2, <2>6, SliceStepPreserves
<1>3. CASE PublishShorter(c)
  <2>1. /\ slice' = [slice EXCEPT ![game[c]] = hdr[c]]
        /\ UNCHANGED <<games, made, idOf, arrays, running, private, frame, reply,
                       requests, quitting, up>>
        /\ at[c] = "shrink" /\ at' = [at EXCEPT ![c] = "left"]
    BY <1>3 DEF PublishShorter, Continue, Goto
  <2>2. Busy(c) /\ game[c] \in made /\ InBounds(game[c], hdr[c])
    BY <1>1, <2>1 DEF LocalOK, Busy
  <2> QED
    BY <1>1, <2>1, <2>2, SliceStepPreserves
<1> QED
  BY <1>2, <1>3

LEMMA NewGamePreserves ==
  ASSUME IInv, NEW c \in Clients, NewGame(c)
  PROVE  IInv'
<1> USE DEF IInv
<1>1. PICK g \in Games \ made, id \in GameIds :
        /\ made' = made \cup {g}
        /\ idOf' = [idOf EXCEPT ![g] = id]
        /\ arrays' = [arrays EXCEPT ![g] = << <<c>> >>]
        /\ slice' = [slice EXCEPT ![g] = [arr |-> 1, len |-> 1]]
        /\ game' = [game EXCEPT ![c] = g]
  BY DEF NewGame
<1>2. /\ at[c] = "idle" /\ at' = [at EXCEPT ![c] = "insert"]
      /\ requests' = requests + 1
      /\ UNCHANGED <<games, running, private, hdr, pos, reply, quitting, up>>
  BY DEF NewGame, Request, Goto
<1>3. /\ <<c>> \in Seq(Slot) /\ << <<c>> >> \in Seq(Seq(Slot))
      /\ Len(<< <<c>> >>) = 1 /\ << <<c>> >>[1] = <<c>> /\ Len(<<c>>) = 1
  BY DEF Slot
<1> DEFINE start == << <<c>> >>
<1>4. start \in Seq(Seq(Slot)) /\ Len(start) = 1 /\ Len(start[1]) = 1
  BY <1>3
<1> HIDE DEF start
<1>5. [arr |-> 1, len |-> 1] \in Header
  BY DEF Header
<1>6. arrays' = [arrays EXCEPT ![g] = start]
  BY <1>1 DEF start
<1>7. TypeOK'
  <2>1. made' \in SUBSET Games /\ game' \in [Clients -> Games \cup {NoGame}]
    BY <1>1 DEF TypeOK
  <2>2. idOf' \in [Games -> GameIds \cup {NoId}]
    BY <1>1 DEF TypeOK
  <2>3. arrays' \in [Games -> Seq(Seq(Slot))]
    BY <1>4, <1>6 DEF TypeOK
  <2>4. slice' \in [Games -> Header]
    BY <1>1, <1>5 DEF TypeOK
  <2>5. at' \in [Clients -> Labels] /\ requests' \in Nat
    BY <1>2 DEF TypeOK, Labels
  <2> QED
    BY <1>2, <2>1, <2>2, <2>3, <2>4, <2>5 DEF TypeOK, private
<1>8. /\ arrays'[g] = start /\ slice'[g] = [arr |-> 1, len |-> 1] /\ idOf'[g] = id
      /\ \A h \in made : h \in Games /\ h # g
      /\ \A h \in made : arrays'[h] = arrays[h] /\ slice'[h] = slice[h] /\ idOf'[h] = idOf[h]
  BY <1>1, <1>6 DEF TypeOK
<1>9. \A d \in Clients \ {c} : Kept(d)
  BY <1>1, <1>2 DEF Kept, TypeOK
<1>10. Published' = Published /\ Published \subseteq made
  <2>1. at'[c] = "insert"
    BY <1>2 DEF TypeOK
  <2> QED
    BY <1>2, <1>9, <2>1, PublishedSame DEF MapOK
<1>11. MapOK'
  BY <1>1, <1>2, <1>8, <1>10 DEF MapOK, KnownIds
<1>12. ArraysOK'
  <2>1. ASSUME NEW h \in made
        PROVE  /\ slice'[h].arr \in 1..Len(arrays'[h])
               /\ slice'[h].len <= Len(arrays'[h][slice'[h].arr])
               /\ \A a \in 1..Len(arrays'[h]) : Len(arrays'[h][a]) >= 1
    BY <1>8 DEF ArraysOK, InBounds
  <2>2. /\ slice'[g].arr \in 1..Len(arrays'[g])
        /\ slice'[g].len <= Len(arrays'[g][slice'[g].arr])
        /\ \A a \in 1..Len(arrays'[g]) : Len(arrays'[g][a]) >= 1
    <3>1. slice'[g].arr = 1 /\ slice'[g].len = 1
      BY <1>8
    <3>2. arrays'[g] = start
      BY <1>8
    <3>3. \A a \in 1..1 : a = 1
      OBVIOUS
    <3>4. Len(arrays'[g]) = 1 /\ Len(arrays'[g][1]) = 1
      BY <1>4, <3>2, Zenon
    <3>5. /\ slice'[g].arr \in 1..Len(arrays'[g])
          /\ slice'[g].len <= Len(arrays'[g][slice'[g].arr])
      BY <3>1, <3>3, <3>4
    <3>6. ASSUME NEW a \in 1..Len(arrays'[g])
          PROVE  Len(arrays'[g][a]) >= 1
      <4>1. a = 1
        BY <1>4, <3>2, <3>3
      <4> QED
        BY <1>4, <3>2, <4>1
    <3> QED
      BY <3>5, <3>6
  <2> QED
    BY <1>1, <2>1, <2>2 DEF ArraysOK, InBounds
<1>13. OwnGameExists' /\ PumpOfGame'
  <2>1. OwnGameExists'
    BY <1>2 DEF OwnGameExists, KnownIds, private
  <2>2. PumpOfGame'
    BY <1>2, <1>8, <1>10 DEF PumpOfGame, private
  <2> QED
    BY <2>1, <2>2
<1>14. ArraysExtend
  <2>1. \A h \in made : Len(arrays[h]) \in Nat
    BY LenProperties DEF TypeOK
  <2> QED
    BY <1>8, <2>1 DEF ArraysExtend
<1>15. ASSUME NEW d \in Clients \ {c}
       PROVE  LocalOK(d)'
  BY <1>1, <1>7, <1>14, <1>9, <1>10, StandingStill DEF LocalsOK
<1>16. LocalOK(c)'
  <2>1. at'[c] = "insert" /\ game'[c] \in made'
    BY <1>1, <1>2 DEF TypeOK
  <2> QED
    BY <2>1 DEF LocalOK, Busy
<1> QED
  BY <1>7, <1>11, <1>12, <1>13, <1>15, <1>16 DEF LocalsOK

LEMMA UnlockGamesPreserves ==
  ASSUME IInv, NEW c \in Clients, UnlockGames(c)
  PROVE  IInv'
<1> USE DEF IInv
<1> DEFINE g == game[c]
<1>1. /\ at[c] = "inserting" /\ at' = [at EXCEPT ![c] = "unlocked"]
      /\ games' = [games EXCEPT ![idOf[g]] = g]
      /\ UNCHANGED <<made, idOf, arrays, slice, running, private, frame, reply,
                     requests, quitting, up>>
  BY DEF UnlockGames, Continue, Goto
<1>2. g \in made /\ g \in Games /\ g # NoGame /\ idOf[g] \in GameIds
  BY <1>1, SetsAssumption DEF LocalsOK, LocalOK, Busy, MapOK, TypeOK
<1>3. TypeOK'
  BY <1>1, <1>2 DEF TypeOK, Labels, private, frame
<1>4. KnownIds' = KnownIds \cup {idOf[g]}
  BY <1>1, <1>2 DEF KnownIds, TypeOK
<1>5. Published' = Published \cup {g}
  <2>1. {d \in Clients : at'[d] = "unlocked"} = {d \in Clients : at[d] = "unlocked"} \cup {c}
    BY <1>1 DEF TypeOK
  <2> QED
    BY <1>1, <2>1 DEF Published, frame
<1>6. MapOK'
  BY <1>1, <1>2, <1>4, <1>5 DEF MapOK, TypeOK, KnownIds
<1>7. ArraysOK'
  BY <1>1 DEF ArraysOK, InBounds
<1>8. OwnGameExists'
  BY <1>1, <1>4 DEF OwnGameExists, private
<1>9. PumpOfGame'
  BY <1>1, <1>5 DEF PumpOfGame, private
<1>10. ArraysExtend
  <2>1. \A h \in made : Len(arrays[h]) \in Nat
    BY LenProperties DEF TypeOK
  <2> QED
    BY <1>1, <2>1 DEF ArraysExtend
<1>11. ASSUME NEW d \in Clients \ {c}
       PROVE  LocalOK(d)'
  <2>1. Kept(d)
    BY <1>1 DEF Kept, TypeOK, frame
  <2> QED
    BY <1>1, <1>3, <1>5, <1>10, <2>1, StandingStill DEF LocalsOK
<1>12. LocalOK(c)'
  <2>1. at'[c] = "unlocked" /\ game'[c] \in made' /\ game'[c] \in Published'
    BY <1>1, <1>2, <1>5 DEF TypeOK, frame
  <2> QED
    BY <2>1 DEF LocalOK, Busy
<1> QED
  BY <1>3, <1>6, <1>7, <1>8, <1>9, <1>11, <1>12 DEF LocalsOK

LEMMA StartReadLoopPreserves ==
  ASSUME IInv, NEW c \in Clients, StartReadLoop(c)
  PROVE  IInv'
<1> USE DEF IInv
<1> DEFINE g == game[c]
<1>1. /\ at[c] = "unlocked" /\ at' = [at EXCEPT ![c] = "started"]
      /\ running' = running \cup {g}
      /\ UNCHANGED <<games, made, idOf, arrays, slice, private, frame, reply,
                     requests, quitting, up>>
  BY DEF StartReadLoop, Continue, Goto
<1>2. g \in made /\ g \in Games
  BY <1>1 DEF LocalsOK, LocalOK, Busy, TypeOK
<1>3. TypeOK'
  BY <1>1, <1>2 DEF TypeOK, Labels, private, frame
<1>4. Published' = Published
  <2>1. {d \in Clients : at[d] = "unlocked"} = {d \in Clients : at'[d] = "unlocked"} \cup {c}
    BY <1>1 DEF TypeOK
  <2> QED
    BY <1>1, <2>1 DEF Published, frame
<1>5. MapOK' /\ ArraysOK' /\ OwnGameExists' /\ PumpOfGame'
  BY <1>1, <1>4 DEF MapOK, ArraysOK, OwnGameExists, PumpOfGame, KnownIds, InBounds, private
<1>6. ArraysExtend
  <2>1. \A h \in made : Len(arrays[h]) \in Nat
    BY LenProperties DEF TypeOK
  <2> QED
    BY <1>1, <2>1 DEF ArraysExtend
<1>7. ASSUME NEW d \in Clients \ {c}
      PROVE  LocalOK(d)'
  <2>1. Kept(d)
    BY <1>1 DEF Kept, TypeOK, frame
  <2> QED
    BY <1>1, <1>3, <1>4, <1>6, <2>1, StandingStill DEF LocalsOK
<1>8. LocalOK(c)'
  <2>1. at'[c] = "started" /\ game'[c] \in made' /\ game'[c] \in Published'
    <3>1. g \in Published
      BY <1>1 DEF Published
    <3> QED
      BY <1>1, <1>2, <1>4, <3>1 DEF TypeOK, frame
  <2> QED
    BY <2>1 DEF LocalOK, Busy
<1> QED
  BY <1>3, <1>5, <1>7, <1>8 DEF LocalsOK

LEMMA FinishPreserves ==
  ASSUME IInv, NEW c \in Clients, FinishCreate(c) \/ FinishJoin(c) \/ FinishLeave(c)
  PROVE  IInv'
<1> USE DEF IInv
<1>1. /\ at[c] \in {"started", "joined", "left"}
      /\ at' = [at EXCEPT ![c] = "idle"] \/ at' = [at EXCEPT ![c] = "gone"]
      /\ reply' \in [Clients -> Replies]
      /\ game' = [game EXCEPT ![c] = NoGame]
      /\ hdr' = [hdr EXCEPT ![c] = NoHeader]
      /\ pos' = [pos EXCEPT ![c] = 0]
      /\ UNCHANGED <<shared, requests, quitting, up>>
  BY DEF FinishCreate, FinishJoin, FinishLeave, Continue, Goto, Answer, Return, AfterLeave, TypeOK, Replies
<1>2. \/ /\ gameID' = [gameID EXCEPT ![c] = idOf[game[c]]]
         /\ gamePump' = [gamePump EXCEPT ![c] = game[c]]
         /\ game[c] \in Published /\ game[c] \in made
      \/ /\ gameID' = [gameID EXCEPT ![c] = NoId]
         /\ UNCHANGED gamePump
  BY DEF FinishCreate, FinishJoin, FinishLeave, Continue, LocalsOK, LocalOK, Busy
<1>3. \A g \in Published : g \in Games /\ g # NoGame /\ idOf[g] \in KnownIds /\ idOf[g] \in GameIds
  BY SetsAssumption DEF MapOK, TypeOK
<1>4. TypeOK'
  BY <1>1, <1>2, <1>3 DEF TypeOK, Labels, NoHeader, Header, shared
<1>5. Published' = Published
  <2>1. at'[c] # "unlocked" /\ \A d \in Clients \ {c} : Kept(d)
    BY <1>1 DEF Kept, TypeOK
  <2> QED
    BY <1>1, <2>1, PublishedSame DEF shared
<1>6. MapOK' /\ ArraysOK'
  BY <1>1, <1>5 DEF MapOK, KnownIds, ArraysOK, InBounds, shared
<1>7. KnownIds' = KnownIds
  BY <1>1 DEF KnownIds, shared
<1>8. OwnGameExists'
  BY <1>2, <1>3, <1>7 DEF OwnGameExists, TypeOK
<1>9. PumpOfGame'
  <2>1. ASSUME NEW d \in Clients \ {c}
        PROVE  /\ gamePump'[d] # NoGame => gamePump'[d] \in Published
               /\ gameID'[d] # NoId => gamePump'[d] # NoGame /\ idOf[gamePump'[d]] = gameID'[d]
    <3>1. gameID'[d] = gameID[d] /\ gamePump'[d] = gamePump[d]
      BY <1>2 DEF TypeOK
    <3> QED
      BY <3>1 DEF PumpOfGame
  <2>2. /\ gamePump'[c] # NoGame => gamePump'[c] \in Published
        /\ gameID'[c] # NoId => gamePump'[c] # NoGame /\ idOf[gamePump'[c]] = gameID'[c]
    <3>1. CASE /\ gameID'[c] = idOf[game[c]] /\ gamePump'[c] = game[c]
               /\ game[c] \in Published
      BY <1>3, <3>1
    <3>2. CASE gameID'[c] = NoId /\ gamePump'[c] = gamePump[c]
      BY <3>2 DEF PumpOfGame
    <3> QED
      BY <1>2, <3>1, <3>2 DEF TypeOK
  <2> QED
    BY <1>1, <1>5, <2>1, <2>2 DEF PumpOfGame, shared
<1>10. ArraysExtend
  <2>1. \A h \in made : Len(arrays[h]) \in Nat
    BY LenProperties DEF TypeOK
  <2> QED
    BY <1>1, <2>1 DEF ArraysExtend, shared
<1>11. ASSUME NEW d \in Clients \ {c}
       PROVE  LocalOK(d)'
  <2>1. Kept(d)
    BY <1>1 DEF Kept, TypeOK
  <2> QED
    BY <1>1, <1>4, <1>10, <1>5, <2>1, StandingStill DEF LocalsOK, shared
<1>12. LocalOK(c)'
  <2>1. at'[c] \in {"idle", "gone"}
    BY <1>1 DEF TypeOK
  <2> QED
    BY <2>1 DEF LocalOK, Busy
<1> QED
  BY <1>4, <1>6, <1>8, <1>9, <1>11, <1>12 DEF LocalsOK

-----------------------------------------------------------------------------
(* The theorems *)

\* The invariant holds at the start and is preserved by every step.
LEMMA InitEstablishes == Init => IInv
<1> SUFFICES ASSUME Init PROVE IInv
  OBVIOUS
<1> USE DEF Init
<1>1. TypeOK
  <2>1. << >> \in Seq(Seq(Slot))
    OBVIOUS
  <2> QED
    BY <2>1 DEF TypeOK, Labels, Replies, Header, NoHeader
<1>2. MapOK /\ ArraysOK /\ OwnGameExists /\ PumpOfGame
  <2>1. Published = {}
    BY DEF Published
  <2> QED
    BY <2>1 DEF MapOK, ArraysOK, OwnGameExists, PumpOfGame, KnownIds
<1>3. LocalsOK
  BY DEF LocalsOK, LocalOK, Busy
<1> QED
  BY <1>1, <1>2, <1>3 DEF IInv

\* A step of one handler, whatever the others are in the middle of.
LEMMA HandlerStepPreserves ==
  ASSUME IInv, NEW c \in Clients, HandlerStep(c)
  PROVE  IInv'
<1>1. CASE Idling(c)
  BY <1>1, IdlingPreserves
<1>2. CASE Moving(c)
  BY <1>2, MovingPreserves
<1>3. CASE NewGame(c)
  BY <1>3, NewGamePreserves
<1>4. CASE UnlockGames(c)
  BY <1>4, UnlockGamesPreserves
<1>5. CASE StartReadLoop(c)
  BY <1>5, StartReadLoopPreserves
<1>6. CASE GrowArray(c)
  BY <1>6, GrowArrayPreserves
<1>7. CASE StoreElement(c)
  BY <1>7, StoreElementPreserves
<1>8. CASE MoveDown(c)
  BY <1>8, MoveDownPreserves
<1>9. CASE PublishLength(c) \/ PublishShorter(c)
  BY <1>9, PublishPreserves
<1>10. CASE FinishCreate(c) \/ FinishJoin(c) \/ FinishLeave(c)
  BY <1>10, FinishPreserves
<1> QED
  BY <1>1, <1>2, <1>3, <1>4, <1>6, <1>7, <1>8, <1>9, <1>10, <1>5
  DEF HandlerStep, CreateStep, JoinStep, LeaveStep, StartStep, Idling, Moving

\* A step that touches no handler: the process stops, or the relay moves.
LEMMA UnchangedPreserves ==
  ASSUME IInv, UNCHANGED <<shared, private, at, frame, reply, requests, quitting>>,
         up' \in BOOLEAN
  PROVE  IInv'
<1>1. Published' = Published
  BY DEF Published, shared, frame
<1> QED
  BY <1>1 DEF IInv, TypeOK, MapOK, ArraysOK, LocalsOK, LocalOK, OwnGameExists, PumpOfGame,
       KnownIds, InBounds, Busy, shared, private, frame

LEMMA NextPreserves == IInv /\ [Next]_vars => IInv'
<1> SUFFICES ASSUME IInv, [Next]_vars PROVE IInv'
  OBVIOUS
<1>1. CASE UNCHANGED vars
  <2>1. up' \in BOOLEAN
    BY <1>1 DEF IInv, TypeOK, vars
  <2> QED
    BY <1>1, <2>1, UnchangedPreserves DEF vars
<1>2. CASE Next
  BY <1>2, HandlerStepPreserves DEF Next
<1> QED
  BY <1>1, <1>2

LEMMA Invariance == Spec => []IInv
  BY InitEstablishes, NextPreserves, PTL DEF Spec

\* Every variable keeps its type however the handlers interleave; in
\* particular no handler ever leaves the backing array its header names.
THEOREM TypeCorrect == Spec => []TypeOK
<1>1. IInv => TypeOK
  BY DEF IInv
<1> QED
  BY <1>1, Invariance, PTL

\* Disconnect never meets the case its comment calls weird: the game of a
\* client in a game is always in m.games, races and id collisions included.
THEOREM NeverWeird == Spec => []OwnGameExists
<1>1. IInv => OwnGameExists
  BY DEF IInv
<1> QED
  BY <1>1, Invariance, PTL

\* Whatever channel a client may send on, a readLoop serves it or the creator
\* of the game is about to start one, even for a client that has found the
\* game before its readLoop runs or has left it since; and a client in a game
\* sends to a game of that id.
THEOREM PumpIsServed == Spec => []PumpOfGame
<1>1. IInv => PumpOfGame
  BY DEF IInv
<1> QED
  BY <1>1, Invariance, PTL
=============================================================================
