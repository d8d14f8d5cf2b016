----------------------------- MODULE GameManager -----------------------------
(***************************************************************************)
(* The game manager of the Go server (game_manager.go), run by one handler *)
(* goroutine per connected client.                                         *)
(*                                                                         *)
(* GameManager.mu is taken only around the write of m.games in             *)
(* CreateNewGame.  The reads of m.games and every access to game.clients   *)
(* are unsynchronised, so each handler is cut at its accesses to shared    *)
(* memory and the steps of different handlers interleave.  A Go slice is   *)
(* modelled as it is laid out: a header (backing array, length) and the    *)
(* backing arrays, whose elements are shared by every header that points   *)
(* to them.                                                                *)
(*                                                                         *)
(* Two data races have outcomes beyond an interleaving of these steps:     *)
(*   - m.games read while it is being written: the Go runtime may stop the *)
(*     process ("concurrent map read and map write"): MapFault;            *)
(*   - s = append(s, c): the element and the new header are two stores,    *)
(*     seen by others in either order: StoreElement, PublishLength.        *)
(***************************************************************************)
EXTENDS Integers, Sequences, FiniteSets

CONSTANTS
  Clients,      \* the connected, authenticated clients
  Games,        \* the Game objects that can be allocated (bounds CreateNewGame)
  GameIds,      \* what GenerateGameId can return: well-formed six-digit ids
  BadId,        \* an id whose length is not six
  NoId,         \* the empty GameID ""
  NoGame,       \* a nil *Game, or a nil channel when it is a client's pump
  Nil,          \* a nil *Client: the unused part of a backing array
  MaxRequests   \* bound: requests handled in all

ASSUME SetsAssumption ==
  /\ NoGame \notin Games
  /\ NoId \notin GameIds
  /\ BadId \notin GameIds \cup {NoId}
  /\ Nil \notin Clients
ASSUME BoundAssumption == MaxRequests \in Nat

VARIABLES
  \* GameManager and the heap it shares between the handlers
  games,      \* m.games
  made,       \* the Game objects allocated so far
  idOf,       \* Game.id
  arrays,     \* the backing arrays Game.clients has had, oldest first
  slice,      \* Game.clients: the current header
  running,    \* the games whose readLoop goroutine was started
  \* Client
  gameID,     \* Client.gameID
  gamePump,   \* Client.gamePump, named by the game whose ch it is
  \* the handler goroutine of each client
  at,         \* where it is
  game,       \* its local game
  hdr,        \* its local copy of the header of game.clients
  pos,        \* its local index i in removeClient
  reply,      \* the last thing it answered
  requests,   \* how many requests the handlers have taken
  quitting,   \* the handlers that run their deferred disconnect
  up          \* the process is running

shared == <<games, made, idOf, arrays, slice, running>>
private == <<gameID, gamePump>>
frame == <<game, hdr, pos>>
vars == <<shared, private, at, frame, reply, requests, quitting, up>>

Labels == {"idle", "insert", "inserting", "unlocked", "started", "append", "grow",
           "store", "setlen", "setelem", "joined", "scan", "search", "shift", "shrink",
           "left", "gone"}
Errors == {"ERROR_INVALID_CREATE_GAME_ATTEMPT", "ERROR_INVALID_GAME_JOIN_ATTEMPT",
           "ERROR_INVALID_GAME_ID", "ERROR_CLIENT_NOT_IN_GAME",
           "ERROR_INVALID_GAME_DISCONNECT"}
Replies == Errors \cup {"none", "CreateGameSuccess", "JoinGameSuccess", "LeaveGameSuccess"}

Header == [arr : Nat, len : Nat]
NoHeader == [arr |-> 0, len |-> 0]
Slot == Clients \cup {Nil}

TypeOK ==
  /\ games \in [GameIds -> Games \cup {NoGame}]
  /\ made \in SUBSET Games
  /\ idOf \in [Games -> GameIds \cup {NoId}]
  /\ arrays \in [Games -> Seq(Seq(Slot))]
  /\ slice \in [Games -> Header]
  /\ running \in SUBSET Games
  /\ gameID \in [Clients -> GameIds \cup {NoId}]
  /\ gamePump \in [Clients -> Games \cup {NoGame}]
  /\ at \in [Clients -> Labels]
  /\ game \in [Clients -> Games \cup {NoGame}]
  /\ hdr \in [Clients -> Header]
  /\ pos \in [Clients -> Nat]
  /\ reply \in [Clients -> Replies]
  /\ requests \in Nat
  /\ quitting \in SUBSET Clients
  /\ up \in BOOLEAN

Init ==
  /\ games = [id \in GameIds |-> NoGame]
  /\ made = {}
  /\ idOf = [g \in Games |-> NoId]
  /\ arrays = [g \in Games |-> <<>>]
  /\ slice = [g \in Games |-> NoHeader]
  /\ running = {}
  /\ gameID = [c \in Clients |-> NoId]
  /\ gamePump = [c \in Clients |-> NoGame]
  /\ at = [c \in Clients |-> "idle"]
  /\ game = [c \in Clients |-> NoGame]
  /\ hdr = [c \in Clients |-> NoHeader]
  /\ pos = [c \in Clients |-> 0]
  /\ reply = [c \in Clients |-> "none"]
  /\ requests = 0
  /\ quitting = {}
  /\ up = TRUE

-----------------------------------------------------------------------------
(* Slices *)

\* The elements a header h over the arrays of game g gives access to.
Elements(g, h) == SubSeq(arrays[g][h.arr], 1, h.len)

\* game.clients as a range over it would see it now.
ClientList(g) == IF g \in made THEN Elements(g, slice[g]) ELSE <<>>

Members(g) == {ClientList(g)[i] : i \in 1..Len(ClientList(g))}

\* growslice: a copy of the array with twice its capacity.
Grown(a) == [i \in 1..2 * Len(a) |-> IF i <= Len(a) THEN a[i] ELSE Nil]

-----------------------------------------------------------------------------
(* Requests and answers *)

\* The ids for which _, ok := m.games[id] is ok.
KnownIds == {id \in GameIds : games[id] # NoGame}

Goto(c, label) == at' = [at EXCEPT ![c] = label]
Answer(c, r) == reply' = [reply EXCEPT ![c] = r]

\* The handler goroutine of c takes the next packet of c.
Request(c) ==
  /\ at[c] = "idle"
  /\ requests < MaxRequests
  /\ requests' = requests + 1
  /\ UNCHANGED quitting

\* A handler returns an error, which handleConnection sends to the client.
Refuse(c, err) ==
  /\ Request(c)
  /\ Answer(c, err)
  /\ UNCHANGED <<shared, private, at, frame, up>>

\* A step inside a handler.
Continue(c, from, to) ==
  /\ at[c] = from
  /\ Goto(c, to)
  /\ UNCHANGED <<requests, quitting, up>>

\* The operation returns: its locals are gone.
Return(c) ==
  /\ game' = [game EXCEPT ![c] = NoGame]
  /\ hdr' = [hdr EXCEPT ![c] = NoHeader]
  /\ pos' = [pos EXCEPT ![c] = 0]

\* Where a handler goes after Disconnect: back to its loop, or to its end.
AfterLeave(c) == IF c \in quitting THEN "gone" ELSE "idle"

-----------------------------------------------------------------------------
(* CreateNewGame *)

CreateRefused(c) ==
  /\ gameID[c] # NoId
  /\ Refuse(c, "ERROR_INVALID_CREATE_GAME_ATTEMPT")

\* (mutant) rand.Int over one value too many: a seven-digit id can be drawn.
NewGameWithLongId(c) ==
  /\ Request(c)
  /\ gameID[c] = NoId
  /\ \E g \in Games \ made, id \in GameIds \cup {BadId} :
       /\ made' = made \cup {g}
       /\ idOf' = [idOf EXCEPT ![g] = id]
       /\ arrays' = [arrays EXCEPT ![g] = << <<c>> >>]
       /\ slice' = [slice EXCEPT ![g] = [arr |-> 1, len |-> 1]]
       /\ game' = [game EXCEPT ![c] = g]
  /\ Goto(c, "insert")
  /\ UNCHANGED <<games, running, private, hdr, pos, reply, up>>

\* NewGame: a Game nobody else can reach yet, with c as its only client.
NewGame(c) ==
  /\ Request(c)
  /\ gameID[c] = NoId
  /\ \E g \in Games \ made, id \in GameIds :
       /\ made' = made \cup {g}
       /\ idOf' = [idOf EXCEPT ![g] = id]
       /\ arrays' = [arrays EXCEPT ![g] = << <<c>> >>]
       /\ slice' = [slice EXCEPT ![g] = [arr |-> 1, len |-> 1]]
       /\ game' = [game EXCEPT ![c] = g]
  /\ Goto(c, "insert")
  /\ UNCHANGED <<games, running, private, hdr, pos, reply, up>>

\* m.mu.Lock() and the start of the write of m.games.
LockGames(c) ==
  /\ \A d \in Clients : at[d] # "inserting"
  /\ Continue(c, "insert", "inserting")
  /\ UNCHANGED <<shared, private, frame, reply>>

\* (mutant) A return before m.mu.Unlock() when the id is taken.
UnlockGamesUnlessTaken(c) ==
  /\ Continue(c, "inserting", "unlocked")
  /\ games[idOf[game[c]]] = NoGame
  /\ games' = [games EXCEPT ![idOf[game[c]]] = game[c]]
  /\ UNCHANGED <<made, idOf, arrays, slice, running, private, frame, reply>>

\* The end of the write and m.mu.Unlock(): from here on, others find the game.
UnlockGames(c) ==
  /\ Continue(c, "inserting", "unlocked")
  /\ games' = [games EXCEPT ![idOf[game[c]]] = game[c]]
  /\ UNCHANGED <<made, idOf, arrays, slice, running, private, frame, reply>>

\* go game.readLoop()
StartReadLoop(c) ==
  /\ Continue(c, "unlocked", "started")
  /\ running' = running \cup {game[c]}
  /\ UNCHANGED <<games, made, idOf, arrays, slice, private, frame, reply>>

\* The answer and the two assignments to c, which only this goroutine reads.
FinishCreate(c) ==
  /\ Continue(c, "started", "idle")
  /\ Answer(c, "CreateGameSuccess")
  /\ gameID' = [gameID EXCEPT ![c] = idOf[game[c]]]
  /\ gamePump' = [gamePump EXCEPT ![c] = game[c]]
  /\ Return(c)
  /\ UNCHANGED shared

-----------------------------------------------------------------------------
(* JoinGame *)

JoinRefused(c) ==
  \/ /\ gameID[c] # NoId
     /\ Refuse(c, "ERROR_INVALID_GAME_JOIN_ATTEMPT")
  \/ \E id \in GameIds \cup {BadId} :   \* BadId: len(id) != 6
       /\ gameID[c] = NoId
       /\ id \notin KnownIds
       /\ Refuse(c, "ERROR_INVALID_GAME_ID")

\* (mutant) JoinGame without its check that the client is in no game.
FindGameFromAnywhere(c) ==
  /\ Request(c)
  /\ \E id \in KnownIds : game' = [game EXCEPT ![c] = games[id]]
  /\ Goto(c, "append")
  /\ UNCHANGED <<shared, private, hdr, pos, reply, up>>

\* game, ok := m.games[id], without the lock.
FindGame(c) ==
  /\ Request(c)
  /\ gameID[c] = NoId
  /\ \E id \in KnownIds : game' = [game EXCEPT ![c] = games[id]]
  /\ Goto(c, "append")
  /\ UNCHANGED <<shared, private, hdr, pos, reply, up>>

\* append(game.clients, c) loads the header.
LoadHeader(c) ==
  LET g == game[c]
      full == slice[g].len = Len(arrays[g][slice[g].arr])
  IN  /\ Continue(c, "append", IF full THEN "grow" ELSE "store")
      /\ hdr' = [hdr EXCEPT ![c] = slice[g]]
      /\ UNCHANGED <<shared, private, game, pos, reply>>

\* (mutant) make([]*Client, n) and then append: the header takes in the
\* unused elements of the new array.
GrowArrayWithHoles(c) ==
  LET g == game[c]
  IN  /\ Continue(c, "grow", "store")
      /\ arrays' = [arrays EXCEPT ![g] = Append(@, Grown(Grown(@[hdr[c].arr])))]
      /\ hdr' = [hdr EXCEPT ![c] = [arr |-> Len(arrays[g]) + 1, len |-> 2 * @.len]]
      /\ UNCHANGED <<games, made, idOf, slice, running, private, game, pos, reply>>

\* ... and, when the array is full, copies it into a larger one.
GrowArray(c) ==
  LET g == game[c]
  IN  /\ Continue(c, "grow", "store")
      /\ arrays' = [arrays EXCEPT ![g] = Append(@, Grown(@[hdr[c].arr]))]
      /\ hdr' = [hdr EXCEPT ![c].arr = Len(arrays[g]) + 1]
      /\ UNCHANGED <<games, made, idOf, slice, running, private, game, pos, reply>>

\* The store of the element, before or after the store of the length.
StoreElement(c) ==
  LET g == game[c]
  IN  /\ \/ Continue(c, "store", "setlen")
         \/ Continue(c, "setelem", "joined")
      /\ arrays' = [arrays EXCEPT ![g][hdr[c].arr][hdr[c].len + 1] = c]
      /\ UNCHANGED <<games, made, idOf, slice, running, private, frame, reply>>

PublishLength(c) ==
  /\ \/ Continue(c, "store", "setelem")
     \/ Continue(c, "setlen", "joined")
  /\ slice' = [slice EXCEPT ![game[c]] = [hdr[c] EXCEPT !.len = @ + 1]]
  /\ UNCHANGED <<games, made, idOf, arrays, running, private, frame, reply>>

\* (mutant) c.gamePump keeps the channel of the game c was in before.
FinishJoinKeepingPump(c) ==
  /\ Continue(c, "joined", "idle")
  /\ Answer(c, "JoinGameSuccess")
  /\ gameID' = [gameID EXCEPT ![c] = idOf[game[c]]]
  /\ Return(c)
  /\ UNCHANGED <<shared, gamePump>>

\* The answer and the two assignments to c.
FinishJoin(c) ==
  /\ Continue(c, "joined", "idle")
  /\ Answer(c, "JoinGameSuccess")
  /\ gameID' = [gameID EXCEPT ![c] = idOf[game[c]]]
  /\ gamePump' = [gamePump EXCEPT ![c] = game[c]]
  /\ Return(c)
  /\ UNCHANGED shared

-----------------------------------------------------------------------------
(* Disconnect: a LeaveGame or Disconnect request, and the deferred         *)
(* disconnect of a handler whose loop has returned                         *)

LeaveRefused(c) ==
  \/ /\ gameID[c] = NoId
     /\ Refuse(c, "ERROR_CLIENT_NOT_IN_GAME")
  \/ /\ gameID[c] # NoId
     /\ gameID[c] \notin KnownIds
     /\ Refuse(c, "ERROR_INVALID_GAME_DISCONNECT")

\* game, ok := m.games[c.gameID], without the lock.
FindOwnGame(c) ==
  /\ gameID[c] \in KnownIds
  /\ game' = [game EXCEPT ![c] = games[gameID[c]]]
  /\ Goto(c, "scan")
  /\ UNCHANGED <<shared, private, hdr, pos, reply, up>>

LeaveGame(c) == Request(c) /\ FindOwnGame(c)

\* handleConnection returns; disconnect ignores what Disconnect returns.
EndHandler(c) ==
  /\ at[c] = "idle"
  /\ quitting' = quitting \cup {c}
  /\ UNCHANGED requests
  /\ \/ FindOwnGame(c)
     \/ /\ gameID[c] \notin KnownIds
        /\ Goto(c, "gone")
        /\ UNCHANGED <<shared, private, frame, reply, up>>

\* removeClient gets a copy of the header and starts at its first element.
LoadClients(c) ==
  /\ Continue(c, "scan", "search")
  /\ hdr' = [hdr EXCEPT ![c] = slice[game[c]]]
  /\ pos' = [pos EXCEPT ![c] = 1]
  /\ UNCHANGED <<shared, private, game, reply>>

\* One turn of its loop: the end of the range, c itself, or another client.
SearchClient(c) ==
  LET i == pos[c]
      ended == i > hdr[c].len
      isSelf == ~ended /\ arrays[game[c]][hdr[c].arr][i] = c
  IN  /\ Continue(c, "search", IF ended THEN "shrink" ELSE IF isSelf THEN "shift" ELSE "search")
      /\ pos' = [pos EXCEPT ![c] = IF ended \/ isSelf THEN i ELSE i + 1]
      /\ UNCHANGED <<shared, private, game, hdr, reply>>

\* append(clients[:i], clients[i+1:]...) moves each later element down by
\* one, inside the array that every header shares.
MoveDown(c) ==
  /\ pos[c] < hdr[c].len
  /\ Continue(c, "shift", "shift")
  /\ arrays' = [arrays EXCEPT ![game[c]][hdr[c].arr][pos[c]] =
                  arrays[game[c]][hdr[c].arr][pos[c] + 1]]
  /\ pos' = [pos EXCEPT ![c] = @ + 1]
  /\ UNCHANGED <<games, made, idOf, slice, running, private, game, hdr, reply>>

\* (mutant) removeClient returns the header it was given.
EndShiftSameLength(c) ==
  /\ pos[c] >= hdr[c].len
  /\ Continue(c, "shift", "shrink")
  /\ UNCHANGED <<shared, private, frame, reply>>

\* ... and returns a header one shorter.
EndShift(c) ==
  /\ pos[c] >= hdr[c].len
  /\ Continue(c, "shift", "shrink")
  /\ hdr' = [hdr EXCEPT ![c].len = @ - 1]
  /\ UNCHANGED <<shared, private, game, pos, reply>>

\* game.clients = the result, whatever game.clients has become meanwhile.
PublishShorter(c) ==
  /\ Continue(c, "shrink", "left")
  /\ slice' = [slice EXCEPT ![game[c]] = hdr[c]]
  /\ UNCHANGED <<games, made, idOf, arrays, running, private, frame, reply>>

\* (mutant) The last client out removes the game from m.games, judging by
\* the list it has published itself.
FinishLeaveAndForget(c) ==
  /\ Continue(c, "left", AfterLeave(c))
  /\ gameID' = [gameID EXCEPT ![c] = NoId]
  /\ games' = [games EXCEPT ![gameID[c]] = IF hdr[c].len = 0 THEN NoGame ELSE @]
  /\ Answer(c, "LeaveGameSuccess")
  /\ Return(c)
  /\ UNCHANGED <<made, idOf, arrays, slice, running, gamePump>>

\* c.gameID = "" and the answer; c.gamePump keeps its value.
FinishLeave(c) ==
  /\ Continue(c, "left", AfterLeave(c))
  /\ gameID' = [gameID EXCEPT ![c] = NoId]
  /\ Answer(c, "LeaveGameSuccess")
  /\ Return(c)
  /\ UNCHANGED <<shared, gamePump>>

-----------------------------------------------------------------------------
(* StartGame: a lookup, with no answer when the game exists *)

StartRefused(c) ==
  \E id \in GameIds \cup {BadId} :
    /\ id \notin KnownIds
    /\ Refuse(c, "ERROR_INVALID_GAME_ID")

StartGame(c) ==
  /\ Request(c)
  /\ KnownIds # {}
  /\ UNCHANGED <<shared, private, at, frame, reply, up>>

-----------------------------------------------------------------------------
\* A lookup in m.games while another handler is inside the write: the
\* runtime's check may stop the whole process.  StartGame looks up any id, so
\* every handler that may take a request may do a lookup.
ReadsMap(c) == at[c] = "idle" /\ (requests < MaxRequests \/ gameID[c] # NoId)

MapFault(c) ==
  /\ ReadsMap(c)
  /\ \E d \in Clients \ {c} : at[d] = "inserting"
  /\ up' = FALSE
  /\ UNCHANGED <<shared, private, at, frame, reply, requests, quitting>>

CreateStep(c) ==
  \/ CreateRefused(c) \/ NewGame(c) \/ LockGames(c)
  \/ UnlockGames(c) \/ StartReadLoop(c) \/ FinishCreate(c)
JoinStep(c) ==
  \/ JoinRefused(c) \/ FindGame(c) \/ LoadHeader(c) \/ GrowArray(c)
  \/ StoreElement(c) \/ PublishLength(c) \/ FinishJoin(c)
LeaveStep(c) ==
  \/ LeaveRefused(c) \/ LeaveGame(c) \/ EndHandler(c)
  \/ LoadClients(c) \/ SearchClient(c) \/ MoveDown(c) \/ EndShift(c) \/ PublishShorter(c) \/ FinishLeave(c)
StartStep(c) == StartRefused(c) \/ StartGame(c)

HandlerStep(c) == CreateStep(c) \/ JoinStep(c) \/ LeaveStep(c) \/ StartStep(c) \/ MapFault(c)

Next == up /\ \E c \in Clients : HandlerStep(c)

Spec == Init /\ [][Next]_vars

-----------------------------------------------------------------------------
(* Schedules and fairness                                                  *)

\* A handler that is inside CreateNewGame, JoinGame or Disconnect.
Busy(c) == at[c] \notin {"idle", "gone"}

\* No two of them are at work on the same Game.
NoOverlap == \A c, d \in Clients : c # d /\ Busy(c) => game[c] # game[d]

\* GenerateGameId, which looks at no other game, has drawn no id twice.
UniqueIds == \A g, h \in made : g # h => idOf[g] # idOf[h]

\* What the code does as long as ids do not collide.
UniqueIdsSpec == Init /\ [][Next /\ UniqueIds']_vars

\* The scheduler runs a goroutine that can run; sync.Mutex hands itself to a
\* waiter that has waited long enough.  Nothing makes a client send a request.
Working(c) ==
  \/ LockGames(c) \/ UnlockGames(c) \/ StartReadLoop(c) \/ FinishCreate(c)
  \/ LoadHeader(c) \/ GrowArray(c) \/ StoreElement(c) \/ PublishLength(c) \/ FinishJoin(c)
  \/ LoadClients(c) \/ SearchClient(c) \/ MoveDown(c) \/ EndShift(c)
  \/ PublishShorter(c) \/ FinishLeave(c)

FairSpec == Spec /\ \A c \in Clients : WF_vars(up /\ Working(c)) /\ SF_vars(up /\ LockGames(c))

-----------------------------------------------------------------------------
(* Properties *)

\* "this would be so weird" (game_manager.go:97): Disconnect never finds that
\* the game of its client is not in m.games, however the handlers interleave.
OwnGameExists == \A c \in Clients : gameID[c] \in KnownIds \cup {NoId}

\* The games that have been in m.games: a readLoop serves them, or their
\* creator is between m.mu.Unlock() and go game.readLoop(), where others can
\* already find them, join them and leave them.
Published == running \cup {game[c] : c \in {d \in Clients : at[d] = "unlocked"}}

\* A client sends its states into a channel that a readLoop serves or that the
\* creator of the game is just about to have served, after it has left the
\* game too; and as long as it is in a game, the channel is that of a game
\* with the id it is in.
PumpOfGame ==
  \A c \in Clients :
    /\ gamePump[c] # NoGame => gamePump[c] \in Published
    /\ gameID[c] # NoId => gamePump[c] # NoGame /\ idOf[gamePump[c]] = gameID[c]

\* Every handler that entered an operation comes out of it: the lock of
\* m.games is always released and no loop over the clients runs forever.  The
\* c.Write of an operation is a step that returns: a peer that no longer reads,
\* for which it would block, is left out.
OperationsEnd == \A c \in Clients : Busy(c) ~> (~Busy(c) \/ ~up)

\* A game no handler is working on.
Settled(g) == \A c \in Clients : game[c] # g

\* game.clients and Client.gameID agree: a settled game lists exactly the
\* clients whose gameID is its id, each once, and no hole.
MembersExact ==
  \A g \in made : Settled(g) =>
    /\ Members(g) = {c \in Clients : gameID[c] = idOf[g]}
    /\ Len(ClientList(g)) = Cardinality(Members(g))

\* "Cannot join game while currently in game" (server.go:31): no client is
\* listed, and so broadcast to, by two settled games.
OneGame ==
  \A c \in Clients, g, h \in made :
    Settled(g) /\ Settled(h) /\ c \in Members(g) /\ c \in Members(h) => g = h

\* The i-th client of game g, with the elements handlers have still to store
\* behind the length they have published.
PendingClient(g, i) ==
  LET storing == {d \in Clients : at[d] = "setelem" /\ game[d] = g /\ hdr[d].len + 1 = i}
  IN  IF storing # {} THEN CHOOSE d \in storing : TRUE ELSE arrays[g][slice[g].arr][i]

Listed(g) == {PendingClient(g, i) : i \in 1..slice[g].len}

RoomOf(c) ==
  LET rooms == {g \in made : c \in Listed(g)}
  IN  IF rooms = {} THEN NoGame ELSE CHOOSE g \in rooms : TRUE

Abstract == INSTANCE Lobby WITH open <- made, room <- [c \in Clients |-> RoomOf(c)]

\* The lists implement the lobby: clients appear in and disappear from them as
\* if each operation were one atomic step of the client itself.
ImplementsLobby == Abstract!LobbySpec
=============================================================================
