-------------------------------- MODULE Lobby --------------------------------
(***************************************************************************)
(* What the game manager promises its clients, with nothing said about     *)
(* maps, slices or goroutines: a client is in at most one room, it enters  *)
(* a room only from outside every room, and nobody but the client itself   *)
(* moves it.  GameManager.tla is shown to implement this module as long as *)
(* membership operations on one game do not overlap.                       *)
(***************************************************************************)
CONSTANTS
  Clients,   \* the connected players
  Games,     \* the rooms that can ever be opened
  NoGame     \* "outside every room"

VARIABLES
  open,      \* the rooms created so far; a room is never closed
  room       \* the room each client is in

lobbyVars == <<open, room>>

LobbyInit ==
  /\ open = {}
  /\ room = [c \in Clients |-> NoGame]

\* A client outside every room opens a new one and is its first member.
Create(c) ==
  /\ room[c] = NoGame
  /\ \E g \in Games \ open :
       /\ open' = open \cup {g}
       /\ room' = [room EXCEPT ![c] = g]

\* A client outside every room enters a room that exists.
Join(c) ==
  /\ room[c] = NoGame
  /\ \E g \in open : room' = [room EXCEPT ![c] = g]
  /\ UNCHANGED open

Leave(c) ==
  /\ room[c] # NoGame
  /\ room' = [room EXCEPT ![c] = NoGame]
  /\ UNCHANGED open

LobbyNext == \E c \in Clients : Create(c) \/ Join(c) \/ Leave(c)

LobbySpec == LobbyInit /\ [][LobbyNext]_lobbyVars
=============================================================================
