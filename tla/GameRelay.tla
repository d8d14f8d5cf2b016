------------------------------ MODULE GameRelay ------------------------------
(***************************************************************************)
(* The relay of game states (gameStateHandler in tcp_server.go, game.go):  *)
(* a handler sends a client's state into the channel of its game; the      *)
(* game's readLoop goroutine takes it out and writes it to the clients of  *)
(* the game.  The handlers and game.clients are those of GameManager.tla:  *)
(* broadCast ranges over a header it has loaded, and over the array behind *)
(* it, while the handlers join and leave.                                  *)
(*                                                                         *)
(* A state is its number in the order in which its game accepted states,   *)
(* and its sender.  validateGamePkt and NopValidationFunc refuse nothing,  *)
(* and quitch of a Game is never closed, so neither is a step here.        *)
(***************************************************************************)
EXTENDS GameManager

CONSTANTS
  ChanCap,     \* the capacity of Game.ch (10 in the code)
  SocketCap,   \* the states that fit between c.Write and the client's read
  MaxStates    \* bound: game states sent

ASSUME RelayAssumption ==
  /\ ChanCap \in Nat \ {0} /\ SocketCap \in Nat \ {0}
  /\ MaxStates \in Nat

VARIABLES
  taken,       \* how many game states handlers have taken
  pumping,     \* the handlers at c.gamePump <- p
  ch,          \* Game.ch
  accepted,    \* how many states have entered each channel
  loop,        \* where the readLoop of each game is
  current,     \* its pkt
  range,       \* the header of g.clients its range loaded
  next,        \* the index of its range
  to,          \* its c, while c.Write has not returned
  socket,      \* written to a client and not yet read by it
  got,         \* history: the state of each game a client has read last
  audience,    \* history: whose game it was when the range began
  written      \* history: whom this broadcast has written to, in order

relay == <<taken, pumping, ch, accepted, loop, current, range, next, to,
           socket, got, audience, written>>
relayVars == <<vars, relay>>

State == [n : 1..MaxStates, from : Clients]
Delivery == [game : Games, n : 1..MaxStates]
NoState == [n |-> 0, from |-> Nil]

RelayTypeOK ==
  /\ TypeOK
  /\ taken \in 0..MaxStates
  /\ pumping \in SUBSET Clients
  /\ ch \in [Games -> Seq(State)] /\ \A g \in Games : Len(ch[g]) <= ChanCap
  /\ accepted \in [Games -> 0..MaxStates]
  /\ loop \in [Games -> {"waiting", "validated", "ranging", "writing", "done"}]
  /\ current \in [Games -> State \cup {NoState}]
  /\ range \in [Games -> Header]
  /\ next \in [Games -> Nat]
  /\ to \in [Games -> Slot]
  /\ socket \in [Clients -> Seq(Delivery)] /\ \A c \in Clients : Len(socket[c]) <= SocketCap
  /\ got \in [Clients -> [Games -> 0..MaxStates]]
  /\ audience \in [Games -> SUBSET Clients]
  /\ written \in [Games -> Seq(Clients)]

RelayInit ==
  /\ Init
  /\ taken = 0 /\ pumping = {}
  /\ ch = [g \in Games |-> <<>>]
  /\ accepted = [g \in Games |-> 0]
  /\ loop = [g \in Games |-> "waiting"]
  /\ current = [g \in Games |-> NoState]
  /\ range = [g \in Games |-> NoHeader]
  /\ next = [g \in Games |-> 0]
  /\ to = [g \in Games |-> Nil]
  /\ socket = [c \in Clients |-> <<>>]
  /\ got = [c \in Clients |-> [g \in Games |-> 0]]
  /\ audience = [g \in Games |-> {}]
  /\ written = [g \in Games |-> <<>>]

-----------------------------------------------------------------------------
(* gameStateHandler *)

\* A state that carries the client's own id.  Nothing asks whether the client
\* is in a game.
TakeState(c) ==
  /\ at[c] = "idle" /\ c \notin pumping
  /\ taken < MaxStates
  /\ taken' = taken + 1
  /\ pumping' = pumping \cup {c}
  /\ UNCHANGED <<vars, ch, accepted, loop, current, range, next, to, socket, got,
                 audience, written>>

\* c.gamePump <- p: blocks while the channel is full, and for good while
\* c.gamePump is nil.
PumpState(c) ==
  LET g == gamePump[c]
  IN  /\ c \in pumping
      /\ g # NoGame
      /\ Len(ch[g]) < ChanCap
      /\ accepted' = [accepted EXCEPT ![g] = @ + 1]
      /\ ch' = [ch EXCEPT ![g] = Append(@, [n |-> accepted[g] + 1, from |-> c])]
      /\ pumping' = pumping \ {c}
      /\ UNCHANGED <<vars, taken, loop, current, range, next, to, socket, got,
                     audience, written>>

-----------------------------------------------------------------------------
(* readLoop and broadCast *)

\* (mutant) The channel is drained from its other end.
ReceiveLatest(g) ==
  /\ g \in running
  /\ loop[g] = "waiting" /\ ch[g] # <<>>
  /\ current' = [current EXCEPT ![g] = ch[g][Len(ch[g])]]
  /\ ch' = [ch EXCEPT ![g] = SubSeq(@, 1, Len(@) - 1)]
  /\ loop' = [loop EXCEPT ![g] = "validated"]
  /\ UNCHANGED <<vars, taken, pumping, accepted, range, next, to, socket, got,
                 audience, written>>

\* case pkt := <-g.ch, and validationFunc accepts it.
ReceiveState(g) ==
  /\ g \in running
  /\ loop[g] = "waiting" /\ ch[g] # <<>>
  /\ current' = [current EXCEPT ![g] = Head(ch[g])]
  /\ ch' = [ch EXCEPT ![g] = Tail(@)]
  /\ loop' = [loop EXCEPT ![g] = "validated"]
  /\ UNCHANGED <<vars, taken, pumping, accepted, range, next, to, socket, got,
                 audience, written>>

\* range g.clients loads the header once.
StartRange(g) ==
  /\ loop[g] = "validated"
  /\ loop' = [loop EXCEPT ![g] = "ranging"]
  /\ range' = [range EXCEPT ![g] = slice[g]]
  /\ next' = [next EXCEPT ![g] = 1]
  /\ audience' = [audience EXCEPT ![g] = {c \in Clients : gameID[c] = idOf[g]}]
  /\ written' = [written EXCEPT ![g] = <<>>]
  /\ UNCHANGED <<vars, taken, pumping, ch, accepted, current, to, socket, got>>

\* The element the range has come to, as the array has it now.
Element(g) == arrays[g][range[g].arr][next[g]]

InRange(g) == loop[g] = "ranging" /\ next[g] <= range[g].len

\* (mutant) break where the loop has continue.
StopAtSender(g) ==
  /\ InRange(g)
  /\ Element(g) = current[g].from
  /\ next' = [next EXCEPT ![g] = range[g].len + 1]
  /\ UNCHANGED <<vars, taken, pumping, ch, accepted, loop, current, range, to,
                 socket, got, audience, written>>

SkipSender(g) ==
  /\ InRange(g)
  /\ Element(g) = current[g].from
  /\ next' = [next EXCEPT ![g] = @ + 1]
  /\ UNCHANGED <<vars, taken, pumping, ch, accepted, loop, current, range, to,
                 socket, got, audience, written>>

\* c is this element, whatever the array has there later.
LoadClient(g) ==
  /\ InRange(g)
  /\ Element(g) \in Clients \ {current[g].from}
  /\ to' = [to EXCEPT ![g] = Element(g)]
  /\ loop' = [loop EXCEPT ![g] = "writing"]
  /\ UNCHANGED <<vars, taken, pumping, ch, accepted, current, range, next, socket, got,
                 audience, written>>

\* c.Write(pkt.data) returns, and the range goes on.
WriteReturns(g) ==
  /\ loop' = [loop EXCEPT ![g] = "ranging"]
  /\ written' = [written EXCEPT ![g] = Append(@, to[g])]
  /\ next' = [next EXCEPT ![g] = @ + 1]
  /\ to' = [to EXCEPT ![g] = Nil]
  /\ UNCHANGED <<vars, taken, pumping, ch, accepted, current, range, got, audience>>

\* (mutant) Writes are queued without bound instead of waiting for the socket.
WriteStateOver(g) ==
  /\ loop[g] = "writing"
  /\ socket' = [socket EXCEPT ![to[g]] = Append(@, [game |-> g, n |-> current[g].n])]
  /\ WriteReturns(g)

\* It blocks while the socket is full; an error of a connection that is gone
\* is ignored.
WriteState(g) ==
  LET c == to[g]
  IN  /\ loop[g] = "writing"
      /\ \/ /\ at[c] # "gone" /\ Len(socket[c]) < SocketCap
            /\ socket' = [socket EXCEPT ![c] = Append(@, [game |-> g, n |-> current[g].n])]
         \/ /\ at[c] = "gone"
            /\ UNCHANGED socket
      /\ WriteReturns(g)

\* c.clientID of a nil *Client: the process panics.
NilClient(g) ==
  /\ InRange(g)
  /\ Element(g) = Nil
  /\ up' = FALSE
  /\ UNCHANGED <<shared, private, at, frame, reply, requests, quitting, relay>>

EndRange(g) ==
  /\ loop[g] = "ranging" /\ next[g] > range[g].len
  /\ loop' = [loop EXCEPT ![g] = "done"]
  /\ UNCHANGED <<vars, taken, pumping, ch, accepted, current, range, next, to, socket, got,
                 audience, written>>

\* (mutant) readLoop handles one packet and returns.
WaitNoMore(g) ==
  /\ loop[g] = "done"
  /\ running' = running \ {g}
  /\ UNCHANGED <<games, made, idOf, arrays, slice, private, at, frame, reply, requests,
                 quitting, up, relay>>

\* broadCast has returned, and the loop starts over.
WaitAgain(g) ==
  /\ loop[g] = "done"
  /\ loop' = [loop EXCEPT ![g] = "waiting"]
  /\ current' = [current EXCEPT ![g] = NoState]
  /\ range' = [range EXCEPT ![g] = NoHeader]
  /\ next' = [next EXCEPT ![g] = 0]
  /\ audience' = [audience EXCEPT ![g] = {}]
  /\ written' = [written EXCEPT ![g] = <<>>]
  /\ UNCHANGED <<vars, taken, pumping, ch, accepted, to, socket, got>>

\* The client reads its connection.
ClientRead(c) ==
  /\ socket[c] # <<>>
  /\ got' = [got EXCEPT ![c][Head(socket[c]).game] = Head(socket[c]).n]
  /\ socket' = [socket EXCEPT ![c] = Tail(@)]
  /\ UNCHANGED <<vars, taken, pumping, ch, accepted, loop, current, range, next, to,
                 audience, written>>

-----------------------------------------------------------------------------
\* A handler that is sending a state does nothing else.
ManagerStep == \E c \in Clients \ pumping : HandlerStep(c) /\ UNCHANGED relay

LoopStep(g) ==
  \/ ReceiveState(g) \/ StartRange(g) \/ SkipSender(g) \/ LoadClient(g)
  \/ WriteState(g) \/ NilClient(g) \/ EndRange(g) \/ WaitAgain(g)

RelayNext ==
  /\ up
  /\ \/ ManagerStep
     \/ \E c \in Clients : TakeState(c) \/ PumpState(c) \/ ClientRead(c)
     \/ \E g \in Games : LoopStep(g)

RelaySpec == RelayInit /\ [][RelayNext]_relayVars

\* No handler joins or leaves a game while it is broadcast to.
Quiet == \A g \in Games : loop[g] \in {"ranging", "writing"} => Settled(g)

NoOverlapRelaySpec == RelayInit /\ [][RelayNext /\ NoOverlap' /\ UniqueIds']_relayVars
QuietRelaySpec == RelayInit /\ [][RelayNext /\ NoOverlap' /\ UniqueIds' /\ Quiet']_relayVars

\* The goroutines run when they can, go game.readLoop() included, and the
\* clients read what they are sent.
RelayFairSpec ==
  /\ RelaySpec
  /\ \A g \in Games : WF_relayVars(up /\ LoopStep(g))
  /\ \A c \in Clients : /\ WF_relayVars(up /\ StartReadLoop(c) /\ UNCHANGED relay)
                        /\ SF_relayVars(up /\ PumpState(c))
                        /\ WF_relayVars(up /\ ClientRead(c))

-----------------------------------------------------------------------------
(* Properties *)

\* However joins, leaves and broadcasts interleave, a client sees the states
\* of one game in the order in which the game accepted them.
InOrder ==
  \A c \in Clients : \A j \in 1..Len(socket[c]) :
    LET d == socket[c][j]
    IN  /\ got[c][d.game] <= d.n
        /\ \A i \in 1..j : socket[c][i].game = d.game => socket[c][i].n <= d.n

\* The relay does not seize up as long as clients read: what has entered a
\* channel comes out of it, and a client that is or was in a game gets its
\* state into the channel, with channel and sockets full on the way.
PumpDrains ==
  /\ \A g \in Games : (ch[g] # <<>>) ~> (ch[g] = <<>> \/ ~up)
  /\ \A c \in Clients :
       (c \in pumping /\ gamePump[c] # NoGame) ~> (c \notin pumping \/ ~up)

\* A broadcast no join or leave runs into goes to each client of the game but
\* the sender, once, and to nobody else.
ServedExactly ==
  \A g \in Games : loop[g] = "done" =>
    LET served == {written[g][i] : i \in 1..Len(written[g])}
    IN  /\ served = audience[g] \ {current[g].from}
        /\ Len(written[g]) = Cardinality(served)

\* ... and never meets a hole in game.clients, which would end the process.
RangeSeesClients == \A g \in Games : InRange(g) => Element(g) \in Clients

=============================================================================
