----------------------------- MODULE Connection ------------------------------
(***************************************************************************)
(* The life of the server's connections (tcp_server.go, FrameWithReader in *)
(* packet.go): accept, registration, authentication with its timeout, the  *)
(* reader goroutine, the select loop of handleConnection, disconnect and   *)
(* the shutdown of the server.                                             *)
(*                                                                         *)
(* A connection has three parties: the peer at the other end of the TCP    *)
(* connection, the goroutine of FrameWithReader and the one of             *)
(* handleConnection; the last two share framer.C and framer.errch.  What   *)
(* the peer sends is a packet here (Framer.tla cuts it into bytes), and of *)
(* a client's game only "in one or not" and "has a gamePump or not" are    *)
(* kept (GameManager.tla has the rest).  Writes to a peer do not block.    *)
(***************************************************************************)
EXTENDS Integers, Sequences

CONSTANTS
  Conns,       \* the connections the listener can hand out
  ChanCap,     \* the capacity of framer.C (10 in the code)
  MaxPackets   \* bound: packets one peer sends

ASSUME ChanAssumption == ChanCap \in Nat \ {0}
ASSUME PacketsAssumption == MaxPackets \in Nat

VARIABLES
  \* TCPServer
  quit,        \* quitch is closed
  listening,   \* ln is open
  clients,     \* the connections in t.clients; their Addr() is a pointer, so a key of its own
  \* the peer and the two directions of its TCP connection
  ending,      \* how the peer left: "no", "eof" (FIN) or "reset" (read error)
  sent,        \* how many packets it has sent
  first,       \* the first of them
  inbox,       \* sent and not yet read by the server
  open,        \* the connections whose conn the server has not closed
  \* the goroutine of FrameWithReader
  reader,      \* where it is
  holding,     \* the packet it is about to send on framer.C
  \* PacketFramer
  C,           \* framer.C
  errch,       \* the connections with an error in framer.errch
  \* the goroutine of handleConnection
  handler,     \* where it is
  leaving,     \* the handlers that run their deferred disconnect
  authed,      \* the clients with a clientID
  inGame,      \* the clients with a gameID
  pumped       \* the clients with a gamePump

server == <<quit, listening>>
peer == <<ending, sent, first>>
framing == <<reader, holding, C, errch, inbox>>
client == <<authed, inGame, pumped>>
vars == <<server, clients, peer, open, framing, handler, leaving, client>>

\* Packets as the handlers tell them apart: the right answer to the
\* authentication, create or join, leave, disconnect, a game state that
\* carries the client's own id, and what changes nothing (a health check, a
\* request that is refused, an unknown type, a wrong authentication).
Kinds == {"auth", "enter", "leave", "disconnect", "state", "other"}

ReaderLabels == {"none", "reading", "sending", "failing", "ended"}
HandlerLabels == {"none", "register", "auth", "refuse", "serving", "pumping",
                  "unregister", "leave", "close", "ended"}

TypeOK ==
  /\ quit \in BOOLEAN /\ listening \in BOOLEAN
  /\ clients \in SUBSET Conns
  /\ ending \in [Conns -> {"no", "eof", "reset"}]
  /\ sent \in [Conns -> 0..MaxPackets]
  /\ first \in [Conns -> Kinds \cup {"none"}]
  /\ inbox \in [Conns -> Seq(Kinds)]
  /\ open \in SUBSET Conns
  /\ reader \in [Conns -> ReaderLabels]
  /\ holding \in [Conns -> Kinds \cup {"none"}]
  /\ C \in [Conns -> Seq(Kinds)]
  /\ \A c \in Conns : Len(C[c]) <= ChanCap
  /\ errch \in SUBSET Conns
  /\ handler \in [Conns -> HandlerLabels]
  /\ leaving \in SUBSET Conns
  /\ authed \in SUBSET Conns /\ inGame \in SUBSET Conns /\ pumped \in SUBSET Conns

\* Start has returned: the accept loop runs and nobody has connected.
Init ==
  /\ quit = FALSE /\ listening = TRUE
  /\ clients = {}
  /\ ending = [c \in Conns |-> "no"]
  /\ sent = [c \in Conns |-> 0]
  /\ first = [c \in Conns |-> "none"]
  /\ inbox = [c \in Conns |-> <<>>]
  /\ open = {}
  /\ reader = [c \in Conns |-> "none"]
  /\ holding = [c \in Conns |-> "none"]
  /\ C = [c \in Conns |-> <<>>]
  /\ errch = {}
  /\ handler = [c \in Conns |-> "none"]
  /\ leaving = {} /\ authed = {} /\ inGame = {} /\ pumped = {}

-----------------------------------------------------------------------------
(* The server *)

\* accept: NewClient(conn), go handleConnection(client).  The loop returns
\* once the listener is closed.
Accept(c) ==
  /\ listening
  /\ handler[c] = "none"
  /\ handler' = [handler EXCEPT ![c] = "register"]
  /\ open' = open \cup {c}
  /\ UNCHANGED <<server, clients, peer, framing, leaving, client>>

\* TCPServer.Close: close(quitch), then the listener.
CloseQuit ==
  /\ ~quit
  /\ quit' = TRUE
  /\ UNCHANGED <<listening, clients, peer, open, framing, handler, leaving, client>>

CloseListener ==
  /\ quit /\ listening
  /\ listening' = FALSE
  /\ UNCHANGED <<quit, clients, peer, open, framing, handler, leaving, client>>

-----------------------------------------------------------------------------
(* The peer *)

Connected(c) == handler[c] # "none"

\* A packet the peer sends arrives in order.
PeerSend(c) ==
  /\ Connected(c) /\ ending[c] = "no" /\ sent[c] < MaxPackets
  /\ sent' = [sent EXCEPT ![c] = @ + 1]
  /\ \E k \in Kinds :
       /\ inbox' = [inbox EXCEPT ![c] = Append(@, k)]
       /\ first' = IF sent[c] = 0 THEN [first EXCEPT ![c] = k] ELSE first
  /\ UNCHANGED <<server, clients, ending, open, reader, holding, C, errch,
                 handler, leaving, client>>

PeerClose(c) ==
  /\ Connected(c) /\ ending[c] = "no"
  /\ ending' = [ending EXCEPT ![c] = "eof"]
  /\ UNCHANGED <<server, clients, sent, first, open, framing, handler, leaving, client>>

\* The connection breaks, before its reader is done; the server may still read
\* some of what has arrived.
PeerReset(c) ==
  /\ Connected(c) /\ ending[c] # "reset" /\ reader[c] # "ended"
  /\ ending' = [ending EXCEPT ![c] = "reset"]
  /\ UNCHANGED <<server, clients, sent, first, open, framing, handler, leaving, client>>

-----------------------------------------------------------------------------
(* FrameWithReader *)

ReadPacket(c) ==
  /\ reader[c] = "reading" /\ c \in open
  /\ inbox[c] # <<>>
  /\ holding' = [holding EXCEPT ![c] = Head(inbox[c])]
  /\ inbox' = [inbox EXCEPT ![c] = Tail(@)]
  /\ reader' = [reader EXCEPT ![c] = "sending"]
  /\ UNCHANGED <<server, clients, peer, open, C, errch, handler, leaving, client>>

\* (mutant) The send is left to a goroutine of its own: nothing waits for room.
SendInBackground(c) ==
  /\ reader[c] = "sending"
  /\ C' = [C EXCEPT ![c] = Append(@, holding[c])]
  /\ holding' = [holding EXCEPT ![c] = "none"]
  /\ reader' = [reader EXCEPT ![c] = "reading"]
  /\ UNCHANGED <<server, clients, peer, open, errch, inbox, handler, leaving, client>>

\* p.C <- packet blocks while the channel is full.
SendPacket(c) ==
  /\ reader[c] = "sending"
  /\ Len(C[c]) < ChanCap
  /\ C' = [C EXCEPT ![c] = Append(@, holding[c])]
  /\ holding' = [holding EXCEPT ![c] = "none"]
  /\ reader' = [reader EXCEPT ![c] = "reading"]
  /\ UNCHANGED <<server, clients, peer, open, errch, inbox, handler, leaving, client>>

\* io.EOF: the goroutine returns and tells nobody.
ReadEOF(c) ==
  /\ reader[c] = "reading" /\ c \in open
  /\ inbox[c] = <<>> /\ ending[c] = "eof"
  /\ reader' = [reader EXCEPT ![c] = "ended"]
  /\ UNCHANGED <<server, clients, peer, open, holding, C, errch, inbox,
                 handler, leaving, client>>

\* Any other error, the one of a conn the server has closed included.
ReadError(c) ==
  /\ reader[c] = "reading"
  /\ ending[c] = "reset" \/ c \notin open
  /\ reader' = [reader EXCEPT ![c] = "failing"]
  /\ UNCHANGED <<server, clients, peer, open, holding, C, errch, inbox,
                 handler, leaving, client>>

\* (mutant) errch is unbuffered, and only the select loop receives from it.
SendErrorUnbuffered(c) ==
  /\ reader[c] = "failing"
  /\ handler[c] = "serving"
  /\ c \notin errch
  /\ errch' = errch \cup {c}
  /\ reader' = [reader EXCEPT ![c] = "ended"]
  /\ UNCHANGED <<server, clients, peer, open, holding, C, inbox,
                 handler, leaving, client>>

\* framer.errch <- err: its buffer holds one.
SendError(c) ==
  /\ reader[c] = "failing"
  /\ c \notin errch
  /\ errch' = errch \cup {c}
  /\ reader' = [reader EXCEPT ![c] = "ended"]
  /\ UNCHANGED <<server, clients, peer, open, holding, C, inbox,
                 handler, leaving, client>>

-----------------------------------------------------------------------------
(* handleConnection *)

Handler(c, from, to) ==
  /\ handler[c] = from
  /\ handler' = [handler EXCEPT ![c] = to]

\* registerClient, then NewPacketFramer, go FrameWithReader, and authenticate
\* sends the id.
Register(c) ==
  /\ Handler(c, "register", "auth")
  /\ clients' = clients \cup {c}
  /\ reader' = [reader EXCEPT ![c] = "reading"]
  /\ UNCHANGED <<server, peer, open, holding, C, errch, inbox, leaving, client>>

\* The next packet of framer.C, taken by a select.
Take(c) ==
  /\ C[c] # <<>>
  /\ C' = [C EXCEPT ![c] = Tail(@)]

NextKind(c) == Head(C[c])

\* (mutant) authenticate waits on after a packet that is not the answer.
AuthAnswerOrWait(c) ==
  /\ Take(c)
  /\ \/ /\ NextKind(c) = "auth"
        /\ Handler(c, "auth", "serving")
        /\ authed' = authed \cup {c}
     \/ /\ NextKind(c) # "auth"
        /\ Handler(c, "auth", "auth")
        /\ UNCHANGED authed
  /\ UNCHANGED <<server, clients, peer, open, reader, holding, errch, inbox,
                 leaving, inGame, pumped>>

\* authenticate: the first packet is the answer ...
AuthAnswer(c) ==
  /\ Take(c)
  /\ \/ /\ NextKind(c) = "auth"
        /\ Handler(c, "auth", "serving")
        /\ authed' = authed \cup {c}
     \/ /\ NextKind(c) # "auth"
        /\ Handler(c, "auth", "refuse")
        /\ UNCHANGED authed
  /\ UNCHANGED <<server, clients, peer, open, reader, holding, errch, inbox,
                 leaving, inGame, pumped>>

\* (mutant) The timer is armed only when no packet is waiting, and an answer
\* that comes while it runs stops it for good.
AuthTimeoutIfSilent(c) ==
  /\ sent[c] = 0
  /\ Handler(c, "auth", "refuse")
  /\ UNCHANGED <<server, clients, peer, open, framing, leaving, client>>

\* ... unless time.After fires first, also when an answer is waiting.
AuthTimeout(c) ==
  /\ Handler(c, "auth", "refuse")
  /\ UNCHANGED <<server, clients, peer, open, framing, leaving, client>>

\* client.Disconnect(), return, and the deferred disconnect begins.
Refuse(c) ==
  /\ Handler(c, "refuse", "unregister")
  /\ open' = open \ {c}
  /\ leaving' = leaving \cup {c}
  /\ UNCHANGED <<server, clients, peer, framing, client>>

\* case p := <-framer.C, for the handlers that end in one step here.
Serve(c) ==
  /\ Take(c)
  /\ NextKind(c) \notin {"disconnect", "state"}
  /\ Handler(c, "serving", "serving")
  /\ inGame' = CASE NextKind(c) = "enter" -> inGame \cup {c}
                 [] NextKind(c) = "leave" -> inGame \ {c}
                 [] OTHER -> inGame
  /\ pumped' = IF NextKind(c) = "enter" THEN pumped \cup {c} ELSE pumped
  /\ UNCHANGED <<server, clients, peer, open, reader, holding, errch, inbox, leaving, authed>>

\* gameStateHandler ...
ServeState(c) ==
  /\ Take(c)
  /\ NextKind(c) = "state"
  /\ Handler(c, "serving", "pumping")
  /\ UNCHANGED <<server, clients, peer, open, reader, holding, errch, inbox, leaving, client>>

\* ... c.gamePump <- p: never on the nil channel of a client that has not
\* been in a game, otherwise as soon as the game's readLoop makes room, which it
\* does here in the end (the fairness of Pump): that takes clients that read.
Pump(c) ==
  /\ c \in pumped
  /\ Handler(c, "pumping", "serving")
  /\ UNCHANGED <<server, clients, peer, open, framing, leaving, client>>

\* disconnectHandler: t.disconnect(c), and the loop goes on.
ServeDisconnect(c) ==
  /\ Take(c)
  /\ NextKind(c) = "disconnect"
  /\ Handler(c, "serving", "unregister")
  /\ UNCHANGED <<server, clients, peer, open, reader, holding, errch, inbox, leaving, client>>

\* (mutant) case err := <-framer.errch logs and continues.
ServeErrorAndContinue(c) ==
  /\ c \in errch
  /\ errch' = errch \ {c}
  /\ Handler(c, "serving", "serving")
  /\ UNCHANGED <<server, clients, peer, open, reader, holding, C, inbox, leaving, client>>

\* case err := <-framer.errch
ServeError(c) ==
  /\ c \in errch
  /\ errch' = errch \ {c}
  /\ Handler(c, "serving", "unregister")
  /\ leaving' = leaving \cup {c}
  /\ UNCHANGED <<server, clients, peer, open, reader, holding, C, inbox, client>>

\* (mutant) default: instead of case <-t.quitch, tried only when nothing waits
\* and the client is in no game.
ServeQuitWhenIdle(c) ==
  /\ quit
  /\ c \notin inGame
  /\ Handler(c, "serving", "unregister")
  /\ leaving' = leaving \cup {c}
  /\ UNCHANGED <<server, clients, peer, open, framing, client>>

\* case <-t.quitch
ServeQuit(c) ==
  /\ quit
  /\ Handler(c, "serving", "unregister")
  /\ leaving' = leaving \cup {c}
  /\ UNCHANGED <<server, clients, peer, open, framing, client>>

\* (mutant) disconnect returns at once when the client is no longer in t.clients.
UnregisterOnce(c) ==
  /\ Handler(c, "unregister", IF c \in clients THEN "leave"
                              ELSE IF c \in leaving THEN "ended" ELSE "serving")
  /\ clients' = clients \ {c}
  /\ UNCHANGED <<server, peer, open, framing, leaving, client>>

\* disconnect: delete from t.clients ...
Unregister(c) ==
  /\ Handler(c, "unregister", "leave")
  /\ clients' = clients \ {c}
  /\ UNCHANGED <<server, peer, open, framing, leaving, client>>

\* ... GameManager.Disconnect, which clears gameID and keeps gamePump ...
LeaveGame(c) ==
  /\ Handler(c, "leave", "close")
  /\ inGame' = inGame \ {c}
  /\ UNCHANGED <<server, clients, peer, open, framing, leaving, authed, pumped>>

\* ... and the conn is closed.
CloseConn(c) ==
  /\ Handler(c, "close", IF c \in leaving THEN "ended" ELSE "serving")
  /\ open' = open \ {c}
  /\ UNCHANGED <<server, clients, peer, framing, leaving, client>>

-----------------------------------------------------------------------------
PeerStep(c) == PeerSend(c) \/ PeerClose(c) \/ PeerReset(c)

ReaderStep(c) ==
  ReadPacket(c) \/ SendPacket(c) \/ ReadEOF(c) \/ ReadError(c) \/ SendError(c)

HandlerStep(c) ==
  \/ Register(c) \/ AuthAnswer(c) \/ AuthTimeout(c) \/ Refuse(c)
  \/ Serve(c) \/ ServeState(c) \/ Pump(c) \/ ServeDisconnect(c)
  \/ ServeError(c) \/ ServeQuit(c)
  \/ Unregister(c) \/ LeaveGame(c) \/ CloseConn(c)

Next ==
  \/ CloseQuit \/ CloseListener
  \/ \E c \in Conns : Accept(c) \/ PeerStep(c) \/ ReaderStep(c) \/ HandlerStep(c)

Spec == Init /\ [][Next]_vars

-----------------------------------------------------------------------------
(* Fairness: a goroutine that can run does, the timer fires, and a select  *)
(* that is entered again and again with a case ready takes that case at    *)
(* some time, since Go picks among the ready cases at random.  Nothing     *)
(* makes a peer send, answer or leave, or anyone call Close.               *)

Fairness(c) ==
  /\ WF_vars(ReaderStep(c))
  /\ WF_vars(Register(c) \/ AuthAnswer(c) \/ Refuse(c) \/ Serve(c) \/ ServeState(c)
             \/ Pump(c) \/ ServeDisconnect(c) \/ Unregister(c) \/ LeaveGame(c) \/ CloseConn(c))
  /\ WF_vars(AuthTimeout(c))
  /\ SF_vars(ServeError(c))
  /\ SF_vars(ServeQuit(c))

FairSpec == Spec /\ \A c \in Conns : Fairness(c)

-----------------------------------------------------------------------------
(* Properties *)

\* A client has a clientID, and so a hearing, only when the very first packet
\* of its connection was the answer to the server's id.
AuthFirst == \A c \in authed : first[c] = "auth"

\* When a handler has ended, nothing is left of its client: not in t.clients,
\* not in a game, its conn closed, although a Disconnect request ran the same
\* clean-up before and requests were handled after it.
GoneIsClean ==
  \A c \in Conns : handler[c] = "ended" => c \notin clients \cup inGame \cup open

\* The handler is at c.gamePump <- p with a nil gamePump: there it stays.
OnNilPump(c) == handler[c] = "pumping" /\ c \notin pumped

\* A broken connection is noticed: its handler ends, unless it has a nil pump.
\* This and CloseEnds are of handlers whose writes return and whose game makes
\* room for a state in the end: a peer that does not read its connection, and
\* stalls the writes to it or the readLoop of its game, is left out.
ResetEnds ==
  \A c \in Conns :
    (ending[c] = "reset" /\ reader[c] = "reading") ~> (handler[c] = "ended" \/ OnNilPump(c))

\* Close reaches every connection, also one that is still authenticating; with
\* the provisos of ResetEnds on writes and on c.gamePump <- p.
CloseEnds ==
  \A c \in Conns : (quit /\ Connected(c)) ~> (handler[c] = "ended" \/ OnNilPump(c))

\* Authentication ends, whatever the peer sends or does not send.
AuthEnds == \A c \in Conns : (handler[c] = "auth") ~> (handler[c] # "auth")

\* A handler that has ended leaves no reader behind, unless the peer filled
\* framer.C and nobody is left to empty it.
ReaderEnds ==
  \A c \in Conns :
    (handler[c] = "ended")
      ~> (reader[c] = "ended" \/ (reader[c] = "sending" /\ Len(C[c]) = ChanCap))

\* "Client is for a connected client" (server.go:40): requests queued behind a
\* Disconnect are still served, so a client whose conn is closed can get into a
\* game; it does not stay there, unless its peer has closed too and the reader
\* ended on EOF.
ClosedLeaves ==
  \A c \in Conns : (c \in inGame \ open) ~> (c \notin inGame \/ ending[c] = "eof")

\* "Client with conn %s disconnected" (packet.go:60): a peer that has closed
\* its connection does not stay a client of the server.
EofUnregisters ==
  \A c \in Conns :
    (reader[c] = "ended" /\ ending[c] = "eof") ~> (c \notin clients \/ OnNilPump(c))

\* ERROR_CLIENT_NOT_IN_GAME (server.go:33): the handler of a game state comes
\* back, with an error for a client in no game.
StateIsAnswered == \A c \in Conns : (handler[c] = "pumping") ~> (handler[c] # "pumping")
=============================================================================
