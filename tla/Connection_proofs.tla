-------------------------- MODULE Connection_proofs --------------------------
(***************************************************************************)
(* Proofs about Connection.tla for every set of connections, every         *)
(* capacity of framer.C and any number of packets.                         *)
(*                                                                         *)
(* GoneIsClean needs what each part of the clean-up has done at each label *)
(* of the handler, also when the clean-up runs for the second time.        *)
(* AuthFirst needs to know where the first packet is until authenticate    *)
(* takes it: in the connection, with the reader, or in framer.C.           *)
(***************************************************************************)
EXTENDS Connection, SequenceTheorems, TLAPS

-----------------------------------------------------------------------------
(* The inductive invariant *)

\* What disconnect has undone when the handler of c is at a label.
CleanSoFar(c) ==
  /\ handler[c] \in {"leave", "close", "ended"} => c \notin clients
  /\ handler[c] \in {"close", "ended"} => c \notin inGame
  /\ handler[c] = "ended" => c \notin open

\* The first packet, if there is one, is the first in line for authenticate.
FirstInLine(c) ==
  IF sent[c] = 0
  THEN C[c] = <<>> /\ reader[c] # "sending" /\ inbox[c] = <<>>
  ELSE IF C[c] # <<>> THEN Head(C[c]) = first[c]
  ELSE IF reader[c] = "sending" THEN holding[c] = first[c]
  ELSE inbox[c] # <<>> /\ Head(inbox[c]) = first[c]

Unheard == {"none", "register", "auth"}

Hearing(c) ==
  /\ handler[c] = "none" => sent[c] = 0
  /\ handler[c] \in {"none", "register"} => reader[c] = "none"
  /\ handler[c] \in Unheard => FirstInLine(c) /\ c \notin authed
  /\ c \in authed => sent[c] # 0 /\ first[c] = "auth"

\* A reader that sends has a packet to send.
Holding(c) == reader[c] = "sending" => holding[c] # "none"

ConnOK(c) == CleanSoFar(c) /\ Hearing(c) /\ Holding(c)

IInv == TypeOK /\ \A c \in Conns : ConnOK(c)

-----------------------------------------------------------------------------
(* Queues *)

\* Who joins a queue is at its head only if it was empty.
LEMMA HeadOfAppend ==
  ASSUME NEW S, NEW s \in Seq(S), NEW e \in S
  PROVE  /\ Append(s, e) # <<>>
         /\ Head(Append(s, e)) = IF s = <<>> THEN e ELSE Head(s)
<1>1. /\ Append(s, e) \in Seq(S) /\ Len(Append(s, e)) = Len(s) + 1
      /\ \A i \in 1..Len(s) : Append(s, e)[i] = s[i]
      /\ Append(s, e)[Len(s) + 1] = e
      /\ Len(s) \in Nat
  OBVIOUS
<1>2. Append(s, e) # <<>>
  BY <1>1, EmptySeq
<1>3. Head(Append(s, e)) = Append(s, e)[1]
  BY <1>1, <1>2
<1>4. CASE s = <<>>
  BY <1>1, <1>2, <1>3, <1>4
<1>5. CASE s # <<>>
  <2>1. 1 \in 1..Len(s)
    BY <1>1, <1>5, EmptySeq
  <2>2. Head(s) = s[1]
    BY <1>5
  <2> QED
    BY <1>1, <1>2, <1>3, <1>5, <2>1, <2>2
<1> QED
  BY <1>4, <1>5

-----------------------------------------------------------------------------
(* Types *)

LEMMA ServerTypes ==
  ASSUME TypeOK, NEW c \in Conns, CloseQuit \/ CloseListener \/ Accept(c) \/ PeerStep(c)
  PROVE  TypeOK'
<1> USE DEF TypeOK
<1>1. CASE CloseQuit \/ CloseListener
  BY <1>1 DEF CloseQuit, CloseListener, peer, framing, client
<1>2. CASE Accept(c)
  BY <1>2 DEF Accept, server, peer, framing, client, HandlerLabels
<1>3. CASE PeerSend(c)
  <2>1. PICK k \in Kinds :
          /\ inbox' = [inbox EXCEPT ![c] = Append(@, k)]
          /\ first' = IF sent[c] = 0 THEN [first EXCEPT ![c] = k] ELSE first
    BY <1>3 DEF PeerSend
  <2>2. Append(inbox[c], k) \in Seq(Kinds)
    BY AppendProperties
  <2>3. inbox' \in [Conns -> Seq(Kinds)] /\ first' \in [Conns -> Kinds \cup {"none"}]
    BY <2>1, <2>2
  <2>4. sent' \in [Conns -> 0..MaxPackets]
    BY <1>3, PacketsAssumption DEF PeerSend
  <2> QED
    BY <1>3, <2>3, <2>4 DEF PeerSend, server, client
<1>4. CASE PeerClose(c) \/ PeerReset(c)
  BY <1>4 DEF PeerClose, PeerReset, server, framing, client
<1> QED
  BY <1>1, <1>2, <1>3, <1>4 DEF PeerStep

LEMMA ReaderTypes ==
  ASSUME TypeOK, NEW c \in Conns, Holding(c), ReaderStep(c)
  PROVE  TypeOK'
<1> USE DEF TypeOK
<1>1. CASE ReadPacket(c)
  <2>1. Head(inbox[c]) \in Kinds /\ Tail(inbox[c]) \in Seq(Kinds)
    BY <1>1, HeadTailProperties DEF ReadPacket
  <2> QED
    BY <1>1, <2>1 DEF ReadPacket, server, peer, client, ReaderLabels
<1>2. CASE SendPacket(c)
  <2>1. holding[c] \in Kinds
    BY <1>2 DEF SendPacket, Holding
  <2>2. /\ Append(C[c], holding[c]) \in Seq(Kinds)
        /\ Len(Append(C[c], holding[c])) = Len(C[c]) + 1
    BY <2>1
  <2>3. Len(C[c]) \in Nat /\ Len(C[c]) + 1 <= ChanCap
    BY <1>2, ChanAssumption DEF SendPacket
  <2>4. C' = [C EXCEPT ![c] = Append(C[c], holding[c])]
    BY <1>2 DEF SendPacket
  <2>5. C' \in [Conns -> Seq(Kinds)] /\ \A d \in Conns : Len(C'[d]) <= ChanCap
    BY <2>2, <2>3, <2>4
  <2> QED
    BY <1>2, <2>5 DEF SendPacket, server, peer, client, ReaderLabels
<1>3. CASE ReadEOF(c) \/ ReadError(c) \/ SendError(c)
  BY <1>3 DEF ReadEOF, ReadError, SendError, server, peer, client, ReaderLabels
<1> QED
  BY <1>1, <1>2, <1>3 DEF ReaderStep

LEMMA TakeTypes ==
  ASSUME TypeOK, NEW c \in Conns, Take(c)
  PROVE  C' \in [Conns -> Seq(Kinds)] /\ \A d \in Conns : Len(C'[d]) <= ChanCap
<1>1. C[c] \in Seq(Kinds) /\ C[c] # <<>> /\ C' = [C EXCEPT ![c] = Tail(C[c])]
  BY DEF Take, TypeOK
<1>2. /\ Tail(C[c]) \in Seq(Kinds)
      /\ Len(Tail(C[c])) = Len(C[c]) - 1
  BY <1>1, HeadTailProperties
<1>3. \A d \in Conns : Len(C[d]) \in Nat /\ Len(C[d]) <= ChanCap
  BY DEF TypeOK
<1>4. \A d \in Conns : C'[d] = IF d = c THEN Tail(C[c]) ELSE C[d]
  BY <1>1 DEF TypeOK
<1>5. C' \in [Conns -> Seq(Kinds)]
  BY <1>1, <1>2 DEF TypeOK
<1>6. Len(Tail(C[c])) <= ChanCap
  BY <1>2, <1>3, ChanAssumption
<1>7. \A d \in Conns : Len(C'[d]) <= ChanCap
  <2> SUFFICES ASSUME NEW d \in Conns
               PROVE  Len(C'[d]) <= ChanCap
    OBVIOUS
  <2>1. CASE d = c
    BY <1>4, <1>6, <2>1
  <2>2. CASE d # c
    BY <1>3, <1>4, <2>2
  <2> QED
    BY <2>1, <2>2
<1> QED
  BY <1>5, <1>7

LEMMA HandlerTypes ==
  ASSUME TypeOK, NEW c \in Conns, HandlerStep(c)
  PROVE  TypeOK'
<1> USE DEF TypeOK, Handler, HandlerLabels, ReaderLabels
<1>1. CASE Register(c)
  BY <1>1 DEF Register, server, peer, client
<1>2. CASE AuthAnswer(c)
  <2>1. C' \in [Conns -> Seq(Kinds)] /\ \A d \in Conns : Len(C'[d]) <= ChanCap
    BY <1>2, TakeTypes DEF AuthAnswer
  <2>2. handler' \in [Conns -> HandlerLabels] /\ authed' \in SUBSET Conns
    BY <1>2 DEF AuthAnswer
  <2> QED
    BY <1>2, <2>1, <2>2 DEF AuthAnswer, server, peer
<1>3. CASE Serve(c)
  <2>1. C' \in [Conns -> Seq(Kinds)] /\ \A d \in Conns : Len(C'[d]) <= ChanCap
    BY <1>3, TakeTypes DEF Serve
  <2>2. inGame' \in SUBSET Conns /\ pumped' \in SUBSET Conns
    BY <1>3 DEF Serve
  <2>3. handler' \in [Conns -> HandlerLabels]
    BY <1>3 DEF Serve
  <2> QED
    BY <1>3, <2>1, <2>2, <2>3 DEF Serve, server, peer
<1>4. CASE ServeState(c) \/ ServeDisconnect(c)
  <2>1. C' \in [Conns -> Seq(Kinds)] /\ \A d \in Conns : Len(C'[d]) <= ChanCap
    BY <1>4, TakeTypes DEF ServeState, ServeDisconnect
  <2> QED
    BY <1>4, <2>1 DEF ServeState, ServeDisconnect, server, peer, client
<1>5. CASE AuthTimeout(c) \/ Refuse(c) \/ Pump(c) \/ ServeError(c) \/ ServeQuit(c)
  BY <1>5 DEF AuthTimeout, Refuse, Pump, ServeError, ServeQuit, server, peer, framing, client
<1>6. CASE Unregister(c) \/ LeaveGame(c) \/ CloseConn(c)
  BY <1>6 DEF Unregister, LeaveGame, CloseConn, server, peer, framing, client
<1> QED
  BY <1>1, <1>2, <1>3, <1>4, <1>5, <1>6 DEF HandlerStep

-----------------------------------------------------------------------------
(* Connections that stand still *)

\* Nothing of connection d has changed.
Same(d) ==
  /\ handler'[d] = handler[d] /\ reader'[d] = reader[d] /\ holding'[d] = holding[d]
  /\ sent'[d] = sent[d] /\ first'[d] = first[d]
  /\ inbox'[d] = inbox[d] /\ C'[d] = C[d]
  /\ d \in clients' <=> d \in clients
  /\ d \in inGame' <=> d \in inGame
  /\ d \in open' <=> d \in open
  /\ d \in authed' <=> d \in authed

LEMMA StandingStill ==
  ASSUME NEW d \in Conns, ConnOK(d), Same(d)
  PROVE  ConnOK(d)'
  BY DEF ConnOK, CleanSoFar, Hearing, FirstInLine, Holding, Unheard, Same

\* A step of one connection changes no other.
LEMMA OthersStandStill ==
  ASSUME TypeOK, NEW c \in Conns, NEW d \in Conns, c # d,
         Accept(c) \/ PeerStep(c) \/ ReaderStep(c) \/ HandlerStep(c)
  PROVE  Same(d)
<1> USE DEF TypeOK, Same
<1>1. CASE Accept(c) \/ PeerStep(c)
  BY <1>1 DEF Accept, PeerStep, PeerSend, PeerClose, PeerReset, server, peer, framing, client
<1>2. CASE ReaderStep(c)
  BY <1>2 DEF ReaderStep, ReadPacket, SendPacket, ReadEOF, ReadError, SendError,
              server, peer, client
<1>3. CASE HandlerStep(c)
  <2>1. CASE Register(c) \/ AuthTimeout(c) \/ Refuse(c) \/ Pump(c) \/ ServeError(c) \/ ServeQuit(c)
    BY <2>1 DEF Handler, Register, AuthTimeout, Refuse, Pump, ServeError, ServeQuit,
                server, peer, framing, client
  <2>2. CASE AuthAnswer(c)
    BY <2>2 DEF Handler, Take, AuthAnswer, server, peer
  <2>3. CASE Serve(c)
    BY <2>3 DEF Handler, Take, Serve, server, peer
  <2>4. CASE ServeState(c) \/ ServeDisconnect(c)
    BY <2>4 DEF Handler, Take, ServeState, ServeDisconnect, server, peer, client
  <2>5. CASE Unregister(c) \/ LeaveGame(c) \/ CloseConn(c)
    BY <2>5 DEF Handler, Unregister, LeaveGame, CloseConn, server, peer, framing, client
  <2> QED
    BY <1>3, <2>1, <2>2, <2>3, <2>4, <2>5 DEF HandlerStep
<1> QED
  BY <1>1, <1>2, <1>3

-----------------------------------------------------------------------------
(* The connection that moves *)

LEMMA PeerKeepsOK ==
  ASSUME TypeOK, NEW c \in Conns, ConnOK(c), Accept(c) \/ PeerStep(c)
  PROVE  ConnOK(c)'
<1> USE DEF TypeOK, ConnOK, CleanSoFar, Hearing, FirstInLine, Holding, Unheard
<1>1. CASE Accept(c)
  BY <1>1 DEF Accept, server, peer, framing, client
<1>2. CASE PeerSend(c)
  <2>1. PICK k \in Kinds :
          /\ inbox' = [inbox EXCEPT ![c] = Append(@, k)]
          /\ first' = IF sent[c] = 0 THEN [first EXCEPT ![c] = k] ELSE first
    BY <1>2 DEF PeerSend
  <2>2. inbox[c] \in Seq(Kinds)
    OBVIOUS
  <2>3. /\ Append(inbox[c], k) # <<>>
        /\ Head(Append(inbox[c], k)) = IF inbox[c] = <<>> THEN k ELSE Head(inbox[c])
    <3> HIDE DEF TypeOK, ConnOK, CleanSoFar, Hearing, FirstInLine, Holding, Unheard
    <3> QED
      BY <2>2, HeadOfAppend
  <2>4. /\ inbox'[c] = Append(inbox[c], k)
        /\ sent'[c] = sent[c] + 1 /\ sent[c] \in Nat
        /\ first'[c] = IF sent[c] = 0 THEN k ELSE first[c]
    BY <1>2, <2>1 DEF PeerSend
  <2>5. /\ handler' = handler /\ reader' = reader /\ holding' = holding /\ C' = C
        /\ clients' = clients /\ inGame' = inGame /\ open' = open /\ authed' = authed
        /\ handler[c] # "none"
    BY <1>2 DEF PeerSend, Connected, server, client
  <2>6. CleanSoFar(c)' /\ Holding(c)'
    BY <2>5
  <2>7. handler[c] \in Unheard => FirstInLine(c)'
    BY <2>3, <2>4, <2>5
  <2>8. Hearing(c)'
    BY <2>4, <2>5, <2>7
  <2> QED
    BY <2>6, <2>8
<1>3. CASE PeerClose(c) \/ PeerReset(c)
  BY <1>3 DEF PeerClose, PeerReset, server, framing, client
<1> QED
  BY <1>1, <1>2, <1>3 DEF PeerStep

LEMMA ReaderKeepsOK ==
  ASSUME TypeOK, NEW c \in Conns, ConnOK(c), ReaderStep(c)
  PROVE  ConnOK(c)'
<1> USE DEF TypeOK, ConnOK, CleanSoFar, Hearing, FirstInLine, Holding, Unheard
<1>1. CASE ReadPacket(c)
  <2>1. /\ holding'[c] = Head(inbox[c]) /\ inbox'[c] = Tail(inbox[c]) /\ inbox[c] # <<>>
        /\ reader[c] = "reading" /\ reader'[c] = "sending"
        /\ Head(inbox[c]) \in Kinds
    BY <1>1, HeadTailProperties DEF ReadPacket
  <2>2. Head(inbox[c]) # "none"
    BY <2>1 DEF Kinds
  <2> QED
    BY <1>1, <2>1, <2>2 DEF ReadPacket, server, peer, client
<1>2. CASE SendPacket(c)
  <2>1. /\ C'[c] = Append(C[c], holding[c]) /\ reader[c] = "sending" /\ reader'[c] = "reading"
        /\ holding[c] \in Kinds
    BY <1>2 DEF SendPacket
  <2>2. /\ Append(C[c], holding[c]) # <<>>
        /\ Head(Append(C[c], holding[c])) = IF C[c] = <<>> THEN holding[c] ELSE Head(C[c])
    <3>1. C[c] \in Seq(Kinds) /\ holding[c] \in Kinds
      BY <2>1
    <3> HIDE DEF TypeOK, ConnOK, CleanSoFar, Hearing, FirstInLine, Holding, Unheard
    <3> QED
      BY <3>1, HeadOfAppend
  <2> QED
    BY <1>2, <2>1, <2>2 DEF SendPacket, server, peer, client
<1>3. CASE ReadEOF(c) \/ ReadError(c) \/ SendError(c)
  BY <1>3 DEF ReadEOF, ReadError, SendError, server, peer, client
<1> QED
  BY <1>1, <1>2, <1>3 DEF ReaderStep

LEMMA HandlerKeepsOK ==
  ASSUME TypeOK, NEW c \in Conns, ConnOK(c), HandlerStep(c)
  PROVE  ConnOK(c)'
<1> USE DEF TypeOK, ConnOK, CleanSoFar, Hearing, Holding, Unheard, Handler
<1>1. CASE Register(c)
  BY <1>1 DEF Register, FirstInLine, server, peer, client
<1>2. CASE AuthAnswer(c)
  <2>1. FirstInLine(c) /\ C[c] # <<>>
    BY <1>2 DEF AuthAnswer, Take
  <2>2. sent[c] # 0 /\ Head(C[c]) = first[c]
    BY <2>1 DEF FirstInLine
  <2> QED
    BY <1>2, <2>2 DEF AuthAnswer, Take, NextKind, server, peer
<1>3. CASE AuthTimeout(c) \/ Refuse(c)
  BY <1>3 DEF AuthTimeout, Refuse, server, peer, framing, client
<1>4. CASE Serve(c)
  BY <1>4 DEF Serve, Take, server, peer
<1>5. CASE ServeState(c) \/ ServeDisconnect(c)
  BY <1>5 DEF ServeState, ServeDisconnect, Take, server, peer, client
<1>6. CASE Pump(c) \/ ServeError(c) \/ ServeQuit(c)
  BY <1>6 DEF Pump, ServeError, ServeQuit, server, peer, framing, client
<1>7. CASE Unregister(c) \/ LeaveGame(c) \/ CloseConn(c)
  BY <1>7 DEF Unregister, LeaveGame, CloseConn, server, peer, framing, client
<1> QED
  BY <1>1, <1>2, <1>3, <1>4, <1>5, <1>6, <1>7 DEF HandlerStep

-----------------------------------------------------------------------------
(* The theorems *)

LEMMA InitEstablishes == Init => IInv
<1> SUFFICES ASSUME Init PROVE IInv
  OBVIOUS
<1> USE DEF Init
<1>1. TypeOK
  <2>1. <<>> \in Seq(Kinds) /\ Len(<<>>) = 0
    BY EmptySeq
  <2>2. 0 \in 0..MaxPackets /\ 0 <= ChanCap
    BY ChanAssumption, PacketsAssumption
  <2> QED
    BY <2>1, <2>2, ChanAssumption, PacketsAssumption DEF TypeOK, ReaderLabels, HandlerLabels
<1>2. \A c \in Conns : ConnOK(c)
  BY DEF ConnOK, CleanSoFar, Hearing, FirstInLine, Holding, Unheard
<1> QED
  BY <1>1, <1>2 DEF IInv

\* TCPServer.Close touches no connection.
LEMMA CloseKeepsOK ==
  ASSUME IInv, CloseQuit \/ CloseListener \/ UNCHANGED vars, NEW d \in Conns
  PROVE  ConnOK(d)'
<1>1. ConnOK(d)
  BY DEF IInv
<1>2. Same(d)
  BY DEF CloseQuit, CloseListener, Same, vars, server, peer, framing, client
<1> QED
  BY <1>1, <1>2, StandingStill

LEMMA NextPreserves == IInv /\ [Next]_vars => IInv'
<1> SUFFICES ASSUME IInv, [Next]_vars PROVE IInv'
  OBVIOUS
<1>1. TypeOK /\ \A c \in Conns : ConnOK(c)
  BY DEF IInv
<1>2. CASE UNCHANGED vars
  <2>1. TypeOK'
    BY <1>1, <1>2 DEF TypeOK, vars, server, peer, framing, client
  <2> QED
    BY <1>2, <2>1, CloseKeepsOK DEF IInv
<1>3. CASE CloseQuit \/ CloseListener
  <2>1. TypeOK'
    BY <1>1, <1>3 DEF TypeOK, CloseQuit, CloseListener, peer, framing, client
  <2> QED
    BY <1>3, <2>1, CloseKeepsOK DEF IInv
<1>4. ASSUME NEW c \in Conns, Accept(c) \/ PeerStep(c) \/ ReaderStep(c) \/ HandlerStep(c)
      PROVE  IInv'
  <2>1. TypeOK'
    BY <1>1, <1>4, ServerTypes, ReaderTypes, HandlerTypes DEF ConnOK
  <2>2. ConnOK(c)'
    BY <1>1, <1>4, PeerKeepsOK, ReaderKeepsOK, HandlerKeepsOK
  <2>3. ASSUME NEW d \in Conns, d # c
        PROVE  ConnOK(d)'
    BY <1>1, <1>4, <2>3, OthersStandStill, StandingStill
  <2> QED
    BY <2>1, <2>2, <2>3 DEF IInv
<1> QED
  BY <1>2, <1>3, <1>4 DEF Next

LEMMA Invariance == Spec => []IInv
  BY InitEstablishes, NextPreserves, PTL DEF Spec

\* Every variable keeps its type; in particular framer.C never holds more than
\* its capacity, and the reader never sends without a packet.
THEOREM TypeCorrect == Spec => []TypeOK
<1>1. IInv => TypeOK
  BY DEF IInv
<1> QED
  BY <1>1, Invariance, PTL

\* No connection is heard whose first packet was not the right answer, however
\* many packets its peer queues before, and however late the timer fires.
THEOREM Authenticated == Spec => []AuthFirst
<1>1. IInv => AuthFirst
  BY DEF IInv, TypeOK, ConnOK, Hearing, AuthFirst
<1> QED
  BY <1>1, Invariance, PTL

\* An ended handler has undone everything: its client is not in t.clients, in
\* no game, and its conn is closed, after one clean-up or two.
THEOREM LeftClean == Spec => []GoneIsClean
<1>1. IInv => GoneIsClean
  BY DEF IInv, ConnOK, CleanSoFar, GoneIsClean
<1> QED
  BY <1>1, Invariance, PTL
=============================================================================
