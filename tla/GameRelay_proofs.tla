--------------------------- MODULE GameRelay_proofs ---------------------------
(***************************************************************************)
(* Proofs about the relay of game states.                                  *)
(*                                                                         *)
(* In every schedule the states of a game reach each client in the order   *)
(* in which the game accepted them: Order follows a number on its way      *)
(* through the channel, the readLoop, a socket and the client.             *)
(*                                                                         *)
(* In the schedules where no handler joins or leaves a game that is being  *)
(* broadcast to, a broadcast serves each client of the game but its sender *)
(* once: Broadcasting relates the range to the lists of GameSerial_proofs. *)
(***************************************************************************)
EXTENDS GameSerial_proofs

-----------------------------------------------------------------------------
(* Types *)

\* A readLoop that is at work has a state in its hands, and a client when it is
\* at c.Write; the states in the channels and those still at c.gamePump <- p were taken from clients.
CountOK ==
  /\ \A g \in Games : loop[g] # "waiting" => current[g] \in State
  /\ \A g \in Games : loop[g] = "writing" => to[g] \in Clients
  /\ IsFiniteSet(pumping)
  /\ \A g \in Games : accepted[g] + Cardinality(pumping) <= taken

RInv == IInv /\ RelayTypeOK /\ CountOK

LEMMA RelayStepPreserves ==
  ASSUME IInv, [RelayNext]_relayVars
  PROVE  IInv'
<1>1. CASE RelayNext /\ \E c \in Clients : HandlerStep(c)
  BY <1>1, HandlerStepPreserves
<1>2. CASE RelayNext /\ ~\E c \in Clients : HandlerStep(c)
  <2>1. up' \in BOOLEAN
    BY <1>2, RelayStepTouches DEF IInv, TypeOK
  <2> QED
    BY <1>2, <2>1, RelayStepTouches, UnchangedPreserves
<1>3. CASE UNCHANGED relayVars
  <2>1. UNCHANGED <<shared, private, at, frame, reply, requests, quitting>> /\ up' \in BOOLEAN
    BY <1>3 DEF relayVars, vars, IInv, TypeOK
  <2> QED
    BY <2>1, UnchangedPreserves
<1> QED
  BY <1>1, <1>2, <1>3

LEMMA SizeByOne ==
  ASSUME NEW S, IsFiniteSet(S)
  PROVE  /\ Cardinality(S) \in Nat
         /\ \A c : c \notin S => /\ IsFiniteSet(S \cup {c})
                              /\ Cardinality(S \cup {c}) = Cardinality(S) + 1
         /\ \A c : c \in S => /\ IsFiniteSet(S \ {c})
                           /\ Cardinality(S \ {c}) = Cardinality(S) - 1
BY FS_CardinalityType, FS_AddElement, FS_RemoveElement

LEMMA RelayTypeInit == RelayInit => RelayTypeOK /\ CountOK
<1> SUFFICES ASSUME RelayInit PROVE RelayTypeOK /\ CountOK
  OBVIOUS
<1>1. TypeOK /\ NoHeader \in Header /\ Nil \in Slot
  BY InitEstablishes DEF RelayInit, IInv, NoHeader, Header, Slot
<1>2. Cardinality(pumping) = 0 /\ IsFiniteSet(pumping)
  BY FS_EmptySet DEF RelayInit
<1>3. \A n \in Nat : 0 <= n /\ 0 \in 0..n
  OBVIOUS
<1> QED
  BY <1>1, <1>2, <1>3, RelayAssumption DEF RelayInit, RelayTypeOK, CountOK

LEMMA RelayTypeStep ==
  ASSUME RInv, [RelayNext]_relayVars, TypeOK'
  PROVE  (RelayTypeOK /\ CountOK)'
<1>1. RelayTypeOK /\ CountOK /\ MaxStates \in Nat
  BY RelayAssumption DEF RInv
<1>2. CASE UNCHANGED relay
  BY <1>1, <1>2 DEF RelayTypeOK, CountOK, relay
<1>3. ASSUME NEW c \in Clients, TakeState(c)
      PROVE  (RelayTypeOK /\ CountOK)'
  <2>1. /\ Cardinality(pumping') = Cardinality(pumping) + 1 /\ Cardinality(pumping) \in Nat
        /\ IsFiniteSet(pumping')
    BY <1>1, <1>3, SizeByOne DEF TakeState, CountOK
  <2>2. taken' \in 0..MaxStates /\ pumping' \in SUBSET Clients
    BY <1>1, <1>3 DEF TakeState, RelayTypeOK
  <2>3. RelayTypeOK'
    BY <1>1, <1>3, <2>2 DEF TakeState, RelayTypeOK
  <2>4. \A g \in Games : accepted'[g] + Cardinality(pumping') <= taken'
    <3> TAKE g \in Games
    <3>1. accepted[g] \in Nat /\ taken \in Nat /\ accepted[g] + Cardinality(pumping) <= taken
      BY <1>1 DEF RelayTypeOK, CountOK
    <3>2. accepted'[g] = accepted[g] /\ taken' = taken + 1
      BY <1>3 DEF TakeState
    <3> QED
      BY <2>1, <3>1, <3>2
  <2>5. CountOK'
    BY <1>1, <1>3, <2>1, <2>4 DEF TakeState, CountOK
  <2> QED
    BY <2>3, <2>5
<1>4. ASSUME NEW c \in Clients, PumpState(c)
      PROVE  (RelayTypeOK /\ CountOK)'
  <2>1. PICK g \in Games : g = gamePump[c]
    BY <1>1, <1>4 DEF PumpState, RelayTypeOK, TypeOK
  <2>2. /\ Cardinality(pumping') = Cardinality(pumping) - 1 /\ Cardinality(pumping) \in Nat
        /\ IsFiniteSet(pumping')
    BY <1>1, <1>4, SizeByOne DEF PumpState, CountOK
  <2>3. /\ accepted' = [accepted EXCEPT ![g] = accepted[g] + 1]
        /\ ch' = [ch EXCEPT ![g] = Append(ch[g], [n |-> accepted[g] + 1, from |-> c])]
        /\ Len(ch[g]) < ChanCap
        /\ UNCHANGED <<taken, loop, current, range, next, to, socket, got, audience,
                       written>>
    BY <1>4, <2>1 DEF PumpState
  <2>4. \A h \in Games : accepted'[h] + Cardinality(pumping') <= taken'
    <3> TAKE h \in Games
    <3>1. /\ accepted[h] \in Nat /\ taken \in Nat
          /\ accepted[h] + Cardinality(pumping) <= taken
      BY <1>1 DEF RelayTypeOK, CountOK
    <3>2. accepted'[h] \in {accepted[h], accepted[h] + 1} /\ taken' = taken
      BY <1>1, <2>3 DEF RelayTypeOK
    <3> QED
      BY <2>2, <3>1, <3>2
  <2>5. accepted[g] + 1 \in 1..MaxStates
    <3>1. accepted[g] \in Nat /\ taken \in 0..MaxStates
      BY <1>1, <2>1 DEF RelayTypeOK
    <3>2. accepted[g] + Cardinality(pumping) <= taken
      BY <1>1, <2>1 DEF CountOK
    <3>3. Cardinality(pumping') \in Nat
      BY <2>2, FS_CardinalityType
    <3> QED
      BY <1>1, <2>2, <3>1, <3>2, <3>3
  <2> DEFINE s == [n |-> accepted[g] + 1, from |-> c]
  <2>6. s \in State
    BY <2>5 DEF State
  <2> HIDE DEF s
  <2>7. Append(ch[g], s) \in Seq(State) /\ Len(Append(ch[g], s)) <= ChanCap
    BY <1>1, <2>3, <2>6, RelayAssumption DEF RelayTypeOK
  <2>8. ch' \in [Games -> Seq(State)] /\ \A h \in Games : Len(ch'[h]) <= ChanCap
    BY <1>1, <2>3, <2>7 DEF RelayTypeOK, s
  <2>9. accepted' \in [Games -> 0..MaxStates]
    BY <1>1, <2>3, <2>5 DEF RelayTypeOK
  <2>10. pumping' \in SUBSET Clients
    BY <1>1, <1>4 DEF PumpState, RelayTypeOK
  <2> QED
    BY <1>1, <2>2, <2>3, <2>4, <2>8, <2>9, <2>10 DEF RelayTypeOK, CountOK
<1>5. ASSUME NEW c \in Clients, ClientRead(c)
      PROVE  (RelayTypeOK /\ CountOK)'
  <2>1. socket[c] \in Seq(Delivery) /\ socket[c] # <<>>
    BY <1>1, <1>5 DEF ClientRead, RelayTypeOK
  <2>2. /\ Head(socket[c]) \in Delivery /\ Tail(socket[c]) \in Seq(Delivery)
        /\ Len(Tail(socket[c])) <= Len(socket[c])
    BY <2>1
  <2>3. \A d \in Delivery : d.game \in Games /\ d.n \in 0..MaxStates
    BY DEF Delivery
  <2>4. got' \in [Clients -> [Games -> 0..MaxStates]]
    BY <1>1, <1>5, <2>2, <2>3 DEF ClientRead, RelayTypeOK
  <2>5. Len(socket[c]) \in Nat /\ Len(socket[c]) <= SocketCap /\ Len(Tail(socket[c])) \in Nat
    BY <1>1, <2>1, <2>2 DEF RelayTypeOK
  <2>6. socket' \in [Clients -> Seq(Delivery)] /\ \A d \in Clients : Len(socket'[d]) <= SocketCap
    BY <1>1, <1>5, <2>2, <2>5, RelayAssumption DEF ClientRead, RelayTypeOK
  <2> QED
    BY <1>1, <1>5, <2>4, <2>6 DEF ClientRead, RelayTypeOK, CountOK
<1>6. ASSUME NEW g \in Games, ReceiveState(g)
      PROVE  (RelayTypeOK /\ CountOK)'
  <2>1. ch[g] \in Seq(State) /\ ch[g] # <<>>
    BY <1>1, <1>6 DEF ReceiveState, RelayTypeOK
  <2>2. /\ Head(ch[g]) \in State /\ Tail(ch[g]) \in Seq(State) /\ Len(Tail(ch[g])) <= Len(ch[g])
        /\ Len(ch[g]) \in Nat /\ Len(Tail(ch[g])) \in Nat
    BY <2>1
  <2>3. ch' \in [Games -> Seq(State)] /\ \A h \in Games : Len(ch'[h]) <= ChanCap
    BY <1>1, <1>6, <2>2, RelayAssumption DEF ReceiveState, RelayTypeOK
  <2> QED
    BY <1>1, <1>6, <2>2, <2>3 DEF ReceiveState, RelayTypeOK, CountOK
<1>7. ASSUME NEW g \in Games,
             StartRange(g) \/ SkipSender(g) \/ LoadClient(g) \/ EndRange(g) \/ WaitAgain(g)
      PROVE  (RelayTypeOK /\ CountOK)'
  <2>1. slice[g] \in Header /\ NoHeader \in Header /\ next[g] \in Nat
    BY <1>1 DEF RelayTypeOK, TypeOK, NoHeader, Header
  <2>2. UNCHANGED <<taken, pumping, ch, accepted, socket, got>>
    BY <1>7 DEF StartRange, SkipSender, LoadClient, EndRange, WaitAgain
  <2>3. \A S : <<>> \in Seq(S)
    OBVIOUS
  <2>4. CASE StartRange(g)
    BY <1>1, <2>1, <2>2, <2>3, <2>4 DEF StartRange, RelayTypeOK, CountOK
  <2>5. CASE SkipSender(g)
    BY <1>1, <2>1, <2>2, <2>5 DEF SkipSender, RelayTypeOK, CountOK
  <2>6. CASE EndRange(g)
    BY <1>1, <2>2, <2>6 DEF EndRange, RelayTypeOK, CountOK
  <2>7. CASE WaitAgain(g)
    BY <1>1, <2>1, <2>2, <2>3, <2>7 DEF WaitAgain, RelayTypeOK, CountOK
  <2>8. CASE LoadClient(g)
    <3>1. Element(g) \in Clients /\ Element(g) \in Slot /\ loop[g] # "waiting"
      BY <2>8 DEF LoadClient, InRange, Slot
    <3> HIDE DEF Element
    <3>2. to' \in [Games -> Slot] /\ to'[g] \in Clients
      BY <1>1, <2>8, <3>1 DEF LoadClient, RelayTypeOK
    <3>3. \A h \in Games : h # g => loop'[h] = loop[h] /\ to'[h] = to[h]
      BY <1>1, <2>8 DEF LoadClient, RelayTypeOK
    <3>4. loop' \in [Games -> {"waiting", "validated", "ranging", "writing", "done"}]
      BY <1>1, <2>8 DEF LoadClient, RelayTypeOK
    <3>5. UNCHANGED <<current, range, next, audience, written>>
      BY <2>8 DEF LoadClient
    <3>6. RelayTypeOK'
      BY <1>1, <2>2, <3>2, <3>4, <3>5 DEF RelayTypeOK
    <3>7. CountOK'
      BY <1>1, <2>2, <3>1, <3>2, <3>3, <3>5 DEF CountOK
    <3> QED
      BY <3>6, <3>7
  <2> QED
    BY <1>7, <2>4, <2>5, <2>6, <2>7, <2>8
<1>8. ASSUME NEW g \in Games, WriteState(g)
      PROVE  (RelayTypeOK /\ CountOK)'
  <2>1. PICK c \in Clients : c = to[g]
    BY <1>1, <1>8 DEF WriteState, CountOK
  <2> DEFINE d == [game |-> g, n |-> current[g].n]
  <2>2. d \in Delivery
    BY <1>1, <1>8 DEF WriteState, CountOK, State, Delivery
  <2> HIDE DEF d
  <2>3. /\ UNCHANGED <<taken, pumping, ch, accepted, current, range, got, audience>>
        /\ loop' = [loop EXCEPT ![g] = "ranging"] /\ to' = [to EXCEPT ![g] = Nil]
        /\ written' = [written EXCEPT ![g] = Append(written[g], c)]
        /\ next' = [next EXCEPT ![g] = next[g] + 1]
        /\ \/ UNCHANGED socket
           \/ /\ Len(socket[c]) < SocketCap
              /\ socket' = [socket EXCEPT ![c] = Append(socket[c], d)]
    BY <1>8, <2>1 DEF WriteState, WriteReturns, d
  <2>4. socket' \in [Clients -> Seq(Delivery)] /\ \A b \in Clients : Len(socket'[b]) <= SocketCap
    <3>1. /\ Append(socket[c], d) \in Seq(Delivery)
          /\ Len(socket[c]) < SocketCap => Len(Append(socket[c], d)) <= SocketCap
      BY <1>1, <2>2, RelayAssumption DEF RelayTypeOK
    <3> QED
      BY <1>1, <2>3, <3>1 DEF RelayTypeOK
  <2>5. written' \in [Games -> Seq(Clients)] /\ next' \in [Games -> Nat]
    BY <1>1, <2>3 DEF RelayTypeOK
  <2>6. /\ to' \in [Games -> Slot]
        /\ loop' \in [Games -> {"waiting", "validated", "ranging", "writing", "done"}]
    BY <1>1, <2>3 DEF RelayTypeOK, Slot
  <2>7. RelayTypeOK'
    BY <1>1, <2>3, <2>4, <2>5, <2>6 DEF RelayTypeOK
  <2>8. loop[g] # "waiting" /\ loop'[g] = "ranging"
    BY <1>1, <1>8, <2>3 DEF WriteState, RelayTypeOK
  <2>9. \A h \in Games : h # g => loop'[h] = loop[h] /\ to'[h] = to[h]
    BY <1>1, <2>3 DEF RelayTypeOK
  <2>10. CountOK'
    BY <1>1, <2>3, <2>8, <2>9 DEF CountOK
  <2> QED
    BY <2>7, <2>10
<1> QED
  BY <1>2, <1>3, <1>4, <1>5, <1>6, <1>7, <1>8
  DEF RelayNext, ManagerStep, LoopStep, NilClient, relayVars

LEMMA RelayInvariance == RelaySpec => []RInv
<1>1. RelayInit => RInv
  BY RelayTypeInit, InitEstablishes DEF RelayInit, RInv
<1>2. RInv /\ [RelayNext]_relayVars => RInv'
  <2> SUFFICES ASSUME RInv, [RelayNext]_relayVars PROVE RInv'
    OBVIOUS
  <2>1. IInv'
    BY RelayStepPreserves DEF RInv
  <2> QED
    BY <2>1, RelayTypeStep DEF RInv, IInv
<1> QED
  BY <1>1, <1>2, PTL DEF RelaySpec

\* The relay keeps its types whatever the handlers do: the channels and the
\* sockets stay within their capacity, a broadcast only writes to clients, and
\* no game accepts more states than were sent.
THEOREM RelayTypeCorrect == RelaySpec => []RelayTypeOK
<1>1. RInv => RelayTypeOK
  BY DEF RInv
<1> QED
  BY <1>1, RelayInvariance, PTL

-----------------------------------------------------------------------------
(* Order: no state overtakes another on its way to a client *)

\* State n of game g is accepted, and nothing that is yet to be written to
\* clients is older.
Behind(g, n) ==
  /\ n <= accepted[g]
  /\ \A i \in 1..Len(ch[g]) : n <= ch[g][i].n
  /\ loop[g] # "waiting" => n <= current[g].n

ChannelOrder(g) ==
  /\ \A i \in 1..Len(ch[g]) : ch[g][i].n <= accepted[g]
  /\ \A i, j \in 1..Len(ch[g]) : i <= j => ch[g][i].n <= ch[g][j].n
  /\ loop[g] # "waiting" => Behind(g, current[g].n)

SocketsBehind == \A c \in Clients : \A j \in 1..Len(socket[c]) : Behind(socket[c][j].game, socket[c][j].n)
GotBehind == \A c \in Clients : \A g \in Games : Behind(g, got[c][g])

Order == (\A g \in Games : ChannelOrder(g)) /\ SocketsBehind /\ GotBehind /\ InOrder

\* What is behind the states to come stays behind them.
StaysBehind == \A g \in Games : \A n \in Nat : Behind(g, n) => Behind(g, n)'

LEMMA RelayTyped ==
  ASSUME RInv
  PROVE  /\ \A g \in Games : /\ accepted[g] \in Nat
                             /\ ch[g] \in Seq(State) /\ Len(ch[g]) \in Nat
                             /\ \A i \in 1..Len(ch[g]) : ch[g][i] \in State
                             /\ loop[g] # "waiting" => current[g] \in State
         /\ \A s \in State : s.n \in Nat
         /\ \A c \in Clients : /\ socket[c] \in Seq(Delivery) /\ Len(socket[c]) \in Nat
                               /\ \A j \in 1..Len(socket[c]) : socket[c][j] \in Delivery
                               /\ \A g \in Games : got[c][g] \in Nat
         /\ \A d \in Delivery : d.game \in Games /\ d.n \in Nat
<1>1. MaxStates \in Nat
  BY RelayAssumption
<1>2. \A S : \A s \in Seq(S) : Len(s) \in Nat /\ \A i \in 1..Len(s) : s[i] \in S
  BY ElementOfSeq, LenProperties
<1>3. ch \in [Games -> Seq(State)] /\ socket \in [Clients -> Seq(Delivery)]
  BY DEF RInv, RelayTypeOK
<1>4. \A g \in Games : accepted[g] \in Nat /\ (loop[g] # "waiting" => current[g] \in State)
  BY <1>1 DEF RInv, RelayTypeOK, CountOK
<1>5. \A c \in Clients : \A g \in Games : got[c][g] \in Nat
  BY <1>1 DEF RInv, RelayTypeOK
<1>6. (\A s \in State : s.n \in Nat) /\ \A d \in Delivery : d.game \in Games /\ d.n \in Nat
  BY <1>1 DEF State, Delivery
<1> QED
  BY <1>2, <1>3, <1>4, <1>5, <1>6

LEMMA HeadTailContents ==
  ASSUME NEW S, NEW s \in Seq(S), s # <<>>
  PROVE  /\ Len(s) \in Nat /\ Len(s) >= 1 /\ Len(Tail(s)) = Len(s) - 1 /\ Head(s) = s[1]
         /\ \A i \in 1..Len(s) - 1 : Tail(s)[i] = s[i + 1]
OBVIOUS

LEMMA PumpStateInOrder ==
  ASSUME RInv, Order, NEW c \in Clients, PumpState(c)
  PROVE  StaysBehind /\ \A g \in Games : ChannelOrder(g)'
<1>1. PICK h \in Games : h = gamePump[c]
  BY DEF PumpState, RInv, RelayTypeOK, TypeOK
<1> DEFINE s == [n |-> accepted[h] + 1, from |-> c]
           len == Len(ch[h])
<1>2. /\ accepted' = [accepted EXCEPT ![h] = accepted[h] + 1]
      /\ ch' = [ch EXCEPT ![h] = Append(ch[h], s)]
      /\ loop' = loop /\ current' = current
  BY <1>1 DEF PumpState
<1>3. \A g \in Games : g # h => accepted'[g] = accepted[g] /\ ch'[g] = ch[g]
  BY <1>2 DEF RInv, RelayTypeOK
<1>4. accepted'[h] = accepted[h] + 1 /\ accepted[h] \in Nat /\ ch'[h] = Append(ch[h], s)
  BY <1>2, RelayTyped DEF RInv, RelayTypeOK
<1>5. /\ len \in Nat /\ Len(ch'[h]) = len + 1
      /\ ch'[h][len + 1] = s /\ \A i \in 1..len : ch'[h][i] = ch[h][i]
  BY <1>4, RelayTyped
<1>6. s.n = accepted[h] + 1
  OBVIOUS
<1> HIDE DEF s, len
<1>7. ASSUME NEW n \in Nat, Behind(h, n)
      PROVE  Behind(h, n)'
  <2>1. n <= accepted[h] /\ \A i \in 1..len : n <= ch[h][i].n
    BY <1>7 DEF Behind, len
  <2>2. n <= accepted'[h]
    BY <1>4, <2>1
  <2>3. \A i \in 1..len + 1 : n <= ch'[h][i].n
    <3>1. n <= s.n
      BY <1>4, <1>6, <2>1
    <3>2. \A i \in 1..len + 1 : i \in 1..len \/ i = len + 1
      BY <1>5
    <3> QED
      BY <1>5, <2>1, <3>1, <3>2
  <2>4. loop'[h] # "waiting" => n <= current'[h].n
    BY <1>2, <1>7 DEF Behind
  <2> QED
    BY <1>5, <2>2, <2>3, <2>4 DEF Behind
<1>8. StaysBehind
  BY <1>2, <1>3, <1>7 DEF StaysBehind, Behind
<1>9. \A g \in Games : loop'[g] # "waiting" => Behind(g, current[g].n)'
  <2>1. \A g \in Games : loop[g] # "waiting" => Behind(g, current[g].n) /\ current[g].n \in Nat
    BY RelayTyped DEF Order, ChannelOrder
  <2> QED
    BY <1>2, <1>8, <2>1 DEF StaysBehind, Behind
<1>10. ChannelOrder(h)'
  <2>1. \A i \in 1..len : ch[h][i].n \in Nat /\ ch[h][i].n <= accepted[h]
    BY RelayTyped DEF Order, ChannelOrder, len
  <2>2. \A i \in 1..len + 1 : i \in 1..len \/ i = len + 1
    BY <1>5
  <2>3. \A i \in 1..len + 1 : ch'[h][i].n <= accepted'[h]
    <3>1. \A i \in 1..len : ch'[h][i].n <= accepted'[h]
      BY <1>4, <1>5, <2>1
    <3>2. ch'[h][len + 1].n <= accepted'[h]
      BY <1>4, <1>5, <1>6
    <3> QED
      BY <2>2, <3>1, <3>2
  <2>4. \A i, j \in 1..len : i <= j => ch[h][i].n <= ch[h][j].n
    BY DEF Order, ChannelOrder, len
  <2>5. ASSUME NEW i \in 1..len + 1, NEW j \in 1..len + 1, i <= j
        PROVE  ch'[h][i].n <= ch'[h][j].n
    <3>1. CASE j = len + 1
      BY <1>4, <1>5, <1>6, <2>3, <3>1
    <3>2. CASE j \in 1..len
      BY <1>5, <2>4, <2>5, <3>2
    <3> QED
      BY <2>2, <3>1, <3>2
  <2> QED
    BY <1>5, <1>9, <2>3, <2>5 DEF ChannelOrder
<1> QED
  BY <1>2, <1>3, <1>8, <1>9, <1>10 DEF Order, ChannelOrder

LEMMA ReceiveStateInOrder ==
  ASSUME RInv, Order, NEW h \in Games, ReceiveState(h)
  PROVE  StaysBehind /\ \A g \in Games : ChannelOrder(g)'
<1> DEFINE len == Len(ch[h])
<1>1. /\ current' = [current EXCEPT ![h] = Head(ch[h])]
      /\ ch' = [ch EXCEPT ![h] = Tail(ch[h])]
      /\ loop' = [loop EXCEPT ![h] = "validated"]
      /\ accepted' = accepted /\ ch[h] # <<>>
  BY DEF ReceiveState
<1>2. \A g \in Games : g # h => current'[g] = current[g] /\ ch'[g] = ch[g] /\ loop'[g] = loop[g]
  BY <1>1 DEF RInv, RelayTypeOK
<1>3. current'[h] = Head(ch[h]) /\ ch'[h] = Tail(ch[h])
  BY <1>1 DEF RInv, RelayTypeOK
<1>4. /\ len \in Nat /\ len >= 1 /\ Len(ch'[h]) = len - 1 /\ current'[h] = ch[h][1]
      /\ \A i \in 1..len - 1 : ch'[h][i] = ch[h][i + 1]
  <2>1. ch[h] \in Seq(State)
    BY RelayTyped
  <2> QED
    BY <1>1, <1>3, <2>1, HeadTailContents
<1>5. \A i \in 1..len : ch[h][i].n \in Nat
  BY RelayTyped
<1> HIDE DEF len
<1>6. 1 \in 1..len /\ \A i \in 1..len - 1 : i + 1 \in 1..len
  BY <1>4
<1>7. ASSUME NEW n \in Nat, Behind(h, n)
      PROVE  Behind(h, n)'
  <2>1. n <= accepted[h] /\ \A i \in 1..len : n <= ch[h][i].n
    BY <1>7 DEF Behind, len
  <2>2. n <= current'[h].n /\ \A i \in 1..len - 1 : n <= ch'[h][i].n
    BY <1>4, <1>6, <2>1
  <2> QED
    BY <1>1, <1>4, <2>1, <2>2 DEF Behind
<1>8. StaysBehind
  BY <1>1, <1>2, <1>7 DEF StaysBehind, Behind
<1>9. Behind(h, current[h].n)'
  <2>1. \A i, j \in 1..len : i <= j => ch[h][i].n <= ch[h][j].n
    BY DEF Order, ChannelOrder, len
  <2>2. \A j \in 1..len : ch[h][1].n <= ch[h][j].n /\ ch[h][j].n <= accepted[h]
    BY <1>6, <2>1 DEF Order, ChannelOrder, len
  <2> QED
    BY <1>1, <1>4, <1>5, <1>6, <2>2 DEF Behind
<1>10. ChannelOrder(h)'
  <2>1. \A i, j \in 1..len : i <= j => ch[h][i].n <= ch[h][j].n
    BY DEF Order, ChannelOrder, len
  <2>2. \A i \in 1..len : ch[h][i].n <= accepted[h]
    BY DEF Order, ChannelOrder, len
  <2>3. \A i, j \in 1..len - 1 : i <= j => ch'[h][i].n <= ch'[h][j].n
    <3> TAKE i, j \in 1..len - 1
    <3>1. i <= j => i + 1 <= j + 1
      BY <1>4
    <3> QED
      BY <1>4, <1>6, <2>1, <3>1
  <2>4. \A i \in 1..len - 1 : ch'[h][i].n <= accepted'[h]
    BY <1>1, <1>4, <1>6, <2>2
  <2> QED
    BY <1>4, <1>9, <2>3, <2>4 DEF ChannelOrder
<1>11. ASSUME NEW g \in Games, g # h
       PROVE  ChannelOrder(g)'
  <2>1. ChannelOrder(g)
    BY DEF Order
  <2> QED
    BY <1>1, <1>2, <1>11, <2>1 DEF ChannelOrder, Behind
<1> QED
  BY <1>8, <1>10, <1>11

\* The other steps take nothing into a channel and nothing out of it.
LEMMA QueuesKept ==
  ASSUME Order, UNCHANGED <<accepted, ch>>,
         \A g \in Games : \/ loop'[g] = "waiting"
                          \/ loop[g] # "waiting" /\ current'[g] = current[g]
  PROVE  StaysBehind /\ \A g \in Games : ChannelOrder(g)'
<1>1. StaysBehind
  BY DEF StaysBehind, Behind
<1>2. \A g \in Games : ChannelOrder(g)
  BY DEF Order
<1> QED
  BY <1>1, <1>2 DEF ChannelOrder, Behind

LEMMA SocketsKept ==
  ASSUME RInv, Order, StaysBehind, \A g \in Games : ChannelOrder(g)', UNCHANGED <<socket, got>>
  PROVE  Order'
<1>1. SocketsBehind'
  <2> SUFFICES ASSUME NEW c \in Clients, NEW j \in 1..Len(socket[c])
               PROVE  Behind(socket[c][j].game, socket[c][j].n)'
    BY DEF SocketsBehind
  <2>1. socket[c][j].game \in Games /\ socket[c][j].n \in Nat
    BY RelayTyped
  <2>2. Behind(socket[c][j].game, socket[c][j].n)
    BY DEF Order, SocketsBehind
  <2> QED
    BY <2>1, <2>2 DEF StaysBehind, Behind
<1>2. GotBehind'
  <2> SUFFICES ASSUME NEW c \in Clients, NEW g \in Games
               PROVE  Behind(g, got[c][g])'
    BY DEF GotBehind
  <2>1. got[c][g] \in Nat /\ Behind(g, got[c][g])
    BY RelayTyped DEF Order, GotBehind
  <2> QED
    BY <2>1 DEF StaysBehind, Behind
<1>3. InOrder'
  BY DEF Order, InOrder
<1> QED
  BY <1>1, <1>2, <1>3 DEF Order

\* What is written is no older than what waits in the socket or was read.
LEMMA WrittenInOrder ==
  ASSUME RInv, Order, NEW g \in Games, loop[g] # "waiting", NEW c \in Clients,
         UNCHANGED <<accepted, ch, current, got>>,
         \A h \in Games : loop'[h] = "waiting" <=> loop[h] = "waiting",
         socket' = [socket EXCEPT ![c] = Append(socket[c], [game |-> g, n |-> current[g].n])]
  PROVE  Order'
<1> DEFINE d == [game |-> g, n |-> current[g].n]
           len == Len(socket[c])
<1>1. d.game = g /\ d.n = current[g].n /\ d.n \in Nat
  BY RelayTyped
<1>2. \A b \in Clients : b # c => socket'[b] = socket[b]
  BY DEF RInv, RelayTypeOK
<1>3. socket'[c] = Append(socket[c], d)
  BY DEF RInv, RelayTypeOK
<1> HIDE DEF d
<1>4. /\ len \in Nat /\ Len(socket'[c]) = len + 1 /\ socket'[c][len + 1] = d
      /\ \A i \in 1..len : socket'[c][i] = socket[c][i]
  <2>1. socket[c] \in Seq(Delivery)
    BY RelayTyped
  <2> QED
    BY <1>3, <2>1
<1> HIDE DEF len
<1>5. \A i \in 1..len + 1 : i \in 1..len \/ i = len + 1
  BY <1>4
<1>6. \A h \in Games : \A n : Behind(h, n)' <=> Behind(h, n)
  BY DEF Behind
<1>7. Behind(g, d.n)
  BY <1>1 DEF Order, ChannelOrder
<1>8. \A i \in 1..len : Behind(socket[c][i].game, socket[c][i].n)
  BY DEF Order, SocketsBehind, len
<1>9. SocketsBehind'
  <2> SUFFICES ASSUME NEW b \in Clients, NEW j \in 1..Len(socket'[b])
               PROVE  /\ Behind(socket'[b][j].game, socket'[b][j].n)
                      /\ socket'[b][j].game \in Games
    BY <1>6 DEF SocketsBehind
  <2>1. CASE b # c
    BY <1>2, <2>1, RelayTyped DEF Order, SocketsBehind
  <2>2. CASE b = c /\ j \in 1..len
    BY <1>4, <1>8, <2>2, RelayTyped DEF len
  <2>3. CASE b = c /\ j = len + 1
    BY <1>1, <1>4, <1>7, <2>3
  <2> QED
    BY <1>4, <1>5, <2>1, <2>2, <2>3
<1>10. GotBehind'
  BY <1>6 DEF Order, GotBehind
<1>11. ASSUME NEW j \in 1..Len(socket'[c])
       PROVE  /\ got[c][socket'[c][j].game] <= socket'[c][j].n
              /\ \A i \in 1..j : socket'[c][i].game = socket'[c][j].game
                                   => socket'[c][i].n <= socket'[c][j].n
  <2>1. CASE j \in 1..len
    <3>1. \A i \in 1..j : i \in 1..len
      BY <1>4, <2>1
    <3> QED
      BY <1>4, <2>1, <3>1 DEF Order, InOrder, len
  <2>2. CASE j = len + 1
    <3>1. got[c][g] <= d.n
      BY <1>1 DEF Order, GotBehind, Behind
    <3>2. \A i \in 1..len : socket[c][i].game = g => socket[c][i].n <= d.n
      BY <1>1, <1>8 DEF Behind
    <3>3. \A i \in 1..j : i \in 1..len \/ i = j
      BY <1>4, <2>2
    <3>4. d.n <= d.n
      BY <1>1
    <3> QED
      BY <1>1, <1>4, <2>2, <3>1, <3>2, <3>3, <3>4
  <2> QED
    BY <1>4, <1>5, <2>1, <2>2
<1>12. InOrder'
  <2> SUFFICES ASSUME NEW b \in Clients, NEW j \in 1..Len(socket'[b])
               PROVE  /\ got[b][socket'[b][j].game] <= socket'[b][j].n
                      /\ \A i \in 1..j : socket'[b][i].game = socket'[b][j].game
                                           => socket'[b][i].n <= socket'[b][j].n
    BY DEF InOrder
  <2>1. CASE b = c
    BY <1>11, <2>1
  <2>2. CASE b # c
    BY <1>2, <2>2 DEF Order, InOrder
  <2> QED
    BY <2>1, <2>2
<1>13. \A h \in Games : ChannelOrder(h)'
  BY DEF Order, ChannelOrder, Behind
<1> QED
  BY <1>9, <1>10, <1>12, <1>13 DEF Order

\* What a client reads is no newer than what it has still to read.
LEMMA ReadInOrder ==
  ASSUME RInv, Order, NEW c \in Clients, ClientRead(c)
  PROVE  Order'
<1> DEFINE len == Len(socket[c])
           d == socket[c][1]
<1>1. socket[c] # <<>> /\ UNCHANGED <<accepted, ch, loop, current>>
  BY DEF ClientRead
<1>2. /\ len \in Nat /\ len >= 1 /\ Len(Tail(socket[c])) = len - 1 /\ Head(socket[c]) = d
      /\ \A i \in 1..len - 1 : Tail(socket[c])[i] = socket[c][i + 1]
  BY <1>1, RelayTyped, HeadTailContents
<1>3. 1 \in 1..len /\ \A i \in 1..len - 1 : i + 1 \in 1..len
  BY <1>2
<1>4. d.game \in Games /\ d.n \in Nat /\ Behind(d.game, d.n)
  BY <1>3, RelayTyped DEF Order, SocketsBehind
<1>5. \A b \in Clients : b # c => socket'[b] = socket[b] /\ got'[b] = got[b]
  BY DEF ClientRead, RInv, RelayTypeOK
<1>6. /\ Len(socket'[c]) = len - 1
      /\ \A i \in 1..len - 1 : socket'[c][i] = socket[c][i + 1]
      /\ \A h \in Games : got'[c][h] = IF h = d.game THEN d.n ELSE got[c][h]
  BY <1>2, <1>4 DEF ClientRead, RInv, RelayTypeOK
<1> HIDE DEF len, d
<1>7. \A h, n : Behind(h, n)' <=> Behind(h, n)
  BY <1>1 DEF Behind
<1>8. SocketsBehind'
  <2> SUFFICES ASSUME NEW b \in Clients, NEW j \in 1..Len(socket'[b])
               PROVE  Behind(socket'[b][j].game, socket'[b][j].n)
    BY <1>7 DEF SocketsBehind
  <2>1. CASE b # c
    BY <1>5, <2>1 DEF Order, SocketsBehind
  <2>2. CASE b = c
    <3>1. j \in 1..len - 1 /\ j + 1 \in 1..len
      BY <1>3, <1>6, <2>2
    <3> QED
      BY <1>6, <2>2, <3>1 DEF Order, SocketsBehind, len
  <2> QED
    BY <2>1, <2>2
<1>9. GotBehind'
  <2> SUFFICES ASSUME NEW b \in Clients, NEW h \in Games
               PROVE  Behind(h, got'[b][h])
    BY <1>7 DEF GotBehind
  <2>1. Behind(h, got[b][h])
    BY DEF Order, GotBehind
  <2>2. (b = c /\ h = d.game) \/ got'[b][h] = got[b][h]
    BY <1>5, <1>6
  <2> QED
    BY <1>4, <1>6, <2>1, <2>2
<1>10. ASSUME NEW j \in 1..Len(socket'[c])
       PROVE  /\ got'[c][socket'[c][j].game] <= socket'[c][j].n
              /\ \A i \in 1..j : socket'[c][i].game = socket'[c][j].game
                                   => socket'[c][i].n <= socket'[c][j].n
  <2> DEFINE e == socket[c][j + 1]
  <2>1. j \in 1..len - 1 /\ j + 1 \in 1..len /\ 1 \in 1..j + 1 /\ socket'[c][j] = e
    BY <1>2, <1>3, <1>6
  <2>2. /\ got[c][e.game] <= e.n
        /\ \A i \in 1..j + 1 : socket[c][i].game = e.game => socket[c][i].n <= e.n
    BY <2>1 DEF Order, InOrder, len
  <2>3. e.game \in Games
    BY <2>1, RelayTyped DEF len
  <2> HIDE DEF e
  <2>4. got'[c][e.game] <= e.n
    BY <1>6, <2>1, <2>2, <2>3 DEF d
  <2>5. \A i \in 1..j : i \in 1..len - 1 /\ i + 1 \in 1..j + 1
    BY <1>2, <2>1
  <2>6. \A i \in 1..j : socket'[c][i].game = e.game => socket'[c][i].n <= e.n
    BY <1>6, <2>2, <2>5
  <2> QED
    BY <2>1, <2>4, <2>6
<1>11. InOrder'
  <2> SUFFICES ASSUME NEW b \in Clients, NEW j \in 1..Len(socket'[b])
               PROVE  /\ got'[b][socket'[b][j].game] <= socket'[b][j].n
                      /\ \A i \in 1..j : socket'[b][i].game = socket'[b][j].game
                                           => socket'[b][i].n <= socket'[b][j].n
    BY DEF InOrder
  <2>1. CASE b = c
    BY <1>10, <2>1
  <2>2. CASE b # c
    BY <1>5, <2>2 DEF Order, InOrder
  <2> QED
    BY <2>1, <2>2
<1>12. \A h \in Games : ChannelOrder(h)'
  BY <1>1 DEF Order, ChannelOrder, Behind
<1> QED
  BY <1>8, <1>9, <1>11, <1>12 DEF Order

LEMMA LoopStepInOrder ==
  ASSUME RInv, Order, NEW g \in Games, LoopStep(g)
  PROVE  Order'
<1>1. CASE ReceiveState(g)
  <2>1. UNCHANGED <<socket, got>>
    BY <1>1 DEF ReceiveState
  <2> QED
    BY <1>1, <2>1, ReceiveStateInOrder, SocketsKept
<1>2. CASE \/ StartRange(g) \/ SkipSender(g) \/ LoadClient(g)
           \/ NilClient(g) \/ EndRange(g) \/ WaitAgain(g)
  <2>1. UNCHANGED <<accepted, ch, socket, got>>
    BY <1>2 DEF StartRange, SkipSender, LoadClient, NilClient, EndRange, WaitAgain, relay
  <2>2. \A h \in Games : \/ loop'[h] = "waiting"
                         \/ loop[h] # "waiting" /\ current'[h] = current[h]
    BY <1>2 DEF StartRange, SkipSender, LoadClient, InRange, NilClient, EndRange, WaitAgain,
                relay, RInv, RelayTypeOK
  <2> QED
    BY <2>1, <2>2, QueuesKept, SocketsKept
<1>3. CASE WriteState(g)
  <2>1. PICK c \in Clients : c = to[g]
    BY <1>3 DEF WriteState, RInv, CountOK
  <2>2. /\ loop[g] # "waiting" /\ UNCHANGED <<accepted, ch, current, got>>
        /\ \A h \in Games : loop'[h] = "waiting" <=> loop[h] = "waiting"
    BY <1>3 DEF WriteState, WriteReturns, RInv, RelayTypeOK
  <2>3. \/ UNCHANGED socket
        \/ socket' = [socket EXCEPT ![c] = Append(socket[c], [game |-> g, n |-> current[g].n])]
    BY <1>3, <2>1 DEF WriteState
  <2>4. CASE UNCHANGED socket
    <3>1. \A h \in Games : \/ loop'[h] = "waiting"
                           \/ loop[h] # "waiting" /\ current'[h] = current[h]
      BY <2>2
    <3> QED
      BY <2>2, <2>4, <3>1, QueuesKept, SocketsKept
  <2> QED
    BY <2>2, <2>3, <2>4, WrittenInOrder
<1> QED
  BY <1>1, <1>2, <1>3 DEF LoopStep

LEMMA RelayStepInOrder ==
  ASSUME RInv, Order, [RelayNext]_relayVars
  PROVE  Order'
<1>1. ASSUME UNCHANGED <<accepted, ch, loop, current, socket, got>>
      PROVE  Order'
  <2>1. \A h \in Games : \/ loop'[h] = "waiting"
                         \/ loop[h] # "waiting" /\ current'[h] = current[h]
    BY <1>1
  <2> QED
    BY <1>1, <2>1, QueuesKept, SocketsKept
<1>2. CASE UNCHANGED relay
  BY <1>1, <1>2 DEF relay
<1>3. ASSUME NEW c \in Clients, TakeState(c)
      PROVE  Order'
  BY <1>1, <1>3 DEF TakeState
<1>4. ASSUME NEW c \in Clients, PumpState(c)
      PROVE  Order'
  <2>1. UNCHANGED <<socket, got>>
    BY <1>4 DEF PumpState
  <2> QED
    BY <1>4, <2>1, PumpStateInOrder, SocketsKept
<1>5. ASSUME NEW c \in Clients, ClientRead(c)
      PROVE  Order'
  BY <1>5, ReadInOrder
<1>6. ASSUME NEW g \in Games, LoopStep(g)
      PROVE  Order'
  BY <1>6, LoopStepInOrder
<1> QED
  BY <1>2, <1>3, <1>4, <1>5, <1>6 DEF RelayNext, ManagerStep, relayVars

\* However joins, leaves and broadcasts interleave, and with the handlers
\* racing on game.clients, a client reads the states of one game in the order
\* in which the game accepted them.
THEOREM StatesInOrder == RelaySpec => []InOrder
<1>1. RelayInit => Order
  <2> SUFFICES ASSUME RelayInit PROVE Order
    OBVIOUS
  <2>1. \A c \in Clients : Len(socket[c]) = 0
    BY DEF RelayInit
  <2>2. \A g \in Games : Len(ch[g]) = 0 /\ accepted[g] = 0 /\ loop[g] = "waiting"
    BY DEF RelayInit
  <2>3. \A c \in Clients : \A g \in Games : got[c][g] = 0
    BY DEF RelayInit
  <2>4. 1..0 = {} /\ 0 <= 0
    OBVIOUS
  <2> QED
    BY <2>1, <2>2, <2>3, <2>4 DEF Order, ChannelOrder, SocketsBehind, GotBehind, Behind, InOrder
<1>2. RInv /\ Order /\ [RelayNext]_relayVars => Order'
  BY RelayStepInOrder
<1>3. Order => InOrder
  BY DEF Order
<1> QED
  BY <1>1, <1>2, <1>3, RelayInvariance, PTL DEF RelaySpec

-----------------------------------------------------------------------------
(* Broadcasting: whom a range writes to, when nobody joins or leaves *)

Served(g) == {written[g][i] : i \in 1..Len(written[g])}

FirstOf(a, n) == {a[i] : i \in 1..n}

\* The elements the range has passed.
Passed(g) == FirstOf(arrays[g][range[g].arr], next[g] - 1)

RangeOK(g) ==
  /\ range[g] = slice[g]
  /\ Places(arrays[g][range[g].arr], 1..range[g].len, audience[g])
  /\ next[g] >= 1 /\ next[g] <= range[g].len + 1
  /\ Served(g) = Passed(g) \ {current[g].from}

WrittenOnce(g) == \A i, j \in 1..Len(written[g]) : written[g][i] = written[g][j] => i = j

BroadcastOK(g) ==
  /\ loop[g] # "waiting" => g \in running
  /\ loop[g] \in {"ranging", "writing"} => RangeOK(g)
  /\ loop[g] = "writing" => /\ next[g] <= range[g].len
                            /\ to[g] = Element(g) /\ to[g] # current[g].from
  /\ loop[g] = "done" => Served(g) = audience[g] \ {current[g].from}
  /\ WrittenOnce(g)

Broadcasting == \A g \in Games : BroadcastOK(g)

QuietInv == RInv /\ SInv /\ Quiet /\ Broadcasting

\* A broadcast that is left alone, with its list, goes on as it was.
LEMMA BroadcastKept ==
  ASSUME NEW g \in Games, BroadcastOK(g),
         loop'[g] = loop[g], current'[g] = current[g], range'[g] = range[g],
         next'[g] = next[g], to'[g] = to[g], audience'[g] = audience[g],
         written'[g] = written[g], loop[g] # "waiting" /\ g \in running => g \in running',
         loop[g] \in {"ranging", "writing"} => arrays'[g] = arrays[g] /\ slice'[g] = slice[g]
  PROVE  BroadcastOK(g)'
<1>1. Served(g)' = Served(g) /\ (WrittenOnce(g)' <=> WrittenOnce(g))
  BY DEF Served, WrittenOnce
<1>2. ASSUME loop[g] \in {"ranging", "writing"}
      PROVE  RangeOK(g)' /\ Element(g)' = Element(g)
  <2>1. arrays'[g] = arrays[g] /\ slice'[g] = slice[g] /\ RangeOK(g)
    BY <1>2 DEF BroadcastOK
  <2>2. Passed(g)' = Passed(g)
    BY <2>1 DEF Passed
  <2> QED
    BY <1>1, <2>1, <2>2 DEF RangeOK, Places, Element
<1> QED
  BY <1>1, <1>2 DEF BroadcastOK

LEMMA HandlerKeepsRunning ==
  ASSUME NEW c \in Clients, HandlerStep(c)
  PROVE  running \subseteq running'
<1>1. CASE Idling(c) \/ Moving(c)
  BY <1>1 DEF Idling, CreateRefused, JoinRefused, LeaveRefused, StartRefused, StartGame,
       MapFault, Refuse, Moving, LockGames, FindGame, LoadHeader, LeaveGame, FindOwnGame,
       EndHandler, LoadClients, SearchClient, EndShift, Continue, shared
<1>2. CASE NewGame(c) \/ UnlockGames(c) \/ StartReadLoop(c) \/ FinishCreate(c)
  BY <1>2 DEF NewGame, UnlockGames, StartReadLoop, FinishCreate, shared
<1>3. CASE GrowArray(c) \/ StoreElement(c) \/ PublishLength(c) \/ FinishJoin(c)
  BY <1>3 DEF GrowArray, StoreElement, PublishLength, FinishJoin, shared
<1>4. CASE MoveDown(c) \/ PublishShorter(c) \/ FinishLeave(c)
  BY <1>4 DEF MoveDown, PublishShorter, FinishLeave, shared
<1> QED
  BY <1>1, <1>2, <1>3, <1>4
  DEF HandlerStep, CreateStep, JoinStep, LeaveStep, StartStep, Idling, Moving

\* A handler at work on one game leaves the broadcasts of the others alone.
LEMMA HandlerStepBroadcasts ==
  ASSUME IInv, SInv, Broadcasting, Quiet, Quiet', NoOverlap', UniqueIds',
         NEW c \in Clients, HandlerStep(c), UNCHANGED relay
  PROVE  Broadcasting'
<1> SUFFICES ASSUME NEW g \in Games
             PROVE  BroadcastOK(g)'
  BY DEF Broadcasting
<1>1. BroadcastOK(g) /\ OthersUntouched(c) /\ running \subseteq running' /\ running \subseteq made
  BY HandlerStepSerial, HandlerKeepsRunning DEF Broadcasting, IInv, MapOK, Published
<1>2. ASSUME loop[g] \in {"ranging", "writing"}
      PROVE  arrays'[g] = arrays[g] /\ slice'[g] = slice[g]
  <2>1. game[c] # g /\ game'[c] # g
    BY <1>2 DEF Quiet, Settled, relay
  <2>2. g \in made
    BY <1>1, <1>2 DEF BroadcastOK
  <2> QED
    BY <1>1, <2>1, <2>2 DEF OthersUntouched
<1>3. /\ loop'[g] = loop[g] /\ current'[g] = current[g] /\ range'[g] = range[g]
      /\ next'[g] = next[g] /\ to'[g] = to[g] /\ audience'[g] = audience[g]
      /\ written'[g] = written[g]
  BY DEF relay
<1> QED
  BY <1>1, <1>2, <1>3, BroadcastKept

\* The range begins with the list of the clients of its game.
LEMMA StartRangeBroadcasts ==
  ASSUME QuietInv, Quiet', NEW g \in Games, StartRange(g)
  PROVE  BroadcastOK(g)'
<1>1. BroadcastOK(g) /\ loop[g] = "validated" /\ TypeOK
  BY DEF QuietInv, Broadcasting, StartRange, RInv, IInv
<1>2. /\ loop'[g] = "ranging" /\ range'[g] = slice[g] /\ next'[g] = 1
      /\ audience'[g] = InGame(g) /\ written'[g] = <<>>
      /\ UNCHANGED <<arrays, slice, running, game, made, idOf, gameID>>
  BY DEF StartRange, QuietInv, RInv, RelayTypeOK, InGame, vars, shared, private, frame
<1>3. Lists(g, InGame(g))
  <2>1. Settled(g)
    BY <1>2 DEF Quiet, Settled
  <2>2. g \in made
    BY <1>1 DEF BroadcastOK, QuietInv, RInv, IInv, MapOK, Published
  <2> QED
    BY <2>1, <2>2 DEF QuietInv, SInv, AtRest
<1>4. slice[g].len \in Nat
  BY <1>1 DEF TypeOK, Header
<1>5. Served(g)' = {} /\ Passed(g)' = {} /\ WrittenOnce(g)'
  <2>1. 1..Len(written'[g]) = {} /\ 1..next'[g] - 1 = {}
    BY <1>2
  <2> QED
    BY <2>1 DEF Served, Passed, FirstOf, WrittenOnce
<1>6. Places(arrays'[g][range'[g].arr], 1..range'[g].len, audience'[g])
  BY <1>2, <1>3 DEF Lists
<1>7. RangeOK(g)'
  <2>1. next'[g] >= 1 /\ next'[g] <= range'[g].len + 1
    BY <1>2, <1>4
  <2> QED
    BY <1>2, <1>5, <1>6, <2>1 DEF RangeOK
<1>8. loop'[g] = "ranging" /\ g \in running'
  BY <1>1, <1>2 DEF BroadcastOK
<1> QED
  BY <1>5, <1>7, <1>8 DEF BroadcastOK

\* The range passes one element.
LEMMA PassedNext ==
  ASSUME QuietInv, NEW g \in Games, RangeOK(g), next[g] <= range[g].len,
         next'[g] = next[g] + 1, UNCHANGED <<arrays, range>>
  PROVE  /\ Passed(g)' = Passed(g) \cup {Element(g)}
         /\ Element(g) \notin Passed(g) /\ Element(g) \in audience[g]
         /\ next'[g] >= 1 /\ next'[g] <= range[g].len + 1
<1> DEFINE a == arrays[g][range[g].arr]
           n == next[g]
           len == range[g].len
<1>1. n \in Nat /\ len \in Nat
  BY DEF QuietInv, RInv, RelayTypeOK, Header
<1>2. n >= 1 /\ n <= len /\ Places(a, 1..len, audience[g])
  BY DEF RangeOK
<1> HIDE DEF a, n, len
<1>3. n \in 1..len /\ n \notin 1..n - 1 /\ 1..n = (1..n - 1) \cup {n}
  BY <1>1, <1>2
<1>4. \A i \in 1..n - 1 : i \in 1..len
  BY <1>1, <1>2
<1>5. Element(g) = a[n] /\ Passed(g) = FirstOf(a, n - 1)
  BY DEF Element, Passed, a, n
<1>6. Passed(g)' = FirstOf(a, n)
  <2>1. next'[g] - 1 = n /\ arrays' = arrays /\ range' = range
    BY <1>1 DEF n
  <2> QED
    BY <2>1 DEF Passed, a
<1>7. FirstOf(a, n) = FirstOf(a, n - 1) \cup {a[n]}
  BY <1>3 DEF FirstOf
<1>8. a[n] \in audience[g] /\ a[n] \notin FirstOf(a, n - 1)
  BY <1>2, <1>3, <1>4 DEF Places, FirstOf
<1>9. Element(g) \notin Passed(g) /\ Element(g) \in audience[g]
  BY <1>5, <1>8
<1>10. n + 1 >= 1 /\ n + 1 <= len + 1
  BY <1>1, <1>2
<1> QED
  BY <1>5, <1>6, <1>7, <1>9, <1>10 DEF n, len

LEMMA SkipSenderBroadcasts ==
  ASSUME QuietInv, NEW g \in Games, SkipSender(g)
  PROVE  BroadcastOK(g)'
<1>1. BroadcastOK(g) /\ RangeOK(g) /\ loop[g] = "ranging"
  BY DEF QuietInv, Broadcasting, BroadcastOK, SkipSender, InRange
<1>2. /\ next[g] <= range[g].len /\ Element(g) = current[g].from
      /\ next'[g] = next[g] + 1
      /\ UNCHANGED <<loop, current, range, audience, written, arrays, slice, running>>
  BY DEF SkipSender, InRange, QuietInv, RInv, RelayTypeOK, vars, shared
<1>3. /\ Passed(g)' = Passed(g) \cup {current[g].from}
      /\ next'[g] >= 1 /\ next'[g] <= range[g].len + 1
  BY <1>1, <1>2, PassedNext
<1>4. Served(g)' = Served(g) /\ (WrittenOnce(g)' <=> WrittenOnce(g))
  BY <1>2 DEF Served, WrittenOnce
<1>5. Served(g)' = Passed(g)' \ {current'[g].from}
  BY <1>1, <1>2, <1>3, <1>4 DEF RangeOK
<1>6. RangeOK(g)'
  BY <1>1, <1>2, <1>3, <1>5 DEF RangeOK
<1> QED
  BY <1>1, <1>2, <1>4, <1>6 DEF BroadcastOK

\* c is the element the range has come to, ...
LEMMA LoadClientBroadcasts ==
  ASSUME QuietInv, NEW g \in Games, LoadClient(g)
  PROVE  BroadcastOK(g)'
<1>1. BroadcastOK(g) /\ RangeOK(g) /\ next[g] <= range[g].len
  BY DEF QuietInv, Broadcasting, BroadcastOK, LoadClient, InRange
<1>2. /\ loop[g] = "ranging" /\ loop'[g] = "writing"
      /\ to'[g] = Element(g) /\ Element(g) # current[g].from
      /\ UNCHANGED <<current, range, next, audience, written, arrays, slice, running>>
  BY DEF LoadClient, InRange, QuietInv, RInv, RelayTypeOK, vars, shared
<1>3. Element(g)' = Element(g) /\ Passed(g)' = Passed(g) /\ Served(g)' = Served(g)
  BY <1>2 DEF Element, Passed, Served
<1>4. RangeOK(g)'
  BY <1>1, <1>2, <1>3 DEF RangeOK
<1>5. WrittenOnce(g)' /\ g \in running'
  BY <1>1, <1>2 DEF BroadcastOK, WrittenOnce
<1> QED
  BY <1>1, <1>2, <1>3, <1>4, <1>5 DEF BroadcastOK

\* ... and still is when c.Write returns.
LEMMA WriteStateBroadcasts ==
  ASSUME QuietInv, NEW g \in Games, WriteState(g)
  PROVE  BroadcastOK(g)'
<1> DEFINE c == Element(g)
           len == Len(written[g])
<1>1. /\ BroadcastOK(g) /\ RangeOK(g) /\ next[g] <= range[g].len
      /\ loop[g] = "writing" /\ to[g] = c /\ c # current[g].from /\ c \in Clients
  BY DEF QuietInv, Broadcasting, BroadcastOK, WriteState, RInv, CountOK
<1> HIDE DEF c
<1>2. /\ next'[g] = next[g] + 1 /\ loop'[g] = "ranging"
      /\ UNCHANGED <<current, range, audience, arrays, slice, running>>
      /\ written[g] \in Seq(Clients) /\ written'[g] = Append(written[g], c)
  BY <1>1 DEF WriteState, WriteReturns, QuietInv, RInv, RelayTypeOK, vars, shared
<1>3. /\ Passed(g)' = Passed(g) \cup {c} /\ c \notin Passed(g)
      /\ next'[g] >= 1 /\ next'[g] <= range[g].len + 1
  BY <1>1, <1>2, PassedNext DEF c
<1>4. /\ len \in Nat /\ Len(written'[g]) = len + 1 /\ written'[g][len + 1] = c
      /\ \A i \in 1..len : written'[g][i] = written[g][i]
  BY <1>1, <1>2
<1> HIDE DEF len
<1>5. 1..len + 1 = (1..len) \cup {len + 1}
  BY <1>4
<1>6. Served(g) = {written[g][i] : i \in 1..len}
  BY DEF Served, len
<1>7. Served(g)' = Served(g) \cup {c}
  <2>1. Served(g)' = {written'[g][i] : i \in (1..len) \cup {len + 1}}
    BY <1>4, <1>5 DEF Served
  <2> QED
    BY <1>4, <1>6, <2>1
<1>8. c \notin Served(g)
  BY <1>1, <1>3 DEF RangeOK
<1>9. WrittenOnce(g)'
  <2>1. \A i \in 1..len : written[g][i] # c
    BY <1>6, <1>8
  <2>2. \A i, j \in 1..len : written[g][i] = written[g][j] => i = j
    BY <1>1 DEF BroadcastOK, WrittenOnce, len
  <2>3. \A i, j \in (1..len) \cup {len + 1} : written'[g][i] = written'[g][j] => i = j
    BY <1>4, <2>1, <2>2
  <2> QED
    BY <1>4, <1>5, <2>3 DEF WrittenOnce
<1>10. Served(g)' = Passed(g)' \ {current'[g].from}
  BY <1>1, <1>2, <1>3, <1>7 DEF RangeOK
<1>11. RangeOK(g)'
  BY <1>1, <1>2, <1>3, <1>10 DEF RangeOK
<1> QED
  BY <1>1, <1>2, <1>9, <1>11 DEF BroadcastOK

LEMMA EndRangeBroadcasts ==
  ASSUME QuietInv, NEW g \in Games, EndRange(g)
  PROVE  BroadcastOK(g)'
<1> DEFINE a == arrays[g][range[g].arr]
           len == range[g].len
<1>1. BroadcastOK(g) /\ RangeOK(g) /\ loop[g] = "ranging" /\ next[g] > len
  BY DEF QuietInv, Broadcasting, BroadcastOK, EndRange
<1>2. /\ loop'[g] = "done" /\ UNCHANGED <<current, audience, written, running>>
  BY DEF EndRange, QuietInv, RInv, RelayTypeOK, vars, shared
<1>3. next[g] \in Nat /\ len \in Nat
  BY DEF QuietInv, RInv, RelayTypeOK, Header
<1>4. next[g] - 1 = len
  BY <1>1, <1>3 DEF RangeOK
<1>5. Places(a, 1..len, audience[g])
  BY <1>1 DEF RangeOK
<1> HIDE DEF a, len
<1>6. Passed(g) = audience[g]
  <2>1. Passed(g) = {a[i] : i \in 1..len}
    BY <1>4 DEF Passed, FirstOf, a
  <2> QED
    BY <1>5, <2>1 DEF Places
<1>7. Served(g)' = audience'[g] \ {current'[g].from}
  BY <1>1, <1>2, <1>6 DEF RangeOK, Served
<1>8. WrittenOnce(g)'
  BY <1>1, <1>2 DEF BroadcastOK, WrittenOnce
<1> QED
  BY <1>1, <1>2, <1>7, <1>8 DEF BroadcastOK

LEMMA LoopStepBroadcasts ==
  ASSUME QuietInv, Quiet', NEW g \in Games, LoopStep(g)
  PROVE  Broadcasting'
<1>1. UNCHANGED <<running, arrays, slice>>
  BY DEF LoopStep, ReceiveState, StartRange, SkipSender, LoadClient, WriteState, WriteReturns,
         NilClient, EndRange, WaitAgain, vars, shared
<1>2. BroadcastOK(g)
  BY DEF QuietInv, Broadcasting
<1>3. BroadcastOK(g)'
  <2>1. CASE ReceiveState(g)
    <3>1. g \in running' /\ loop'[g] = "validated" /\ written' = written
      BY <1>1, <2>1 DEF ReceiveState, QuietInv, RInv, RelayTypeOK
    <3> QED
      BY <1>2, <3>1 DEF BroadcastOK, WrittenOnce
  <2>2. CASE NilClient(g)
    BY <1>1, <1>2, <2>2, BroadcastKept DEF NilClient, relay
  <2>3. CASE WaitAgain(g)
    <3>1. loop'[g] = "waiting" /\ Len(written'[g]) = 0
      BY <2>3 DEF WaitAgain, QuietInv, RInv, RelayTypeOK
    <3>2. 1..0 = {}
      OBVIOUS
    <3> QED
      BY <3>1, <3>2 DEF BroadcastOK, WrittenOnce
  <2> QED
    BY <2>1, <2>2, <2>3, StartRangeBroadcasts, SkipSenderBroadcasts, LoadClientBroadcasts,
       WriteStateBroadcasts, EndRangeBroadcasts DEF LoopStep
<1>4. ASSUME NEW h \in Games, h # g
      PROVE  BroadcastOK(h)'
  <2>1. /\ loop'[h] = loop[h] /\ current'[h] = current[h] /\ range'[h] = range[h]
        /\ next'[h] = next[h] /\ to'[h] = to[h] /\ audience'[h] = audience[h]
        /\ written'[h] = written[h]
    BY <1>4 DEF LoopStep, ReceiveState, StartRange, SkipSender, LoadClient, WriteState,
         WriteReturns, NilClient, EndRange, WaitAgain, relay, QuietInv, RInv, RelayTypeOK
  <2>2. BroadcastOK(h)
    BY DEF QuietInv, Broadcasting
  <2> QED
    BY <1>1, <2>1, <2>2, BroadcastKept
<1> QED
  BY <1>3, <1>4 DEF Broadcasting

LEMMA QuietStep ==
  ASSUME QuietInv, [RelayNext /\ NoOverlap' /\ UniqueIds' /\ Quiet']_relayVars
  PROVE  QuietInv'
<1>1. IInv' /\ SInv' /\ Quiet'
  <2>1. CASE UNCHANGED relayVars
    BY <2>1, RelayStepSerial DEF QuietInv, RInv, Quiet, Settled, relayVars, vars, relay, frame
  <2>2. CASE RelayNext /\ NoOverlap' /\ UniqueIds' /\ Quiet'
    BY <2>2, RelayStepSerial DEF QuietInv, RInv
  <2> QED
    BY <2>1, <2>2
<1>2. RInv'
  BY <1>1, RelayTypeStep DEF QuietInv, RInv, IInv
<1>3. ASSUME UNCHANGED <<loop, current, range, next, to, audience, written, arrays, slice, running>>
      PROVE  Broadcasting'
  BY <1>3, BroadcastKept DEF QuietInv, Broadcasting
<1>4. Broadcasting'
  <2>1. CASE UNCHANGED relayVars
    BY <1>3, <2>1 DEF relayVars, relay, vars, shared
  <2>2. ASSUME NEW c \in Clients, HandlerStep(c), UNCHANGED relay
        PROVE  Broadcasting'
    <3>1. NoOverlap' /\ UniqueIds'
      BY <1>1 DEF SInv
    <3> QED
      BY <1>1, <2>2, <3>1, HandlerStepBroadcasts DEF QuietInv, RInv
  <2>3. ASSUME NEW c \in Clients, TakeState(c) \/ PumpState(c) \/ ClientRead(c)
        PROVE  Broadcasting'
    BY <1>3, <2>3 DEF TakeState, PumpState, ClientRead, vars, shared
  <2>4. ASSUME NEW g \in Games, LoopStep(g)
        PROVE  Broadcasting'
    BY <1>1, <2>4, LoopStepBroadcasts
  <2> QED
    BY <2>1, <2>2, <2>3, <2>4 DEF RelayNext, ManagerStep
<1> QED
  BY <1>1, <1>2, <1>4 DEF QuietInv

LEMMA QuietInvariance == QuietRelaySpec => []QuietInv
<1>1. RelayInit => QuietInv
  <2> SUFFICES ASSUME RelayInit PROVE QuietInv
    OBVIOUS
  <2>1. RInv /\ SInv
    BY RelayTypeInit, InitEstablishes, InitSerial DEF RelayInit, RInv
  <2>2. \A g \in Games : loop[g] = "waiting" /\ Len(written[g]) = 0
    BY DEF RelayInit
  <2>3. 1..0 = {}
    OBVIOUS
  <2> QED
    BY <2>1, <2>2, <2>3 DEF QuietInv, Quiet, Broadcasting, BroadcastOK, WrittenOnce
<1> QED
  BY <1>1, QuietStep, PTL DEF QuietRelaySpec

\* "Broadcast" (game.go): as long as nobody joins or leaves the game meanwhile,
\* a state goes to each client of the game but its sender, once, and to nobody
\* else; the lists of the other games may be in pieces.
THEOREM BroadcastExact == QuietRelaySpec => []ServedExactly
<1>1. QuietInv => ServedExactly
  <2> SUFFICES ASSUME QuietInv, NEW g \in Games, loop[g] = "done"
               PROVE  /\ Served(g) = audience[g] \ {current[g].from}
                      /\ Len(written[g]) = Cardinality(Served(g))
    BY DEF ServedExactly, Served
  <2>1. BroadcastOK(g)
    BY DEF QuietInv, Broadcasting
  <2>2. Places(written[g], 1..Len(written[g]), Served(g))
    BY <2>1 DEF Places, BroadcastOK, WrittenOnce, Served
  <2>3. Len(written[g]) \in Nat
    BY LenProperties DEF QuietInv, RInv, RelayTypeOK
  <2> QED
    BY <2>1, <2>2, <2>3, DistinctLength DEF BroadcastOK
<1> QED
  BY <1>1, QuietInvariance, PTL

\* In those schedules broadCast never comes to a hole in game.clients, where it
\* would take the clientID of a nil pointer and end the process.
THEOREM NoHoles == QuietRelaySpec => []RangeSeesClients
<1>1. QuietInv => RangeSeesClients
  <2> SUFFICES ASSUME QuietInv, NEW g \in Games, InRange(g)
               PROVE  Element(g) \in Clients
    BY DEF RangeSeesClients
  <2>1. RangeOK(g)
    BY DEF InRange, QuietInv, Broadcasting, BroadcastOK
  <2>2. next[g] \in 1..range[g].len
    BY <2>1 DEF InRange, RangeOK, QuietInv, RInv, RelayTypeOK, Header
  <2>3. Element(g) \in audience[g]
    BY <2>1, <2>2 DEF RangeOK, Places, Element
  <2> QED
    BY <2>3 DEF QuietInv, RInv, RelayTypeOK
<1> QED
  BY <1>1, QuietInvariance, PTL

=============================================================================
