------------------------------- MODULE Framer --------------------------------
(***************************************************************************)
(* PacketFramer (packet.go): bytes read from a connection, at most         *)
(* ReadSize at a time, become packets on the channel C.                    *)
(*                                                                         *)
(* Sizes are parameters.  A header has a version and a length here, not    *)
(* the byte that packs encoding and type, and the length is one number     *)
(* below Wrap where the code has two bytes (Wrap = 2^16).  p.buf is kept   *)
(* as its first p.idx bytes and its size: what lies beyond p.idx is        *)
(* overwritten by copy before p.idx counts it.                             *)
(***************************************************************************)
EXTENDS Integers, Sequences

CONSTANTS
  MaxSize,    \* PACKET_MAX_SIZE, the size p.buf starts with
  ReadSize,   \* the size of FrameWithReader's data
  ChanCap,    \* the capacity of C
  Wrap,       \* lengths are uint16 in the code: 2^16
  Payloads,   \* the payloads a peer sends
  MaxSent     \* bound: packets sent

HeaderSize == 2
VERSION == 1
Byte == 0..(Wrap - 1)

ASSUME SizesAssumption ==
  /\ MaxSize \in Nat \ {0} /\ ReadSize \in Nat \ {0} /\ ChanCap \in Nat \ {0}
  /\ Wrap \in Nat \ {0, 1} /\ MaxSent \in Nat
ASSUME PayloadsAssumption == Payloads \subseteq Seq(Byte)

VARIABLES
  sent,   \* how many packets the peer has written
  wire,   \* the bytes written and not yet read
  buf,    \* p.buf[:p.idx]
  size,   \* len(p.buf)
  at,     \* where the goroutine of FrameWithReader is
  out,    \* the packet it sends on C
  C,      \* the channel
  last    \* the packet the handler took last

vars == <<sent, wire, buf, size, at, out, C, last>>

\* ConstructPacket
Frame(payload) == <<VERSION, Len(payload) % Wrap>> \o payload
Frames == {Frame(p) : p \in Payloads}

TypeOK ==
  /\ sent \in 0..MaxSent
  /\ wire \in Seq(Byte) /\ buf \in Seq(Byte)
  /\ size \in Nat /\ Len(buf) <= size
  /\ at \in {"read", "pull", "send"}
  /\ out \in Seq(Byte)
  /\ C \in Seq(Seq(Byte)) /\ Len(C) <= ChanCap
  /\ last \in Seq(Byte)

\* NewPacketFramer
Init ==
  /\ sent = 0 /\ wire = <<>>
  /\ buf = <<>> /\ size = MaxSize
  /\ at = "read" /\ out = <<>>
  /\ C = <<>> /\ last = <<>>

\* A peer writes a packet to the connection.
PeerWrite ==
  /\ sent < MaxSent
  /\ sent' = sent + 1
  /\ \E f \in Frames : wire' = wire \o f
  /\ UNCHANGED <<buf, size, at, out, C, last>>

\* reader.Read returns n bytes; push copies what fits into p.buf, lets append
\* enlarge p.buf by the rest, and counts only what it copied.
Read(n) ==
  LET room == size - Len(buf)
      copied == IF n <= room THEN n ELSE room
  IN  /\ at = "read"
      /\ n <= Len(wire)
      /\ wire' = SubSeq(wire, n + 1, Len(wire))
      /\ buf' = buf \o SubSeq(wire, 1, copied)
      /\ size' = size + (n - copied)
      /\ at' = "pull"
      /\ UNCHANGED <<sent, out, C, last>>

\* pktLen + PACKET_HEADER_SIZE, in the width of pktLen.
FullLen == (buf[2] + HeaderSize) % Wrap

\* (mutant) pull waits for a byte more than the packet has.
LateComplete ==
  /\ Len(buf) >= HeaderSize
  /\ buf[1] = VERSION
  /\ FullLen < MaxSize
  /\ FullLen < Len(buf) % Wrap

\* pull has a whole packet to return.
Complete ==
  /\ Len(buf) >= HeaderSize
  /\ buf[1] = VERSION
  /\ FullLen < MaxSize
  /\ FullLen <= Len(buf) % Wrap

\* (mutant) pull leaves the packet's last byte in the buffer.
PullShort ==
  /\ at = "pull" /\ Complete
  /\ out' = SubSeq(buf, 1, FullLen)
  /\ buf' = SubSeq(buf, FullLen, Len(buf))
  /\ at' = "send"
  /\ UNCHANGED <<sent, wire, size, C, last>>

Pull ==
  /\ at = "pull" /\ Complete
  /\ out' = SubSeq(buf, 1, FullLen)
  /\ buf' = SubSeq(buf, FullLen + 1, Len(buf))
  /\ at' = "send"
  /\ UNCHANGED <<sent, wire, size, C, last>>

\* pull returns nil or an error; push returns and its error is dropped.
PullNothing ==
  /\ at = "pull" /\ ~Complete
  /\ at' = "read"
  /\ UNCHANGED <<sent, wire, buf, size, out, C, last>>

\* (mutant) go func() { p.C <- packet }(): nothing waits for room.
SendInBackground ==
  /\ at = "send"
  /\ C' = Append(C, out)
  /\ out' = <<>>
  /\ at' = "pull"
  /\ UNCHANGED <<sent, wire, buf, size, last>>

\* p.C <- packet, and push pulls again.
SendPacket ==
  /\ at = "send"
  /\ Len(C) < ChanCap
  /\ C' = Append(C, out)
  /\ out' = <<>>
  /\ at' = "pull"
  /\ UNCHANGED <<sent, wire, buf, size, last>>

\* <-framer.C in handleConnection
Receive ==
  /\ C # <<>>
  /\ last' = Head(C)
  /\ C' = Tail(C)
  /\ UNCHANGED <<sent, wire, buf, size, at, out>>

\* (mutant) FrameWithReader's data is one byte larger.
ReadingMore == \E n \in 1..(ReadSize + 1) : Read(n)

\* reader.Read returns at least one byte and at most len(data).
Reading == \E n \in 1..ReadSize : Read(n)

Next == PeerWrite \/ Reading \/ Pull \/ PullNothing \/ SendPacket \/ Receive

Spec == Init /\ [][Next]_vars

\* Both goroutines run when they can; nothing makes the peer write.
FairSpec == Spec /\ WF_vars(Reading \/ Pull \/ PullNothing \/ SendPacket) /\ WF_vars(Receive)

-----------------------------------------------------------------------------
(* Properties *)

\* p.buf keeps its size: the append in push, which does not move p.idx, is
\* never reached.
BufferNeverGrows == size = MaxSize

\* The packets a sequence of bytes holds; what is left is one packet more.
Cut(bytes) ==
  LET end(i) == i + bytes[i + 1] + HeaderSize - 1
      from[i \in 1..(Len(bytes) + 1)] ==
        IF i > Len(bytes) THEN <<>>
        ELSE IF i = Len(bytes) \/ end(i) > Len(bytes)
             THEN << SubSeq(bytes, i, Len(bytes)) >>
             ELSE << SubSeq(bytes, i, end(i)) >> \o from[end(i) + 1]
  IN  from[1]

Sending == IF at = "send" THEN <<out>> ELSE <<>>

\* Everything written and not yet taken, as packets again.
InFlight == C \o Sending \o Cut(buf \o wire)

Stream == INSTANCE PacketStream
  WITH Packet <- Frames, inflight <- InFlight, last <- last

\* Packets leave C whole, once and in the order in which they were written,
\* however TCP splits the bytes ("Data mismatch", packet_test.go:15).
ImplementsStream == Stream!StreamSpec

\* Every packet written comes out: no split of the bytes leaves pull waiting
\* for a byte that is already there, and no full channel stops push for good.
AllDelivered == <>[](InFlight = <<>>)
=============================================================================
