---------------------------- MODULE PacketStream -----------------------------
(***************************************************************************)
(* What the framing of a TCP byte stream promises: packets come out whole, *)
(* once, and in the order in which they were sent.                         *)
(***************************************************************************)
EXTENDS Sequences

CONSTANT Packet   \* the packets that can be sent

VARIABLES
  inflight,   \* sent and not yet delivered
  last        \* the packet delivered last

streamVars == <<inflight, last>>

StreamInit == inflight = <<>> /\ last = <<>>

Send(p) == inflight' = Append(inflight, p) /\ UNCHANGED last

Deliver ==
  /\ inflight # <<>>
  /\ last' = Head(inflight)
  /\ inflight' = Tail(inflight)

StreamNext == Deliver \/ \E p \in Packet : Send(p)

StreamSpec == StreamInit /\ [][StreamNext]_streamVars
=============================================================================
