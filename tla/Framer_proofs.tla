---------------------------- MODULE Framer_proofs -----------------------------
(***************************************************************************)
(* Proofs about Framer.tla for every size and every set of payloads.       *)
(*                                                                         *)
(* That p.buf keeps its size is not inductive: a read fits because what    *)
(* pull has left in the buffer is shorter than a packet, and that is so    *)
(* because buffer and stream together are packets laid end to end, however *)
(* the reads have cut them.  Where they meet is said by a set of offsets   *)
(* (Framed).                                                               *)
(*                                                                         *)
(* That the framer implements PacketStream rests on the same invariant:    *)
(* Cut, a recursive function, finds the packets that are laid end to end.  *)
(* Its recursion is proved by induction on how many bytes are left.        *)
(***************************************************************************)
EXTENDS Framer, SequenceTheorems, WellFoundedInduction, TLAPS

\* A packet but for its last byte, and a read behind it, fit p.buf; so does the
\* length of every packet below the limit of pull.
Fits ==
  /\ MaxSize < Wrap /\ ReadSize <= MaxSize
  /\ \A p \in Payloads : /\ Len(p) + HeaderSize < MaxSize
                         /\ Len(p) + HeaderSize - 1 + ReadSize <= MaxSize

\* The bytes of s from offset e on are those of f.
FrameAt(s, e, f) ==
  /\ e + Len(f) <= Len(s)
  /\ \A k \in 1..Len(f) : s[e + k] = f[k]

\* s is packets laid end to end, at the offsets ends.
Laid(s, ends) ==
  /\ 0 \in ends /\ Len(s) \in ends
  /\ \A e \in ends : e # Len(s) => \E f \in Frames : FrameAt(s, e, f) /\ e + Len(f) \in ends

Framed(s) == \E ends \in SUBSET (0..Len(s)) : Laid(s, ends)

Whole ==
  /\ at = "send" => out \in Frames
  /\ \A i \in 1..Len(C) : C[i] \in Frames
  /\ last \in Frames \cup {<<>>}

IInv ==
  /\ TypeOK /\ BufferNeverGrows /\ Whole
  /\ Framed(buf \o wire)
  /\ at = "read" => Len(buf) + ReadSize <= MaxSize

-----------------------------------------------------------------------------
(* Lemmas about packets and the bytes they make up *)

LEMMA FrameType == ASSUME NEW f \in Frames PROVE f \in Seq(Byte) /\ Len(f) \in Nat /\ Len(f) >= 2
<1>1. PICK p \in Payloads : f = <<VERSION, Len(p) % Wrap>> \o p
  BY DEF Frames, Frame
<1>2. p \in Seq(Byte) /\ Len(p) \in Nat
  BY PayloadsAssumption
<1>3. VERSION \in Byte /\ Len(p) % Wrap \in Byte
  BY <1>2, SizesAssumption DEF VERSION, Byte
<1>4. <<VERSION, Len(p) % Wrap>> \in Seq(Byte) /\ Len(<<VERSION, Len(p) % Wrap>>) = 2
  BY <1>3
<1>5. QED
  BY <1>1, <1>2, <1>4, ConcatProperties

LEMMA FrameHeader ==
  ASSUME Fits, NEW f \in Frames
  PROVE  /\ f[1] = VERSION /\ f[2] + HeaderSize = Len(f)
         /\ Len(f) < MaxSize /\ Len(f) - 1 + ReadSize <= MaxSize
<1>1. PICK p \in Payloads : f = <<VERSION, Len(p) % Wrap>> \o p
  BY DEF Frames, Frame
<1>2. p \in Seq(Byte) /\ Len(p) \in Nat
  BY PayloadsAssumption
<1>3. VERSION \in Byte /\ Len(p) % Wrap \in Byte
  BY <1>2, SizesAssumption DEF VERSION, Byte
<1> DEFINE h == <<VERSION, Len(p) % Wrap>>
<1>4. h \in Seq(Byte) /\ Len(h) = 2 /\ h[1] = VERSION /\ h[2] = Len(p) % Wrap
  BY <1>3
<1> HIDE DEF h
<1>5. f = h \o p
  BY <1>1 DEF h
<1>6. Len(f) = 2 + Len(p) /\ f[1] = h[1] /\ f[2] = h[2]
  <2>1. /\ Len(h \o p) = Len(h) + Len(p)
        /\ \A i \in 1..(Len(h) + Len(p)) : (h \o p)[i] = IF i <= Len(h) THEN h[i] ELSE p[i - Len(h)]
    BY <1>2, <1>4, ConcatProperties
  <2>2. QED
    BY <1>2, <1>4, <1>5, <2>1
<1>7. Len(p) % Wrap = Len(p)
  BY <1>2, SizesAssumption DEF Fits, HeaderSize
<1>8. QED
  BY <1>2, <1>4, <1>6, <1>7, SizesAssumption DEF Fits, HeaderSize

\* A packet written behind packets.
LEMMA FramedAppend ==
  ASSUME NEW s \in Seq(Byte), Framed(s), NEW f \in Frames
  PROVE  Framed(s \o f)
<1>1. PICK ends \in SUBSET (0..Len(s)) : Laid(s, ends)
  BY DEF Framed
<1>2. f \in Seq(Byte) /\ Len(f) \in Nat /\ Len(s) \in Nat
  BY FrameType
<1>3. /\ Len(s \o f) = Len(s) + Len(f)
      /\ \A i \in 1..(Len(s) + Len(f)) : (s \o f)[i] = IF i <= Len(s) THEN s[i] ELSE f[i - Len(s)]
  BY <1>2, ConcatProperties
<1> DEFINE t == s \o f
           more == ends \cup {Len(s) + Len(f)}
<1>4. more \in SUBSET (0..Len(t)) /\ 0 \in more /\ Len(t) \in more
  <2>1. \A e \in ends : e \in 0..Len(t)
    BY <1>1, <1>2, <1>3
  <2>2. Len(t) \in 0..Len(t) /\ Len(t) = Len(s) + Len(f)
    BY <1>2, <1>3
  <2>3. QED
    BY <1>1, <2>1, <2>2 DEF Laid
<1>5. ASSUME NEW e \in more, e # Len(t)
      PROVE  \E g \in Frames : FrameAt(t, e, g) /\ e + Len(g) \in more
  <2>1. CASE e = Len(s)
    BY <1>2, <1>3, <2>1 DEF FrameAt
  <2>2. CASE e # Len(s)
    <3>1. e \in ends /\ e \in Nat
      BY <1>1, <1>3, <1>5
    <3>2. PICK g \in Frames : FrameAt(s, e, g) /\ e + Len(g) \in ends
      BY <1>1, <2>2, <3>1 DEF Laid
    <3>3. Len(g) \in Nat
      BY FrameType
    <3>4. FrameAt(t, e, g)
      BY <1>2, <1>3, <3>1, <3>2, <3>3 DEF FrameAt
    <3>5. QED
      BY <3>2, <3>4
  <2>3. QED
    BY <2>1, <2>2
<1>6. Laid(t, more)
  BY <1>4, <1>5 DEF Laid
<1>7. QED
  BY <1>4, <1>6 DEF Framed

\* The packet in front of packets.
LEMMA FramedFirst ==
  ASSUME NEW s \in Seq(Byte), Framed(s), Len(s) > 0
  PROVE  \E f \in Frames : /\ FrameAt(s, 0, f)
                           /\ Framed(SubSeq(s, Len(f) + 1, Len(s)))
<1>1. PICK ends \in SUBSET (0..Len(s)) : Laid(s, ends)
  BY DEF Framed
<1>2. PICK f \in Frames : FrameAt(s, 0, f) /\ 0 + Len(f) \in ends
  BY <1>1 DEF Laid
<1>3. Len(f) \in Nat \ {0} /\ Len(s) \in Nat /\ Len(f) <= Len(s)
  BY <1>2, FrameType DEF FrameAt
<1> DEFINE t == SubSeq(s, Len(f) + 1, Len(s))
           later == {e - Len(f) : e \in {d \in ends : Len(f) <= d}}
<1>4. /\ Len(t) = Len(s) - Len(f)
      /\ \A i \in 1..(Len(s) - Len(f)) : t[i] = s[Len(f) + i]
  <2>1. \A i \in (Len(f) + 1)..Len(s) : s[i] \in Byte
    BY <1>3
  <2>2. QED
    BY <1>3, <2>1, SubSeqProperties
<1> HIDE DEF t
<1>5. later \in SUBSET (0..Len(t))
  BY <1>3, <1>4
<1>6. 0 \in later /\ Len(t) \in later
  <2>1. Len(f) \in ends /\ Len(s) \in ends
    BY <1>1, <1>2, <1>3 DEF Laid
  <2>2. Len(f) - Len(f) = 0 /\ Len(s) - Len(f) = Len(t) /\ Len(f) <= Len(f)
    BY <1>3, <1>4
  <2>3. QED
    BY <1>3, <2>1, <2>2
<1>7. ASSUME NEW e \in later, e # Len(t)
      PROVE  \E g \in Frames : FrameAt(t, e, g) /\ e + Len(g) \in later
  <2>1. PICK d \in ends : Len(f) <= d /\ e = d - Len(f)
    OBVIOUS
  <2>2. d \in Nat /\ d # Len(s) /\ e \in Nat
    BY <1>3, <1>4, <1>7, <2>1
  <2>3. PICK g \in Frames : FrameAt(s, d, g) /\ d + Len(g) \in ends
    BY <1>1, <2>2 DEF Laid
  <2>4. Len(g) \in Nat
    BY FrameType
  <2>5. FrameAt(t, e, g)
    <3>1. e + Len(g) <= Len(t)
      BY <1>3, <1>4, <2>1, <2>2, <2>3, <2>4 DEF FrameAt
    <3>2. ASSUME NEW k \in 1..Len(g) PROVE t[e + k] = g[k]
      <4>1. e + k \in 1..(Len(s) - Len(f))
        BY <1>3, <1>4, <2>2, <2>4, <3>1
      <4>2. Len(f) + (e + k) = d + k
        BY <1>3, <2>1, <2>2, <2>4
      <4>3. t[e + k] = s[d + k]
        BY <1>4, <4>1, <4>2
      <4>4. QED
        BY <2>3, <4>3 DEF FrameAt
    <3>3. QED
      BY <3>1, <3>2 DEF FrameAt
  <2>6. e + Len(g) = (d + Len(g)) - Len(f) /\ Len(f) <= d + Len(g)
    BY <1>3, <2>1, <2>2, <2>4
  <2>7. QED
    BY <2>3, <2>5, <2>6
<1>8. Laid(t, later)
  BY <1>6, <1>7 DEF Laid
<1>9. QED
  BY <1>2, <1>5, <1>8 DEF Framed, t

LEMMA BytesAssociative ==
  \A r, s, t \in Seq(Byte) : (r \o s) \o t = r \o (s \o t)
BY ConcatAssociative

\* What a read takes from the connection it leaves in the buffer.
LEMMA ReadKeepsBytes ==
  ASSUME NEW b \in Seq(Byte), NEW w \in Seq(Byte), NEW n \in 1..Len(w)
  PROVE  /\ SubSeq(w, 1, n) \in Seq(Byte) /\ SubSeq(w, n + 1, Len(w)) \in Seq(Byte)
         /\ Len(SubSeq(w, 1, n)) = n
         /\ (b \o SubSeq(w, 1, n)) \o SubSeq(w, n + 1, Len(w)) = b \o w
<1>1. Len(w) \in Nat /\ n \in Nat /\ n <= Len(w) /\ \A i \in 1..Len(w) : w[i] \in Byte
  BY LenProperties
<1>2. SubSeq(w, 1, n) \in Seq(Byte) /\ Len(SubSeq(w, 1, n)) = n
  <2>1. \A i \in 1..n : w[i] \in Byte
    BY <1>1
  <2>2. QED
    BY <1>1, <2>1, SubSeqProperties
<1>3. SubSeq(w, n + 1, Len(w)) \in Seq(Byte)
  <2>1. \A i \in (n + 1)..Len(w) : w[i] \in Byte
    BY <1>1
  <2>2. QED
    BY <1>1, <2>1, SubSeqProperties
<1>4. SubSeq(w, 1, n) \o SubSeq(w, n + 1, Len(w)) = w
  <2>1. 1 \in 1..(Len(w) + 1) /\ n \in (1 - 1)..Len(w) /\ Len(w) \in n..Len(w)
    BY <1>1
  <2>2. QED
    BY <2>1, ConcatAdjacentSubSeq, SubSeqFull
<1>5. (b \o SubSeq(w, 1, n)) \o SubSeq(w, n + 1, Len(w)) = b \o w
  <2>1. SubSeq(w, 1, n) \in Seq(Byte)
    BY <1>2
  <2>2. (b \o SubSeq(w, 1, n)) \o SubSeq(w, n + 1, Len(w))
          = b \o (SubSeq(w, 1, n) \o SubSeq(w, n + 1, Len(w)))
    BY <1>3, <2>1, BytesAssociative, ZenonT(60)
  <2>3. QED
    BY <1>4, <2>2, Zenon
<1>6. QED
  BY <1>2, <1>3, <1>5

\* What pull takes and leaves, for a packet that is all in the buffer.
LEMMA PullKeepsBytes ==
  ASSUME NEW b \in Seq(Byte), NEW w \in Seq(Byte), NEW n \in 1..Len(b)
  PROVE  /\ SubSeq(b, 1, n) \in Seq(Byte) /\ SubSeq(b, n + 1, Len(b)) \in Seq(Byte)
         /\ Len(SubSeq(b, 1, n)) = n /\ Len(SubSeq(b, n + 1, Len(b))) = Len(b) - n
         /\ SubSeq(b, n + 1, Len(b)) \o w = SubSeq(b \o w, n + 1, Len(b \o w))
<1> DEFINE front == SubSeq(b, 1, n)
           rest == SubSeq(b, n + 1, Len(b))
           t == b \o w
<1>1. Len(b) \in Nat /\ Len(w) \in Nat /\ n \in Nat /\ n <= Len(b) /\ \A i \in 1..Len(b) : b[i] \in Byte
  BY LenProperties
<1>2. front \in Seq(Byte) /\ Len(front) = n
  <2>1. \A i \in 1..n : b[i] \in Byte
    BY <1>1
  <2>2. QED
    BY <1>1, <2>1, SubSeqProperties
<1>3. /\ rest \in Seq(Byte) /\ Len(rest) = Len(b) - n
      /\ \A i \in 1..(Len(b) - n) : rest[i] = b[n + i]
  <2>1. \A i \in (n + 1)..Len(b) : b[i] \in Byte
    BY <1>1
  <2>2. QED
    BY <1>1, <2>1, SubSeqProperties
<1>4. /\ t \in Seq(Byte) /\ Len(t) = Len(b) + Len(w)
      /\ \A i \in 1..(Len(b) + Len(w)) : t[i] = IF i <= Len(b) THEN b[i] ELSE w[i - Len(b)]
  BY ConcatProperties
<1> HIDE DEF t, rest, front
<1>5. /\ rest \o w \in Seq(Byte) /\ Len(rest \o w) = Len(b) - n + Len(w)
      /\ \A i \in 1..(Len(b) - n + Len(w)) :
           (rest \o w)[i] = IF i <= Len(b) - n THEN rest[i] ELSE w[i - (Len(b) - n)]
  <2>1. /\ rest \o w \in Seq(Byte) /\ Len(rest \o w) = Len(rest) + Len(w)
        /\ \A i \in 1..(Len(rest) + Len(w)) :
             (rest \o w)[i] = IF i <= Len(rest) THEN rest[i] ELSE w[i - Len(rest)]
    BY <1>3, ConcatProperties
  <2>2. Len(rest) = Len(b) - n
    BY <1>3
  <2>3. QED
    BY <2>1, <2>2
<1> DEFINE u == SubSeq(t, n + 1, Len(t))
<1>6. /\ u \in Seq(Byte) /\ Len(u) = Len(b) - n + Len(w)
      /\ \A i \in 1..(Len(b) - n + Len(w)) : u[i] = t[n + i]
  <2>1. \A i \in (n + 1)..Len(t) : t[i] \in Byte
    BY <1>1, <1>4
  <2>2. QED
    BY <1>1, <1>4, <2>1, SubSeqProperties
<1> HIDE DEF u
<1>7. ASSUME NEW i \in 1..(Len(b) - n + Len(w)) PROVE (rest \o w)[i] = u[i]
  <2>1. u[i] = t[n + i] /\ n + i \in 1..(Len(b) + Len(w))
    BY <1>1, <1>6
  <2>2. CASE i <= Len(b) - n
    <3>1. i \in 1..(Len(b) - n) /\ n + i <= Len(b)
      BY <1>1, <2>2
    <3>2. (rest \o w)[i] = rest[i] /\ t[n + i] = b[n + i]
      BY <1>4, <1>5, <2>1, <2>2, <3>1
    <3>3. QED
      BY <1>3, <2>1, <3>1, <3>2
  <2>3. CASE ~(i <= Len(b) - n)
    <3>1. ~(n + i <= Len(b)) /\ i - (Len(b) - n) = (n + i) - Len(b)
      BY <1>1, <2>3
    <3>2. (rest \o w)[i] = w[i - (Len(b) - n)] /\ t[n + i] = w[(n + i) - Len(b)]
      BY <1>4, <1>5, <2>1, <2>3, <3>1
    <3>3. QED
      BY <2>1, <3>1, <3>2
  <2>4. QED
    BY <2>2, <2>3
<1>8. rest \o w = u
  BY <1>5, <1>6, <1>7, SeqEqual
<1>9. QED
  BY <1>2, <1>3, <1>8 DEF front, rest, t, u

-----------------------------------------------------------------------------
(* The invariant *)

\* The packet in front of the buffer, as pull sees it.
LEMMA InFront ==
  ASSUME Fits, IInv, Len(buf) > 0
  PROVE  \E f \in Frames :
           /\ FrameAt(buf \o wire, 0, f)
           /\ Framed(SubSeq(buf \o wire, Len(f) + 1, Len(buf \o wire)))
           /\ Len(buf) >= HeaderSize =>
                buf[1] = VERSION /\ FullLen = Len(f) /\ (Complete <=> Len(f) <= Len(buf))
<1> DEFINE t == buf \o wire
<1>1. /\ buf \in Seq(Byte) /\ wire \in Seq(Byte) /\ Len(buf) \in Nat /\ Len(wire) \in Nat
      /\ Len(buf) <= MaxSize /\ Framed(t)
  BY LenProperties DEF IInv, TypeOK, BufferNeverGrows
<1>2. /\ t \in Seq(Byte) /\ Len(t) = Len(buf) + Len(wire)
      /\ \A i \in 1..(Len(buf) + Len(wire)) : t[i] = IF i <= Len(buf) THEN buf[i] ELSE wire[i - Len(buf)]
  BY <1>1, ConcatProperties
<1> HIDE DEF t
<1>3. Len(t) > 0
  BY <1>1, <1>2
<1>4. PICK f \in Frames : FrameAt(t, 0, f) /\ Framed(SubSeq(t, Len(f) + 1, Len(t)))
  BY <1>1, <1>2, <1>3, FramedFirst
<1>5. ASSUME Len(buf) >= HeaderSize
      PROVE  buf[1] = VERSION /\ FullLen = Len(f) /\ (Complete <=> Len(f) <= Len(buf))
  <2>1. Len(f) \in Nat /\ Len(f) >= 2 /\ f[1] = VERSION /\ f[2] + HeaderSize = Len(f) /\ Len(f) < MaxSize
    <3>1. Len(f) \in Nat /\ Len(f) >= 2
      BY FrameType
    <3>2. QED
      BY <3>1, FrameHeader
  <2>2. 1 \in 1..Len(f) /\ 2 \in 1..Len(f) /\ 0 + 1 = 1 /\ 0 + 2 = 2
    BY <2>1
  <2>3. t[1] = f[1] /\ t[2] = f[2]
    BY <1>4, <2>2 DEF FrameAt
  <2>4. buf[1] = t[1] /\ buf[2] = t[2]
    BY <1>1, <1>2, <1>5 DEF HeaderSize
  <2>5. buf[1] = VERSION /\ buf[2] + HeaderSize = Len(f)
    BY <2>1, <2>3, <2>4
  <2>6. Len(f) % Wrap = Len(f) /\ Len(buf) % Wrap = Len(buf)
    <3>1. MaxSize \in Nat /\ Wrap \in Nat /\ MaxSize < Wrap
      BY SizesAssumption DEF Fits
    <3>2. Len(f) \in 0..(Wrap - 1) /\ Len(buf) \in 0..(Wrap - 1)
      BY <1>1, <2>1, <3>1
    <3>3. QED
      BY <3>1, <3>2
  <2>7. FullLen = Len(f)
    BY <2>5, <2>6 DEF FullLen
  <2>8. QED
    BY <1>5, <2>1, <2>5, <2>6, <2>7 DEF Complete
<1>6. QED
  BY <1>4, <1>5 DEF t

LEMMA ReadPreserves ==
  ASSUME Fits, IInv, NEW n \in 1..ReadSize, Read(n)
  PROVE  IInv'
<1>1. /\ at = "read" /\ at' = "pull" /\ n <= Len(wire)
      /\ buf \in Seq(Byte) /\ wire \in Seq(Byte) /\ Len(buf) \in Nat /\ Len(wire) \in Nat
      /\ Len(buf) + ReadSize <= MaxSize /\ size = MaxSize
      /\ UNCHANGED <<sent, out, C, last>>
  BY LenProperties DEF IInv, TypeOK, BufferNeverGrows, Read
<1>2. n \in 1..Len(wire) /\ n \in Nat /\ n <= size - Len(buf) /\ size + (n - n) = size
  BY <1>1, SizesAssumption
<1>3. /\ wire' = SubSeq(wire, n + 1, Len(wire))
      /\ buf' = buf \o SubSeq(wire, 1, n)
      /\ size' = size
  BY <1>2 DEF Read
<1> DEFINE x == SubSeq(wire, 1, n)
<1>4. x \in Seq(Byte) /\ Len(x) = n /\ wire' \in Seq(Byte) /\ buf' \o wire' = buf \o wire
  BY <1>1, <1>2, <1>3, ReadKeepsBytes
<1> HIDE DEF x
<1>5. buf' \in Seq(Byte) /\ Len(buf') = Len(buf) + n
  <2>1. buf' = buf \o x
    BY <1>3 DEF x
  <2>2. QED
    BY <1>1, <1>4, <2>1, ConcatProperties
<1>6. Len(buf') <= size'
  <2>1. size' = MaxSize /\ MaxSize \in Nat /\ ReadSize \in Nat
    BY <1>1, <1>3, SizesAssumption
  <2>2. QED
    BY <1>1, <1>2, <1>5, <2>1
<1>7. TypeOK'
  BY <1>1, <1>3, <1>4, <1>5, <1>6 DEF IInv, TypeOK
<1>8. QED
  BY <1>1, <1>3, <1>4, <1>7 DEF IInv, BufferNeverGrows, Whole

LEMMA PullPreserves ==
  ASSUME Fits, IInv, Pull
  PROVE  IInv'
<1>1. /\ at = "pull" /\ Complete /\ Len(buf) >= HeaderSize /\ at' = "send"
      /\ UNCHANGED <<sent, wire, size, C, last>>
      /\ buf \in Seq(Byte) /\ wire \in Seq(Byte) /\ Len(buf) \in Nat /\ Len(buf) > 0
  BY LenProperties DEF Pull, Complete, HeaderSize, IInv, TypeOK
<1>2. PICK f \in Frames :
        /\ FrameAt(buf \o wire, 0, f)
        /\ Framed(SubSeq(buf \o wire, Len(f) + 1, Len(buf \o wire)))
        /\ FullLen = Len(f) /\ Len(f) <= Len(buf)
  BY <1>1, InFront, SMTT(30)
<1>3. f \in Seq(Byte) /\ Len(f) \in Nat /\ Len(f) >= 2 /\ Len(f) \in 1..Len(buf)
  BY <1>1, <1>2, FrameType
<1> DEFINE front == SubSeq(buf, 1, Len(f))
           rest == SubSeq(buf, Len(f) + 1, Len(buf))
<1>4. /\ out' = front /\ buf' = rest
      /\ front \in Seq(Byte) /\ rest \in Seq(Byte)
      /\ Len(front) = Len(f) /\ Len(rest) = Len(buf) - Len(f)
      /\ rest \o wire = SubSeq(buf \o wire, Len(f) + 1, Len(buf \o wire))
  BY <1>1, <1>2, <1>3, PullKeepsBytes DEF Pull
<1>5. \A k \in 1..Len(f) : front[k] = f[k]
  <2>1. SUFFICES ASSUME NEW k \in 1..Len(f) PROVE front[k] = f[k]
    OBVIOUS
  <2>2. k \in 1..Len(buf) /\ k \in Int /\ 1 + k - 1 = k /\ 0 + k = k /\ Len(f) - 1 + 1 = Len(f)
    BY <1>1, <1>3
  <2>3. front[k] = buf[k]
    <3>1. \A i \in 1..Len(f) : buf[i] \in Byte
      BY <1>1, <1>3
    <3>2. \A i \in 1..(Len(f) - 1 + 1) : front[i] = buf[1 + i - 1]
      BY <1>3, <3>1, SubSeqProperties
    <3>3. QED
      BY <2>2, <3>2
  <2>4. (buf \o wire)[k] = buf[k]
    <3>1. /\ \A i \in 1..(Len(buf) + Len(wire)) :
               (buf \o wire)[i] = IF i <= Len(buf) THEN buf[i] ELSE wire[i - Len(buf)]
          /\ Len(wire) \in Nat
      BY <1>1, ConcatProperties, LenProperties
    <3>2. k \in 1..(Len(buf) + Len(wire)) /\ k <= Len(buf)
      BY <1>1, <2>2, <3>1
    <3>3. QED
      BY <3>1, <3>2
  <2>5. (buf \o wire)[k] = f[k]
    BY <1>2, <2>2 DEF FrameAt
  <2>6. QED
    BY <2>3, <2>4, <2>5
<1> HIDE DEF front, rest
<1>6. front = f
  BY <1>3, <1>4, <1>5, SeqEqual
<1>7. Len(buf') <= size' /\ Framed((buf \o wire)')
  BY <1>1, <1>2, <1>3, <1>4 DEF IInv, TypeOK
<1>8. TypeOK'
  BY <1>1, <1>4, <1>7 DEF IInv, TypeOK
<1>9. QED
  BY <1>1, <1>4, <1>6, <1>7, <1>8 DEF IInv, BufferNeverGrows, Whole

LEMMA PullNothingPreserves ==
  ASSUME Fits, IInv, PullNothing
  PROVE  IInv'
<1>1. /\ at = "pull" /\ ~Complete /\ at' = "read" /\ UNCHANGED <<sent, wire, buf, size, out, C, last>>
      /\ buf \in Seq(Byte) /\ Len(buf) \in Nat
  BY LenProperties DEF PullNothing, IInv, TypeOK
<1>2. Len(buf) + ReadSize <= MaxSize
  <2>1. CASE Len(buf) = 0
    BY <2>1, SizesAssumption DEF Fits
  <2>2. CASE Len(buf) # 0
    <3>1. PICK f \in Frames : Len(buf) >= HeaderSize => (Complete <=> Len(f) <= Len(buf))
      BY <1>1, <2>2, InFront
    <3>2. Len(f) \in Nat /\ Len(f) >= 2 /\ Len(f) - 1 + ReadSize <= MaxSize
      <4>1. Len(f) \in Nat /\ Len(f) >= 2
        BY FrameType
      <4>2. QED
        BY <4>1, FrameHeader
    <3>3. Len(buf) <= Len(f) - 1
      <4>1. CASE Len(buf) >= HeaderSize
        BY <1>1, <3>1, <3>2, <4>1
      <4>2. CASE ~(Len(buf) >= HeaderSize)
        BY <1>1, <3>2, <4>2 DEF HeaderSize
      <4>3. QED
        BY <4>1, <4>2
    <3>4. QED
      BY <1>1, <3>2, <3>3, SizesAssumption
  <2>3. QED
    BY <2>1, <2>2
<1>3. QED
  BY <1>1, <1>2 DEF IInv, TypeOK, BufferNeverGrows, Whole

LEMMA PeerWritePreserves ==
  ASSUME IInv, PeerWrite
  PROVE  IInv'
<1>1. PICK f \in Frames :
        /\ sent < MaxSent /\ sent' = sent + 1 /\ wire' = wire \o f
        /\ UNCHANGED <<buf, size, at, out, C, last>>
  BY DEF PeerWrite
<1>2. /\ buf \in Seq(Byte) /\ wire \in Seq(Byte) /\ f \in Seq(Byte)
      /\ Framed(buf \o wire)
  BY FrameType DEF IInv, TypeOK
<1>3. wire' \in Seq(Byte) /\ buf \o wire \in Seq(Byte)
  BY <1>1, <1>2, ConcatProperties
<1>4. buf \o wire' = (buf \o wire) \o f
  <2>1. (buf \o wire) \o f = buf \o (wire \o f)
    BY <1>2, ConcatAssociative
  <2>2. QED
    BY <1>1, <2>1
<1>5. Framed(buf \o wire')
  BY <1>2, <1>3, <1>4, FramedAppend
<1>6. sent' \in 0..MaxSent
  BY <1>1, SizesAssumption DEF IInv, TypeOK
<1>7. TypeOK'
  BY <1>1, <1>3, <1>6 DEF IInv, TypeOK
<1>8. QED
  BY <1>1, <1>7, <1>5 DEF IInv, BufferNeverGrows, Whole

LEMMA SendPacketPreserves ==
  ASSUME IInv, SendPacket
  PROVE  IInv'
<1>1. /\ at = "send" /\ at' = "pull" /\ Len(C) < ChanCap /\ C' = Append(C, out) /\ out' = <<>>
      /\ UNCHANGED <<sent, wire, buf, size, last>>
      /\ C \in Seq(Seq(Byte)) /\ Len(C) \in Nat /\ out \in Seq(Byte) /\ out \in Frames
  BY LenProperties DEF SendPacket, IInv, TypeOK, Whole
<1>2. /\ C' \in Seq(Seq(Byte)) /\ Len(C') = Len(C) + 1
      /\ \A i \in 1..Len(C) : C'[i] = C[i]
      /\ C'[Len(C) + 1] = out
  BY <1>1, AppendProperties
<1>3. \A i \in 1..Len(C') : C'[i] \in Frames
  <2>1. SUFFICES ASSUME NEW i \in 1..Len(C') PROVE C'[i] \in Frames
    OBVIOUS
  <2>2. i \in 1..Len(C) \/ i = Len(C) + 1
    BY <1>1, <1>2
  <2>3. QED
    BY <1>1, <1>2, <2>2 DEF IInv, Whole
<1>4. Len(C') <= ChanCap /\ out' \in Seq(Byte)
  BY <1>1, <1>2, SizesAssumption
<1>5. TypeOK'
  BY <1>1, <1>2, <1>4 DEF IInv, TypeOK
<1>6. QED
  BY <1>1, <1>3, <1>5 DEF IInv, BufferNeverGrows, Whole

LEMMA ReceivePreserves ==
  ASSUME IInv, Receive
  PROVE  IInv'
<1>1. /\ C # <<>> /\ last' = Head(C) /\ C' = Tail(C)
      /\ UNCHANGED <<sent, wire, buf, size, at, out>>
      /\ C \in Seq(Seq(Byte)) /\ Len(C) \in Nat /\ Len(C) <= ChanCap
  BY LenProperties DEF Receive, IInv, TypeOK
<1>2. /\ Head(C) \in Seq(Byte) /\ Tail(C) \in Seq(Seq(Byte)) /\ Len(Tail(C)) = Len(C) - 1
      /\ \A i \in 1..(Len(C) - 1) : Tail(C)[i] = C[i + 1]
      /\ Len(C) > 0
  <2>1. Len(C) > 0
    BY <1>1, EmptySeq
  <2>2. Tail(C) = SubSeq(C, 2, Len(C)) /\ \A i \in 2..Len(C) : C[i] \in Seq(Byte)
    BY <1>1, TailIsSubSeq, ElementOfSeq
  <2>3. \A i \in 1..(Len(C) - 1) : Tail(C)[i] = C[i + 1]
    BY <1>1, <2>1
  <2>4. QED
    BY <1>1, <2>1, <2>3, HeadTailProperties
<1>3. Head(C) = C[1]
  BY <1>1
<1>4. last' \in Frames
  BY <1>1, <1>2, <1>3 DEF IInv, Whole
<1>5. \A i \in 1..Len(C') : C'[i] \in Frames
  BY <1>1, <1>2 DEF IInv, Whole
<1>6. TypeOK'
  BY <1>1, <1>2, SizesAssumption DEF IInv, TypeOK
<1>7. QED
  BY <1>1, <1>4, <1>5, <1>6 DEF IInv, BufferNeverGrows, Whole

LEMMA InitIInv ==
  ASSUME Fits, Init
  PROVE  IInv
<1>1. TypeOK
  BY SizesAssumption DEF Init, TypeOK
<1>2. Framed(buf \o wire)
  <2>1. buf \o wire = <<>> /\ Len(buf \o wire) = 0
    BY DEF Init
  <2>2. {0} \in SUBSET (0..Len(buf \o wire)) /\ Laid(buf \o wire, {0})
    BY <2>1 DEF Laid
  <2>3. QED
    BY <2>2 DEF Framed
<1>3. Whole
  <2>1. at = "read" /\ C = <<>> /\ last = <<>> /\ Len(C) = 0
    BY DEF Init
  <2>2. QED
    BY <2>1 DEF Whole
<1>4. Len(buf) + ReadSize <= MaxSize /\ size = MaxSize
  <2>1. Len(buf) = 0 /\ size = MaxSize
    BY DEF Init
  <2>2. QED
    BY <2>1, SizesAssumption DEF Fits
<1>5. QED
  BY <1>1, <1>2, <1>3, <1>4 DEF IInv, BufferNeverGrows

LEMMA NextIInv ==
  ASSUME Fits, IInv, [Next]_vars
  PROVE  IInv'
<1>1. CASE Next
  BY <1>1, PeerWritePreserves, ReadPreserves, PullPreserves, PullNothingPreserves,
     SendPacketPreserves, ReceivePreserves DEF Next, Reading
<1>2. CASE UNCHANGED vars
  BY <1>2 DEF vars, IInv, TypeOK, BufferNeverGrows, Whole
<1>3. QED
  BY <1>1, <1>2

THEOREM Inductive == ASSUME Fits PROVE Spec => []IInv
<1>1. Init => IInv
  BY InitIInv
<1>2. IInv /\ [Next]_vars => IInv'
  BY NextIInv
<1>3. QED
  BY <1>1, <1>2, PTL DEF Spec

\* If a packet but for its last byte leaves room for a read, then however TCP
\* splits the stream, push has room for what FrameWithReader gives it (p.idx
\* never passes the end of p.buf) and C never holds more than it can.
THEOREM TypeCorrect == ASSUME Fits PROVE Spec => []TypeOK
<1>1. IInv => TypeOK
  BY DEF IInv
<1>2. QED
  BY <1>1, Inductive, PTL

\* Under the same condition push never reaches the append that would enlarge
\* p.buf without counting the bytes.
THEOREM NeverGrows == ASSUME Fits PROVE Spec => []BufferNeverGrows
<1>1. IInv => BufferNeverGrows
  BY DEF IInv
<1>2. QED
  BY <1>1, Inductive, PTL

\* And every packet on its way out of the framer (in pull's hands, on C, at the
\* handler) is one that a peer wrote: no split cuts one short or joins two.
THEOREM PacketsWhole == ASSUME Fits PROVE Spec => []Whole
<1>1. IInv => Whole
  BY DEF IInv
<1>2. QED
  BY <1>1, Inductive, PTL

-----------------------------------------------------------------------------
(* Packets cut out of bytes *)

\* Induction with a set of numbers for the statement.
LEMMA Induction ==
  ASSUME NEW S, 0 \in S, \A n \in Nat : n \in S => n + 1 \in S
  PROVE  Nat \subseteq S
<1> DEFINE T == Nat \ S
           R == {p \in Nat \X Nat : p[1] < p[2]}
<1>1. IsWellFoundedOn(R, Nat)
  BY NatLessThanWellFounded DEF OpToRel
<1> SUFFICES ASSUME T # {} PROVE FALSE
  OBVIOUS
<1> HIDE DEF R
<1>2. PICK n \in T : \A m \in T : <<m, n>> \notin R
  <2>1. T \subseteq Nat
    OBVIOUS
  <2> HIDE DEF T
  <2> QED
    BY ONLY <1>1, <2>1, T # {}, WFMin
<1>3. n # 0 /\ n - 1 \in Nat /\ n - 1 \notin T
  <2>1. n # 0 /\ n - 1 \in Nat
    OBVIOUS
  <2>2. <<n - 1, n>> \in R
    BY <2>1 DEF R
  <2> QED
    BY <1>2, <2>1, <2>2
<1>4. (n - 1) + 1 = n
  OBVIOUS
<1> QED
  BY <1>3, <1>4

EndAt(s, i) == i + s[i + 1] + HeaderSize - 1

\* What Cut finds from the i-th byte of s on, when g is what it finds later.
CutStep(s, g, i) ==
  IF i > Len(s) THEN <<>>
  ELSE IF i = Len(s) \/ EndAt(s, i) > Len(s) THEN << SubSeq(s, i, Len(s)) >>
  ELSE << SubSeq(s, i, EndAt(s, i)) >> \o g[EndAt(s, i) + 1]

IsCutting(g, s) == g = [i \in 1..(Len(s) + 1) |-> CutStep(s, g, i)]

LEMMA CutDefined == \A s : Cut(s) = (CHOOSE g : IsCutting(g, s))[1]
BY DEF Cut, IsCutting, CutStep, EndAt

LEMMA EndIsLater ==
  ASSUME NEW s \in Seq(Byte), NEW i \in 1..Len(s), i # Len(s)
  PROVE  EndAt(s, i) \in Nat /\ EndAt(s, i) > i
<1>1. i + 1 \in 1..Len(s) /\ i \in Nat
  OBVIOUS
<1>2. s[i + 1] \in Nat
  BY <1>1, ElementOfSeq, SizesAssumption DEF Byte
<1> QED
  BY <1>1, <1>2 DEF EndAt, HeaderSize

LEMMA CutStepAgrees ==
  ASSUME NEW s \in Seq(Byte), NEW i \in 1..(Len(s) + 1), NEW g, NEW h,
         \A j \in 1..(Len(s) + 1) : j > i => h[j] = g[j]
  PROVE  CutStep(s, h, i) = CutStep(s, g, i)
<1>1. Len(s) \in Nat
  OBVIOUS
<1>2. CASE i \in 1..Len(s) /\ i # Len(s) /\ ~(EndAt(s, i) > Len(s))
  <2>1. EndAt(s, i) \in Nat /\ EndAt(s, i) > i
    BY <1>2, EndIsLater
  <2>2. EndAt(s, i) + 1 \in 1..(Len(s) + 1) /\ EndAt(s, i) + 1 > i
    BY <1>1, <1>2, <2>1
  <2>3. h[EndAt(s, i) + 1] = g[EndAt(s, i) + 1]
    BY <2>2
  <2> QED
    BY <2>3 DEF CutStep
<1>3. CASE ~(i \in 1..Len(s)) \/ i = Len(s) \/ EndAt(s, i) > Len(s)
  <2>1. i > Len(s) \/ i = Len(s) \/ EndAt(s, i) > Len(s)
    BY <1>1, <1>3
  <2> QED
    BY <2>1 DEF CutStep
<1> QED
  BY <1>2, <1>3

LEMMA CuttingExists ==
  ASSUME NEW s \in Seq(Byte)
  PROVE  \E g : IsCutting(g, s)
<1> DEFINE N == Len(s) + 1
           From(g, k) == /\ g = [i \in 1..N |-> g[i]]
                         /\ \A i \in 1..N : i + k >= N => g[i] = CutStep(s, g, i)
           S == {k \in Nat : \E g : From(g, k)}
<1>1. N \in Nat \ {0} /\ Len(s) \in Nat
  OBVIOUS
<1>2. 0 \in S
  <2> DEFINE g == [i \in 1..N |-> <<>>]
  <2>1. \A i \in 1..N : i + 0 >= N => g[i] = CutStep(s, g, i)
    BY <1>1 DEF CutStep
  <2>2. From(g, 0)
    BY <2>1
  <2> QED
    BY <2>2
<1>3. ASSUME NEW k \in Nat, k \in S PROVE k + 1 \in S
  <2>1. PICK g : From(g, k)
    BY <1>3
  <2> DEFINE j == N - (k + 1)
             h == [i \in 1..N |-> IF i = j THEN CutStep(s, g, j) ELSE g[i]]
  <2>2. ASSUME NEW i \in 1..N, i + (k + 1) >= N
        PROVE  h[i] = CutStep(s, h, i)
    <3>1. j \in Int /\ i >= j
      BY <1>1, <1>3, <2>2
    <3>2. \A l \in 1..N : l > i => h[l] = g[l]
      BY <3>1
    <3>3. h[i] = IF i = j THEN CutStep(s, g, j) ELSE g[i]
      OBVIOUS
    <3>4. i # j => i + k >= N
      BY <1>1, <1>3, <3>1
    <3> HIDE DEF h, j
    <3>5. CutStep(s, h, i) = CutStep(s, g, i)
      BY <3>2, CutStepAgrees
    <3> QED
      BY <2>1, <3>3, <3>4, <3>5
  <2>3. h = [i \in 1..N |-> h[i]]
    OBVIOUS
  <2> HIDE DEF h
  <2>4. From(h, k + 1)
    BY <2>2, <2>3
  <2> QED
    BY <1>3, <2>4
<1>4. Nat \subseteq S
  <2> HIDE DEF S
  <2> QED
    BY <1>2, <1>3, Induction
<1>5. PICK g : From(g, N)
  BY <1>1, <1>4
<1>6. g = [i \in 1..N |-> CutStep(s, g, i)]
  <2>1. \A i \in 1..N : g[i] = CutStep(s, g, i)
    BY <1>1, <1>5
  <2> QED
    BY <1>5, <2>1
<1> QED
  BY <1>6 DEF IsCutting

\* What Cut chooses is such a function.
LEMMA Cutting ==
  ASSUME NEW s \in Seq(Byte)
  PROVE  \E g : /\ Cut(s) = g[1]
                /\ \A i \in 1..(Len(s) + 1) : g[i] = CutStep(s, g, i)
<1> DEFINE g == CHOOSE h : IsCutting(h, s)
<1>1. IsCutting(g, s)
  BY CuttingExists
<1>2. Cut(s) = g[1]
  BY CutDefined
<1> HIDE DEF g
<1>3. \A i \in 1..(Len(s) + 1) : g[i] = CutStep(s, g, i)
  BY <1>1 DEF IsCutting
<1> QED
  BY <1>2, <1>3

LEMMA CutNothing == Cut(<<>>) = <<>>
<1>1. <<>> \in Seq(Byte) /\ Len(<<>>) = 0
  BY EmptySeq
<1>2. PICK g : Cut(<<>>) = g[1] /\ \A i \in 1..(Len(<<>>) + 1) : g[i] = CutStep(<<>>, g, i)
  BY <1>1, Cutting
<1>3. g[1] = CutStep(<<>>, g, 1)
  BY <1>1, <1>2
<1> QED
  BY <1>1, <1>2, <1>3 DEF CutStep

\* From one packet on, Cut sees what it sees of the bytes behind the packet.
LEMMA CutStepShifted ==
  ASSUME NEW f \in Seq(Byte), NEW s \in Seq(Byte), NEW i \in 1..(Len(s) + 1), NEW g, NEW h,
         \A j \in 1..(Len(s) + 1) : j > i => h[Len(f) + j] = g[j]
  PROVE  CutStep(f \o s, h, Len(f) + i) = CutStep(s, g, i)
<1> DEFINE t == f \o s
           n == Len(f)
<1>1. /\ Len(s) \in Nat /\ n \in Nat /\ Len(t) = n + Len(s) /\ i \in Nat \ {0}
      /\ \A k \in 1..(n + Len(s)) : t[k] = IF k <= n THEN f[k] ELSE s[k - n]
  BY ConcatProperties, LenProperties
<1>2. ASSUME NEW m \in i..Len(s) PROVE SubSeq(t, n + i, n + m) = SubSeq(s, i, m)
  <2>1. /\ n + i \in (n + 1)..(n + Len(s)) /\ n + m \in (n + 1)..(n + Len(s))
        /\ (n + i) - n = i /\ (n + m) - n = m
    BY <1>1
  <2>2. SubSeq(t, n + i, n + m) = SubSeq(s, (n + i) - n, (n + m) - n)
    BY <2>1, SubSeqOfConcat2
  <2> QED
    BY <2>1, <2>2
<1> HIDE DEF t, n
<1>3. CASE i > Len(s)
  <2>1. n + i > Len(t)
    BY <1>1, <1>3
  <2> QED
    BY <1>3, <2>1 DEF CutStep, t, n
<1>4. CASE i = Len(s)
  <2>1. ~(n + i > Len(t)) /\ n + i = Len(t) /\ ~(i > Len(s)) /\ Len(s) \in i..Len(s)
    BY <1>1, <1>4
  <2>2. SubSeq(t, n + i, Len(t)) = SubSeq(s, i, Len(s))
    BY <1>1, <1>2, <2>1
  <2>3. CutStep(t, h, n + i) = << SubSeq(t, n + i, Len(t)) >>
    BY <2>1 DEF CutStep
  <2>4. CutStep(s, g, i) = << SubSeq(s, i, Len(s)) >>
    BY <1>4, <2>1 DEF CutStep
  <2> QED
    BY <2>2, <2>3, <2>4 DEF t, n
<1>5. CASE i < Len(s)
  <2> DEFINE e == EndAt(s, i)
  <2>1. i \in 1..Len(s) /\ i # Len(s) /\ i + 1 \in 1..Len(s)
    BY <1>1, <1>5
  <2>2. e \in Nat /\ e > i
    BY <2>1, EndIsLater
  <2>3. EndAt(t, n + i) = n + e
    <3>1. /\ (n + i) + 1 \in 1..(n + Len(s)) /\ ~((n + i) + 1 <= n)
          /\ ((n + i) + 1) - n = i + 1
      BY <1>1, <2>1
    <3>2. t[(n + i) + 1] = s[i + 1]
      BY <1>1, <3>1
    <3>3. s[i + 1] \in Nat
      BY <2>1, ElementOfSeq, SizesAssumption DEF Byte
    <3>4. (n + i) + s[i + 1] + HeaderSize - 1 = n + (i + s[i + 1] + HeaderSize - 1)
      BY <1>1, <3>3 DEF HeaderSize
    <3> QED
      BY <3>2, <3>4 DEF EndAt
  <2> HIDE DEF e
  <2>4. ~(n + i > Len(t)) /\ n + i # Len(t) /\ ~(i > Len(s)) /\ (n + e > Len(t) <=> e > Len(s))
    BY <1>1, <1>5, <2>2
  <2>5. CASE e > Len(s)
    <3>1. Len(s) \in i..Len(s)
      BY <1>1, <1>5
    <3>2. SubSeq(t, n + i, Len(t)) = SubSeq(s, i, Len(s))
      BY <1>1, <1>2, <3>1
    <3>3. CutStep(t, h, n + i) = << SubSeq(t, n + i, Len(t)) >>
      BY <2>3, <2>4, <2>5 DEF CutStep
    <3>4. CutStep(s, g, i) = << SubSeq(s, i, Len(s)) >>
      BY <2>4, <2>5 DEF CutStep, e
    <3> QED
      BY <3>2, <3>3, <3>4 DEF t, n
  <2>6. CASE ~(e > Len(s))
    <3>1. e \in i..Len(s) /\ e + 1 \in 1..(Len(s) + 1) /\ e + 1 > i
      BY <1>1, <2>2, <2>6
    <3>2. SubSeq(t, n + i, n + e) = SubSeq(s, i, e)
      BY <1>2, <3>1
    <3>3. h[(n + e) + 1] = g[e + 1]
      <4>1. (n + e) + 1 = n + (e + 1)
        BY <1>1, <2>2
      <4> QED
        BY <3>1, <4>1 DEF n
    <3>4. CutStep(t, h, n + i) = << SubSeq(t, n + i, n + e) >> \o h[(n + e) + 1]
      BY <2>3, <2>4, <2>6 DEF CutStep
    <3>5. CutStep(s, g, i) = << SubSeq(s, i, e) >> \o g[e + 1]
      BY <1>5, <2>1, <2>4, <2>6 DEF CutStep, e
    <3> QED
      BY <3>2, <3>3, <3>4, <3>5 DEF t, n
  <2> QED
    BY <2>5, <2>6
<1> QED
  BY <1>1, <1>3, <1>4, <1>5

\* A packet in front is the first that Cut finds.
LEMMA CutFirst ==
  ASSUME Fits, NEW f \in Frames, NEW s \in Seq(Byte)
  PROVE  Cut(f \o s) = <<f>> \o Cut(s)
<1> DEFINE t == f \o s
           n == Len(f)
           N == Len(s) + 1
<1>1. f \in Seq(Byte) /\ n \in Nat /\ n >= 2 /\ Len(s) \in Nat /\ f[2] + HeaderSize = n
  BY FrameType, FrameHeader
<1>2. /\ t \in Seq(Byte) /\ Len(t) = n + Len(s)
      /\ \A k \in 1..(n + Len(s)) : t[k] = IF k <= n THEN f[k] ELSE s[k - n]
  BY <1>1, ConcatProperties
<1>3. PICK h : Cut(t) = h[1] /\ \A i \in 1..(Len(t) + 1) : h[i] = CutStep(t, h, i)
  <2> HIDE DEF t
  <2> QED
    BY <1>2, Cutting
<1>4. PICK g : Cut(s) = g[1] /\ \A i \in 1..(Len(s) + 1) : g[i] = CutStep(s, g, i)
  BY Cutting
<1> DEFINE S == {k \in Nat : \A i \in 1..N : i + k >= N => h[n + i] = g[i]}
<1>5. ASSUME NEW i \in 1..N, \A j \in 1..N : j > i => h[n + j] = g[j]
      PROVE  h[n + i] = g[i]
  <2>1. CutStep(t, h, n + i) = CutStep(s, g, i)
    <3>1. /\ f \in Seq(Byte) /\ i \in 1..(Len(s) + 1)
          /\ \A j \in 1..(Len(s) + 1) : j > i => h[Len(f) + j] = g[j]
      BY <1>1, <1>5
    <3> HIDE DEF t, n, N
    <3>2. CutStep(f \o s, h, Len(f) + i) = CutStep(s, g, i)
      BY <3>1, CutStepShifted
    <3> QED
      BY <3>2 DEF t, n
  <2>2. n + i \in 1..(Len(t) + 1)
    <3> HIDE DEF t, n
    <3> QED
      BY <1>1, <1>2
  <2> QED
    BY <1>3, <1>4, <2>1, <2>2
<1> HIDE DEF t, n
<1>6. 0 \in S
  BY <1>1, <1>5
<1>7. ASSUME NEW k \in Nat, k \in S PROVE k + 1 \in S
  <2> SUFFICES ASSUME NEW i \in 1..N, i + (k + 1) >= N PROVE h[n + i] = g[i]
    BY <1>7
  <2>1. \A j \in 1..N : j > i => h[n + j] = g[j]
    BY <1>1, <1>7
  <2> QED
    BY <1>5, <2>1
<1>8. Nat \subseteq S
  <2> HIDE DEF S
  <2> QED
    BY <1>6, <1>7, Induction
<1>9. h[n + 1] = g[1]
  <2>1. N \in S /\ 1 \in 1..N /\ 1 + N >= N
    <3> HIDE DEF S
    <3> QED
      BY <1>1, <1>8
  <2> QED
    BY <2>1
<1>10. h[1] = <<f>> \o h[n + 1]
  <2>1. h[1] = CutStep(t, h, 1) /\ ~(1 > Len(t)) /\ 1 # Len(t)
    BY <1>1, <1>2, <1>3
  <2>2. EndAt(t, 1) = n
    <3>1. t[2] = f[2]
      BY <1>1, <1>2
    <3>2. 2 \in 1..Len(f) /\ f[2] \in Nat
      <4>1. 2 \in 1..Len(f)
        BY <1>1 DEF n
      <4> QED
        BY <1>1, <4>1, ElementOfSeq, SizesAssumption DEF Byte
    <3> QED
      BY <1>1, <3>1, <3>2 DEF EndAt, HeaderSize
  <2>3. ~(n > Len(t))
    BY <1>1, <1>2
  <2>4. h[1] = << SubSeq(t, 1, n) >> \o h[n + 1]
    BY <2>1, <2>2, <2>3 DEF CutStep
  <2>5. SubSeq(t, 1, n) = f
    <3>1. 1 \in 1..Len(f) /\ Len(f) \in 1..Len(f)
      BY <1>1 DEF n
    <3>2. SubSeq(f \o s, 1, Len(f)) = SubSeq(f, 1, Len(f))
      BY <1>1, <3>1, SubSeqOfConcat1
    <3> QED
      BY <1>1, <3>2, SubSeqFull DEF t, n
  <2> QED
    BY <2>4, <2>5
<1> QED
  BY <1>3, <1>4, <1>9, <1>10 DEF t

\* The bytes of a packet in front, and the rest.
LEMMA FrontAndRest ==
  ASSUME NEW s \in Seq(Byte), NEW f \in Frames, FrameAt(s, 0, f)
  PROVE  LET rest == SubSeq(s, Len(f) + 1, Len(s))
         IN  rest \in Seq(Byte) /\ Len(rest) = Len(s) - Len(f) /\ s = f \o rest
<1> DEFINE n == Len(f)
           front == SubSeq(s, 1, n)
           rest == SubSeq(s, n + 1, Len(s))
<1>1. /\ f \in Seq(Byte) /\ n \in Nat /\ n >= 2 /\ Len(s) \in Nat /\ n <= Len(s)
      /\ \A k \in 1..n : s[k] = f[k]
  BY FrameType DEF FrameAt
<1> HIDE DEF n
<1>2. front \in Seq(Byte) /\ Len(front) = n /\ \A k \in 1..n : front[k] = s[k]
  <2>1. \A i \in 1..n : s[i] \in Byte
    BY <1>1
  <2> QED
    BY <1>1, <2>1, SubSeqProperties
<1>3. rest \in Seq(Byte) /\ Len(rest) = Len(s) - n
  <2>1. \A i \in (n + 1)..Len(s) : s[i] \in Byte
    BY <1>1
  <2> QED
    BY <1>1, <2>1, SubSeqProperties
<1>4. front = f
  <2> HIDE DEF front
  <2>1. Len(front) = Len(f) /\ \A k \in 1..Len(front) : front[k] = f[k]
    BY <1>1, <1>2 DEF n
  <2> QED
    BY <1>1, <1>2, <2>1, SeqEqual
<1>5. front \o rest = s
  <2>1. 1 \in 1..(Len(s) + 1) /\ n \in (1 - 1)..Len(s) /\ Len(s) \in n..Len(s)
    BY <1>1
  <2>2. front \o rest = SubSeq(s, 1, Len(s))
    BY <2>1, ConcatAdjacentSubSeq
  <2> QED
    BY <2>2, SubSeqFull
<1> QED
  BY <1>3, <1>4, <1>5 DEF n

\* Packets, as sequences of bytes.
Cuts == Seq(Seq(Byte))

LEMMA OneCut == \A f \in Seq(Byte) : <<f>> \in Cuts /\ Len(<<f>>) = 1
BY DEF Cuts

LEMMA CutsClosed == \A r, s \in Cuts : r \o s \in Cuts
BY ConcatProperties DEF Cuts

LEMMA CutsAssociative == \A r, s, t \in Cuts : (r \o s) \o t = r \o (s \o t)
BY ConcatAssociative DEF Cuts

LEMMA CutsEmpty == <<>> \in Cuts /\ \A s \in Cuts : s \o <<>> = s /\ <<>> \o s = s
BY EmptySeq, ConcatEmptySeq DEF Cuts

\* A packet behind packets is the last that Cut finds.
LEMMA CutLast ==
  ASSUME Fits, NEW f \in Frames
  PROVE  \A s \in Seq(Byte) : Framed(s) => Cut(s) \in Cuts /\ Cut(s \o f) = Cut(s) \o <<f>>
<1> DEFINE Right(s) == Cut(s) \in Cuts /\ Cut(s \o f) = Cut(s) \o <<f>>
           S == {n \in Nat : \A s \in Seq(Byte) : Len(s) <= n /\ Framed(s) => Right(s)}
<1>1. f \in Seq(Byte) /\ <<f>> \in Cuts
  BY FrameType, OneCut
<1>2. Right(<<>>)
  <2>1. <<>> \in Seq(Byte) /\ f \o <<>> = f /\ <<>> \o f = f
    BY <1>1, EmptySeq, ConcatEmptySeq
  <2>2. Cut(f \o <<>>) = <<f>> \o Cut(<<>>)
    BY <2>1, CutFirst
  <2>3. <<f>> \o Cut(<<>>) = Cut(<<>>) \o <<f>> /\ Cut(<<>>) \in Cuts
    BY <1>1, CutNothing, CutsEmpty
  <2> QED
    BY <2>1, <2>2, <2>3
<1>3. ASSUME NEW s \in Seq(Byte), Framed(s), Len(s) > 0,
             \A r \in Seq(Byte) : Len(r) < Len(s) /\ Framed(r) => Right(r)
      PROVE  Right(s)
  <2>1. PICK g \in Frames : FrameAt(s, 0, g) /\ Framed(SubSeq(s, Len(g) + 1, Len(s)))
    BY <1>3, FramedFirst
  <2> DEFINE r == SubSeq(s, Len(g) + 1, Len(s))
  <2>2. r \in Seq(Byte) /\ Len(r) = Len(s) - Len(g) /\ s = g \o r
    BY <2>1, FrontAndRest
  <2>3. g \in Seq(Byte) /\ Len(g) \in Nat /\ Len(g) >= 2 /\ <<g>> \in Cuts
    BY FrameType, OneCut
  <2>4. Len(r) < Len(s) /\ Framed(r)
    <3>1. Framed(r)
      BY <2>1
    <3> HIDE DEF r
    <3> QED
      BY <2>2, <2>3, <3>1
  <2> HIDE DEF r
  <2>5. Cut(r) \in Cuts /\ Cut(r \o f) = Cut(r) \o <<f>>
    BY <1>3, <2>2, <2>4
  <2>6. Cut(s) = <<g>> \o Cut(r)
    BY <2>2, CutFirst
  <2>7. r \o f \in Seq(Byte) /\ s \o f = g \o (r \o f)
    <3>1. r \o f \in Seq(Byte)
      BY <1>1, <2>2, ConcatProperties
    <3>2. (g \o r) \o f = g \o (r \o f)
      <4>1. g \in Seq(Byte) /\ r \in Seq(Byte) /\ f \in Seq(Byte)
        BY <1>1, <2>2, <2>3
      <4> QED
        BY ONLY <4>1, BytesAssociative
    <3> QED
      BY <2>2, <3>1, <3>2
  <2>8. Cut(s \o f) = <<g>> \o (Cut(r) \o <<f>>)
    BY <2>5, <2>7, CutFirst
  <2>9. <<g>> \o (Cut(r) \o <<f>>) = (<<g>> \o Cut(r)) \o <<f>>
    BY <1>1, <2>3, <2>5, CutsAssociative
  <2>10. <<g>> \o Cut(r) \in Cuts
    BY <2>3, <2>5, CutsClosed
  <2> QED
    BY <2>6, <2>8, <2>9, <2>10
<1> HIDE DEF Right
<1>4. 0 \in S
  <2> SUFFICES ASSUME NEW s \in Seq(Byte), Len(s) <= 0 PROVE Right(s)
    OBVIOUS
  <2>1. s = <<>>
    BY EmptySeq
  <2> QED
    BY <1>2, <2>1
<1>5. ASSUME NEW n \in Nat, n \in S PROVE n + 1 \in S
  <2> SUFFICES ASSUME NEW s \in Seq(Byte), Len(s) <= n + 1, Framed(s) PROVE Right(s)
    BY <1>5
  <2>1. Len(s) \in Nat
    OBVIOUS
  <2>2. \A r \in Seq(Byte) : Len(r) < Len(s) /\ Framed(r) => Right(r)
    <3> SUFFICES ASSUME NEW r \in Seq(Byte), Len(r) < Len(s), Framed(r) PROVE Right(r)
      OBVIOUS
    <3>1. Len(r) \in Nat /\ Len(r) <= n
      BY <2>1
    <3> QED
      BY <1>5, <3>1
  <2>3. CASE Len(s) = 0
    BY <1>2, <2>3, EmptySeq
  <2>4. CASE Len(s) > 0
    BY <1>3, <2>2, <2>4
  <2> QED
    BY <2>1, <2>3, <2>4
<1>6. Nat \subseteq S
  <2> HIDE DEF S
  <2> QED
    BY <1>4, <1>5, Induction
<1>7. ASSUME NEW s \in Seq(Byte), Framed(s) PROVE Right(s)
  <2>1. Len(s) \in Nat /\ Len(s) <= Len(s)
    OBVIOUS
  <2>2. Len(s) \in S
    <3> HIDE DEF S
    <3> QED
      BY <1>6, <2>1
  <2> QED
    BY <1>7, <2>1, <2>2
<1> QED
  BY <1>7 DEF Right

-----------------------------------------------------------------------------
(* The framer is a stream of packets *)

LEMMA CutOfPackets ==
  ASSUME Fits, NEW s \in Seq(Byte), Framed(s)
  PROVE  Cut(s) \in Cuts
<1>1. CASE Frames = {}
  <2>1. PICK ends \in SUBSET (0..Len(s)) : Laid(s, ends)
    BY DEF Framed
  <2>2. s = <<>>
    BY <1>1, <2>1, EmptySeq DEF Laid
  <2> QED
    BY <2>2, CutNothing, CutsEmpty
<1>2. CASE Frames # {}
  BY <1>2, CutLast
<1> QED
  BY <1>1, <1>2

LEMMA FlightParts ==
  ASSUME Fits, IInv
  PROVE  /\ C \in Cuts /\ Sending \in Cuts /\ buf \in Seq(Byte) /\ wire \in Seq(Byte)
         /\ buf \o wire \in Seq(Byte) /\ Framed(buf \o wire) /\ Cut(buf \o wire) \in Cuts
<1>1. /\ C \in Cuts /\ out \in Seq(Byte) /\ buf \in Seq(Byte) /\ wire \in Seq(Byte)
      /\ Framed(buf \o wire)
  BY DEF IInv, TypeOK, Cuts
<1>2. buf \o wire \in Seq(Byte)
  BY <1>1, ConcatProperties
<1>3. Sending \in Cuts
  BY <1>1, OneCut, CutsEmpty DEF Sending
<1> QED
  BY <1>1, <1>2, <1>3, CutOfPackets

\* A step that keeps the channel, what is sent on it and the bytes.
LEMMA FlightSame ==
  ASSUME C' = C, last' = last, Sending' = Sending, buf' \o wire' = buf \o wire
  PROVE  UNCHANGED Stream!streamVars
BY DEF Stream!streamVars, InFlight

LEMMA PeerWriteSends ==
  ASSUME Fits, IInv, PeerWrite
  PROVE  Stream!StreamNext
<1>1. PICK f \in Frames :
        /\ wire' = wire \o f /\ C' = C /\ last' = last /\ buf' = buf /\ at' = at /\ out' = out
  BY DEF PeerWrite
<1>2. f \in Seq(Byte) /\ <<f>> \in Cuts
  BY FrameType, OneCut
<1> DEFINE b == buf \o wire
           front == C \o Sending
<1>3. /\ C \in Cuts /\ Sending \in Cuts /\ buf \in Seq(Byte) /\ wire \in Seq(Byte)
      /\ b \in Seq(Byte) /\ Framed(b) /\ Cut(b) \in Cuts
  BY FlightParts
<1>4. buf' \o wire' = b \o f
  <2>1. (buf \o wire) \o f = buf \o (wire \o f)
    BY <1>2, <1>3, BytesAssociative
  <2> QED
    BY <1>1, <2>1
<1>5. front \in Cuts
  BY <1>3, CutsClosed
<1>6. InFlight = front \o Cut(b) /\ InFlight' = front \o Cut(b \o f)
  BY <1>1, <1>4 DEF InFlight, Sending
<1> HIDE DEF b, front
<1>7. Cut(b \o f) = Cut(b) \o <<f>>
  BY <1>3, CutLast
<1>8. InFlight' = InFlight \o <<f>> /\ InFlight \in Cuts
  <2>1. (front \o Cut(b)) \o <<f>> = front \o (Cut(b) \o <<f>>)
    BY <1>2, <1>3, <1>5, CutsAssociative
  <2>2. front \o Cut(b) \in Cuts
    BY <1>3, <1>5, CutsClosed
  <2> QED
    BY <1>6, <1>7, <2>1, <2>2
<1>9. InFlight' = Append(InFlight, f)
  BY <1>2, <1>8, AppendIsConcat DEF Cuts
<1>10. Stream!Send(f)
  BY <1>1, <1>9 DEF Stream!Send
<1> QED
  BY <1>10 DEF Stream!StreamNext

LEMMA ReadKeeps ==
  ASSUME Fits, IInv, NEW n \in 1..ReadSize, Read(n)
  PROVE  UNCHANGED Stream!streamVars
<1>1. /\ at = "read" /\ at' = "pull" /\ C' = C /\ last' = last /\ n <= Len(wire)
      /\ buf \in Seq(Byte) /\ wire \in Seq(Byte) /\ Len(buf) \in Nat /\ Len(wire) \in Nat
      /\ Len(buf) + ReadSize <= MaxSize /\ size = MaxSize
  BY LenProperties DEF IInv, TypeOK, BufferNeverGrows, Read
<1>2. n \in 1..Len(wire) /\ n <= size - Len(buf)
  BY <1>1, SizesAssumption
<1>3. wire' = SubSeq(wire, n + 1, Len(wire)) /\ buf' = buf \o SubSeq(wire, 1, n)
  BY <1>2 DEF Read
<1>4. buf' \o wire' = buf \o wire
  BY <1>1, <1>2, <1>3, ReadKeepsBytes
<1>5. Sending' = Sending
  BY <1>1 DEF Sending
<1> QED
  BY <1>1, <1>4, <1>5, FlightSame

LEMMA PullKeeps ==
  ASSUME Fits, IInv, Pull
  PROVE  UNCHANGED Stream!streamVars
<1>1. /\ at = "pull" /\ Complete /\ Len(buf) >= HeaderSize /\ at' = "send"
      /\ C' = C /\ last' = last /\ wire' = wire
      /\ out' = SubSeq(buf, 1, FullLen) /\ buf' = SubSeq(buf, FullLen + 1, Len(buf))
      /\ buf \in Seq(Byte) /\ wire \in Seq(Byte) /\ Len(buf) \in Nat /\ Len(buf) > 0
  BY LenProperties DEF Pull, Complete, HeaderSize, IInv, TypeOK
<1> DEFINE b == buf \o wire
<1>2. PICK f \in Frames :
        /\ FrameAt(b, 0, f) /\ Framed(SubSeq(b, Len(f) + 1, Len(b)))
        /\ FullLen = Len(f) /\ Len(f) <= Len(buf)
  BY <1>1, InFront, SMTT(30)
<1>3. f \in Seq(Byte) /\ Len(f) \in Nat /\ Len(f) >= 2 /\ Len(f) \in 1..Len(buf) /\ <<f>> \in Cuts
  BY <1>1, <1>2, FrameType, OneCut
<1>4. /\ C \in Cuts /\ b \in Seq(Byte)
  BY FlightParts
<1> DEFINE rest == SubSeq(b, Len(f) + 1, Len(b))
<1>5. rest \in Seq(Byte) /\ b = f \o rest
  <2> HIDE DEF b
  <2> QED
    BY <1>2, <1>4, FrontAndRest
<1>6. buf' \o wire' = rest
  BY <1>1, <1>2, <1>3, PullKeepsBytes
<1>7. out' = f
  <2>1. 1 \in 1..Len(buf) /\ 1 \in 1..Len(f) /\ Len(f) \in 1..Len(f)
    BY <1>3
  <2>2. SubSeq(b, 1, Len(f)) = SubSeq(buf, 1, Len(f))
    BY <1>1, <1>3, <2>1, SubSeqOfConcat1
  <2> HIDE DEF b, rest
  <2>3. SubSeq(f \o rest, 1, Len(f)) = SubSeq(f, 1, Len(f))
    BY <1>3, <1>5, <2>1, SubSeqOfConcat1
  <2> QED
    BY <1>1, <1>2, <1>3, <1>5, <2>2, <2>3, SubSeqFull
<1> HIDE DEF rest
<1>8. Cut(b) = <<f>> \o Cut(rest)
  <2> HIDE DEF b
  <2> QED
    BY <1>5, CutFirst
<1>9. Cut(rest) \in Cuts
  BY <1>2, <1>5, CutOfPackets DEF rest
<1>10. InFlight = (C \o <<>>) \o Cut(b) /\ InFlight' = (C \o <<f>>) \o Cut(rest)
  BY <1>1, <1>6, <1>7 DEF InFlight, Sending
<1> HIDE DEF b
<1>11. C \o <<>> = C /\ (C \o <<f>>) \o Cut(rest) = C \o (<<f>> \o Cut(rest))
  <2>1. C \o <<>> = C
    BY <1>4, CutsEmpty
  <2>2. (C \o <<f>>) \o Cut(rest) = C \o (<<f>> \o Cut(rest))
    BY <1>3, <1>4, <1>9, CutsAssociative
  <2> QED
    BY <2>1, <2>2
<1>12. InFlight' = InFlight
  BY <1>8, <1>10, <1>11
<1> QED
  BY <1>1, <1>12 DEF Stream!streamVars

LEMMA SendPacketKeeps ==
  ASSUME Fits, IInv, SendPacket
  PROVE  UNCHANGED Stream!streamVars
<1>1. /\ at = "send" /\ at' = "pull" /\ C' = Append(C, out)
      /\ wire' = wire /\ buf' = buf /\ last' = last /\ out \in Seq(Byte)
  BY DEF SendPacket, IInv, TypeOK
<1>2. C \in Cuts /\ C' = C \o <<out>> /\ <<out>> \in Cuts
  BY <1>1, FlightParts, AppendIsConcat, OneCut DEF Cuts
<1> DEFINE k == Cut(buf \o wire)
<1>3. InFlight = (C \o <<out>>) \o k /\ InFlight' = ((C \o <<out>>) \o <<>>) \o k
  BY <1>1, <1>2 DEF InFlight, Sending
<1> HIDE DEF k
<1>4. (C \o <<out>>) \o <<>> = C \o <<out>>
  BY <1>2, CutsClosed, CutsEmpty
<1> QED
  BY <1>1, <1>3, <1>4 DEF Stream!streamVars

LEMMA HeadOfFlight ==
  ASSUME NEW s \in Cuts, s # <<>>, NEW r \in Cuts
  PROVE  s \o r # <<>> /\ Head(s \o r) = Head(s) /\ Tail(s \o r) = Tail(s) \o r
<1>1. /\ s \in Seq(Seq(Byte)) /\ r \in Seq(Seq(Byte)) /\ Len(s) \in Nat /\ Len(r) \in Nat
      /\ Len(s) > 0
  BY EmptySeq DEF Cuts
<1> DEFINE c == s \o r
<1>2. /\ c \in Seq(Seq(Byte)) /\ Len(c) = Len(s) + Len(r)
      /\ \A i \in 1..(Len(s) + Len(r)) : c[i] = IF i <= Len(s) THEN s[i] ELSE r[i - Len(s)]
  BY <1>1, ConcatProperties
<1> HIDE DEF c
<1>3. c # <<>> /\ c[1] = s[1]
  BY <1>1, <1>2
<1>4. /\ Tail(c) \in Seq(Seq(Byte)) /\ Len(Tail(c)) = Len(c) - 1
      /\ \A i \in 1..Len(Tail(c)) : Tail(c)[i] = c[i + 1]
  BY <1>2, <1>3, HeadTailProperties
<1>5. /\ Tail(s) \in Seq(Seq(Byte)) /\ Len(Tail(s)) = Len(s) - 1
      /\ \A i \in 1..Len(Tail(s)) : Tail(s)[i] = s[i + 1]
  BY <1>1, HeadTailProperties
<1> DEFINE t == Tail(s)
           d == t \o r
           u == Tail(c)
<1> HIDE DEF t, u
<1>6. /\ d \in Seq(Seq(Byte)) /\ Len(d) = Len(t) + Len(r)
      /\ \A i \in 1..(Len(t) + Len(r)) : d[i] = IF i <= Len(t) THEN t[i] ELSE r[i - Len(t)]
  BY <1>1, <1>5, ConcatProperties DEF t
<1> HIDE DEF d
<1>7. ASSUME NEW i \in 1..Len(u) PROVE u[i] = d[i]
  <2>1. /\ u[i] = c[i + 1] /\ Len(u) = Len(s) + Len(r) - 1 /\ Len(t) = Len(s) - 1
        /\ \A j \in 1..Len(t) : t[j] = s[j + 1]
    BY <1>2, <1>4, <1>5 DEF u, t
  <2>2. CASE i <= Len(t)
    <3>1. i \in 1..Len(t) /\ i + 1 \in 1..(Len(s) + Len(r)) /\ i + 1 <= Len(s)
      BY <1>1, <2>1, <2>2
    <3> QED
      BY <1>2, <1>6, <2>1, <2>2, <3>1
  <2>3. CASE ~(i <= Len(t))
    <3>1. /\ i \in 1..(Len(t) + Len(r)) /\ i + 1 \in 1..(Len(s) + Len(r)) /\ ~(i + 1 <= Len(s))
          /\ (i + 1) - Len(s) = i - Len(t)
      BY <1>1, <2>1, <2>3
    <3> QED
      BY <1>2, <1>6, <2>1, <2>3, <3>1
  <2> QED
    BY <2>2, <2>3
<1>8. Len(u) = Len(d)
  BY <1>1, <1>2, <1>4, <1>5, <1>6 DEF u, t
<1>9. u = d
  BY <1>4, <1>6, <1>7, <1>8, SeqEqual DEF u
<1> QED
  BY <1>3, <1>9 DEF u, d, t, c

LEMMA ReceiveDelivers ==
  ASSUME Fits, IInv, Receive
  PROVE  Stream!StreamNext
<1>1. /\ C # <<>> /\ last' = Head(C) /\ C' = Tail(C)
      /\ wire' = wire /\ buf' = buf /\ at' = at /\ out' = out
  BY DEF Receive
<1> DEFINE k == Cut(buf \o wire)
           r == Sending \o k
<1>2. C \in Cuts /\ Sending \in Cuts /\ k \in Cuts
  BY FlightParts
<1>3. C' \in Cuts
  BY <1>1, <1>2, HeadTailProperties DEF Cuts
<1>4. InFlight = (C \o Sending) \o k /\ InFlight' = (C' \o Sending) \o k
  BY <1>1 DEF InFlight, Sending
<1> HIDE DEF k
<1>5. r \in Cuts /\ InFlight = C \o r /\ InFlight' = C' \o r
  <2>1. Sending \o k \in Cuts
    BY <1>2, CutsClosed
  <2>2. (C \o Sending) \o k = C \o (Sending \o k)
    BY <1>2, CutsAssociative
  <2>3. (C' \o Sending) \o k = C' \o (Sending \o k)
    BY <1>2, <1>3, CutsAssociative
  <2> QED
    BY <1>4, <2>1, <2>2, <2>3
<1> HIDE DEF r
<1>6. InFlight # <<>> /\ Head(InFlight) = last' /\ Tail(InFlight) = InFlight'
  BY <1>1, <1>2, <1>5, HeadOfFlight
<1>7. Stream!Deliver
  BY <1>6 DEF Stream!Deliver
<1> QED
  BY <1>7 DEF Stream!StreamNext

LEMMA InitEmpty == Init => Stream!StreamInit
<1> SUFFICES ASSUME Init PROVE Stream!StreamInit
  OBVIOUS
<1>1. C = <<>> /\ Sending = <<>> /\ buf \o wire = <<>> /\ last = <<>>
  BY DEF Init, Sending
<1>2. InFlight = <<>>
  BY <1>1, CutNothing, CutsEmpty DEF InFlight
<1> QED
  BY <1>1, <1>2 DEF Stream!StreamInit

LEMMA StepImplements ==
  ASSUME Fits, IInv, [Next]_vars
  PROVE  [Stream!StreamNext]_(Stream!streamVars)
<1>1. CASE PeerWrite \/ Receive
  BY <1>1, PeerWriteSends, ReceiveDelivers
<1>2. CASE Reading
  BY <1>2, ReadKeeps DEF Reading
<1>3. CASE Pull \/ SendPacket
  BY <1>3, PullKeeps, SendPacketKeeps
<1>4. CASE PullNothing
  <2>1. C' = C /\ last' = last /\ buf' \o wire' = buf \o wire /\ Sending' = Sending
    BY <1>4 DEF PullNothing, Sending
  <2> QED
    BY <2>1, FlightSame
<1>5. CASE UNCHANGED vars
  <2>1. C' = C /\ last' = last /\ buf' \o wire' = buf \o wire /\ Sending' = Sending
    BY <1>5 DEF vars, Sending
  <2> QED
    BY <2>1, FlightSame
<1> QED
  BY <1>1, <1>2, <1>3, <1>4, <1>5 DEF Next

\* Under the same condition the handlers take from C the packets that were
\* written, each once and in their order, whatever the splits of the stream:
\* every step of push, pull and FrameWithReader is a packet sent, a packet
\* delivered, or nothing at all ("Data mismatch", packet_test.go:15).
THEOREM StreamImplemented == ASSUME Fits PROVE Spec => ImplementsStream
<1>1. Init => Stream!StreamInit
  BY InitEmpty
<1>2. IInv /\ [Next]_vars => [Stream!StreamNext]_(Stream!streamVars)
  BY StepImplements
<1> QED
  BY <1>1, <1>2, Inductive, PTL DEF Spec, ImplementsStream, Stream!StreamSpec
=============================================================================
