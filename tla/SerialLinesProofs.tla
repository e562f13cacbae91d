-------------------------- MODULE SerialLinesProofs --------------------------
(***************************************************************************)
(* Proofs about SerialLines, for bytes of any width, a ring of any size and *)
(* packets of any length.                                                  *)
(***************************************************************************)
EXTENDS SerialLines, SequenceTheorems, TLAPS

-----------------------------------------------------------------------------
(* Bytes, and the bits in the shift registers *)

LEMMA BitSeqs ==
  /\ \A s \in BitSeq : s \in Seq({0, 1}) /\ Len(s) \in 0 .. Width
  /\ \A s \in Seq({0, 1}) : Len(s) <= Width => s \in BitSeq
  /\ \A s \in Bytes : s \in Seq({0, 1}) /\ Len(s) = Width
<1> USE ConstantsAssumption
<1>1. \A s \in BitSeq : s \in Seq({0, 1}) /\ Len(s) \in 0 .. Width
  BY DEF BitSeq
<1>2. ASSUME NEW s \in Seq({0, 1}), Len(s) <= Width
      PROVE  s \in BitSeq
  <2>1. Len(s) \in 0 .. Width /\ s \in [1 .. Len(s) -> {0, 1}]
    BY <1>2, LenProperties
  <2> QED
    BY <2>1 DEF BitSeq
<1>3. \A s \in Bytes : s \in Seq({0, 1}) /\ Len(s) = Width
  BY DEF Bytes
<1> QED
  BY <1>1, <1>2, <1>3

LEMMA ByteKinds ==
  /\ First \in Bytes /\ Data \in Bytes /\ Single \in Bytes
  /\ First # Data /\ Single # Data /\ Single # First
<1> USE ConstantsAssumption
<1>1. \A i \in 1 .. Width : i % 2 \in {0, 1} /\ (i + 1) % 2 \in {0, 1}
  OBVIOUS
<1>2. First \in Bytes /\ Data \in Bytes /\ Single \in Bytes
  BY <1>1 DEF First, Data, Single, Bytes
<1>3. 1 \in 1 .. Width /\ 2 \in 1 .. Width
  OBVIOUS
<1>4. First[1] = 1 /\ First[2] = 0 /\ Data[1] = 0 /\ Single[1] = 1 /\ Single[2] = 1
  BY <1>3 DEF First, Data, Single
<1> QED
  BY <1>2, <1>4

LEMMA ByteNotEmpty ==
  ASSUME NEW b \in Bytes
  PROVE  b # <<>>
BY BitSeqs, ConstantsAssumption

-----------------------------------------------------------------------------
(* The ring *)

Rings == {r \in Seq(Bytes) : Len(r) <= RingSize}

\* The packet of n bytes at i is whole, and no longer than that.
At(r, i, n) ==
  /\ i + n - 1 <= Len(r)
  /\ \A j \in 1 .. n - 1 : r[i + j] = Data
  /\ i + n <= Len(r) => r[i + n] # Data

Whole(r) ==
  \A i \in DOMAIN r : r[i] = First => \E n \in Lengths \cup Replies : At(r, i, n)

LEMMA PacketType ==
  ASSUME NEW n \in Nat \ {0}
  PROVE  /\ Packet(n) \in Seq(Bytes) /\ Len(Packet(n)) = n
         /\ n = 1 => Packet(n)[1] = Single
         /\ n > 1 => Packet(n)[1] = First
         /\ \A i \in 2 .. n : Packet(n)[i] = Data
<1>1. CASE n = 1
  BY <1>1, ByteKinds DEF Packet
<1>2. CASE n > 1
  <2>1. Packet(n) = [i \in 1 .. n |-> IF i = 1 THEN First ELSE Data]
    BY <1>2 DEF Packet
  <2>2. Packet(n) \in [1 .. n -> Bytes]
    BY <2>1, ByteKinds
  <2>3. Packet(n) \in Seq(Bytes) /\ Len(Packet(n)) = n
    BY <2>2
  <2> QED
    BY <2>1, <2>3, <1>2
<1> QED
  BY <1>1, <1>2

LEMMA PutType ==
  ASSUME NEW r \in Rings, NEW b \in Seq(Bytes)
  PROVE  /\ Put(r, b) \in Rings
         /\ Len(Put(r, b)) = IF Len(r) + Len(b) <= RingSize THEN Len(r) + Len(b) ELSE RingSize
         /\ \A i \in 1 .. Len(Put(r, b)) :
              Put(r, b)[i] = IF i <= Len(r) THEN r[i] ELSE b[i - Len(r)]
<1> USE ConstantsAssumption
<1> DEFINE all == r \o b
           n == IF Len(all) <= RingSize THEN Len(all) ELSE RingSize
<1>1. /\ all \in Seq(Bytes) /\ Len(all) = Len(r) + Len(b)
      /\ \A i \in 1 .. Len(all) : all[i] = IF i <= Len(r) THEN r[i] ELSE b[i - Len(r)]
  BY ConcatProperties DEF Rings
<1>2. Put(r, b) = SubSeq(all, 1, n)
  BY DEF Put
<1> HIDE DEF all
<1>3. n \in Nat /\ n <= Len(all) /\ n <= RingSize
  BY <1>1, LenProperties
<1>4. \A i \in 1 .. n : all[i] \in Bytes
  BY <1>1, <1>3, ElementOfSeq
<1> HIDE DEF n
<1>5. /\ SubSeq(all, 1, n) \in Seq(Bytes)
      /\ Len(SubSeq(all, 1, n)) = n
      /\ \A i \in 1 .. n : SubSeq(all, 1, n)[i] = all[i]
  <2>1. /\ SubSeq(all, 1, n) \in Seq(Bytes)
        /\ Len(SubSeq(all, 1, n)) = IF 1 <= n THEN n - 1 + 1 ELSE 0
        /\ \A i \in 1 .. n - 1 + 1 : SubSeq(all, 1, n)[i] = all[1 + i - 1]
    BY <1>3, <1>4, SubSeqProperties
  <2> QED
    BY <2>1, <1>3
<1>6. n = IF Len(r) + Len(b) <= RingSize THEN Len(r) + Len(b) ELSE RingSize
  BY <1>1 DEF n
<1>7. \A i \in 1 .. n : all[i] = IF i <= Len(r) THEN r[i] ELSE b[i - Len(r)]
  BY <1>1, <1>3
<1> QED
  BY <1>2, <1>3, <1>5, <1>6, <1>7 DEF Rings

\* What follows a packet does not cut it, nor make it longer.
LEMMA ExtendAt ==
  ASSUME NEW r \in Rings, NEW p \in Rings, Len(r) <= Len(p),
         \A i \in 1 .. Len(r) : p[i] = r[i],
         Len(r) < Len(p) => p[Len(r) + 1] # Data,
         NEW i \in 1 .. Len(r), NEW n \in Nat \ {0}, At(r, i, n)
  PROVE  At(p, i, n)
<1>1. Len(r) \in Nat /\ Len(p) \in Nat
  BY LenProperties DEF Rings
<1>2. i + n - 1 <= Len(p)
  BY <1>1 DEF At
<1>3. ASSUME NEW j \in 1 .. n - 1
      PROVE  p[i + j] = Data
  <2>1. i + j \in 1 .. Len(r)
    BY <1>1 DEF At
  <2> QED
    BY <2>1 DEF At
<1>4. ASSUME i + n <= Len(p)
      PROVE  p[i + n] # Data
  <2>1. i + n <= Len(r) + 1
    BY <1>1 DEF At
  <2>2. CASE i + n <= Len(r)
    <3>1. i + n \in 1 .. Len(r) /\ r[i + n] # Data
      BY <2>2, <1>1 DEF At
    <3> QED
      BY <3>1
  <2>3. CASE i + n = Len(r) + 1
    BY <2>3, <1>1, <1>4
  <2> QED
    BY <2>1, <2>2, <2>3, <1>1
<1> QED
  BY <1>2, <1>3, <1>4 DEF At

\* Bytes that are alone cut no packet.
LEMMA PutSingles ==
  ASSUME NEW r \in Rings, Whole(r), NEW b \in Seq({Single})
  PROVE  Put(r, b) \in Rings /\ Whole(Put(r, b))
<1> USE ConstantsAssumption
<1> DEFINE p == Put(r, b)
<1>1. b \in Seq(Bytes) /\ \A i \in 1 .. Len(b) : b[i] = Single
  BY ByteKinds, SeqMonotonic, ElementOfSeq
<1>2. /\ p \in Rings
      /\ Len(p) = IF Len(r) + Len(b) <= RingSize THEN Len(r) + Len(b) ELSE RingSize
      /\ \A i \in 1 .. Len(p) : p[i] = IF i <= Len(r) THEN r[i] ELSE b[i - Len(r)]
  BY <1>1, PutType
<1> HIDE DEF p
<1>3. Len(r) \in Nat /\ Len(b) \in Nat /\ Len(p) \in Nat /\ Len(r) <= Len(p) /\ Len(p) <= Len(r) + Len(b)
  BY <1>1, <1>2, LenProperties DEF Rings
<1>4. DOMAIN p = 1 .. Len(p) /\ DOMAIN r = 1 .. Len(r)
  BY <1>2, LenProperties DEF Rings
<1>5. \A i \in 1 .. Len(r) : p[i] = r[i]
  BY <1>2, <1>3
<1>6. \A i \in 1 .. Len(p) : i > Len(r) => p[i] = Single
  BY <1>1, <1>2, <1>3
<1>7. Len(r) < Len(p) => p[Len(r) + 1] # Data
  BY <1>3, <1>6, ByteKinds
<1>8. ASSUME NEW i \in 1 .. Len(p), p[i] = First
      PROVE  \E n \in Lengths \cup Replies : At(p, i, n)
  <2>1. i \in 1 .. Len(r) /\ r[i] = First
    BY <1>3, <1>5, <1>6, <1>8, ByteKinds
  <2>2. PICK n \in Lengths \cup Replies : At(r, i, n)
    BY <2>1, <1>4 DEF Whole
  <2>3. n \in Nat \ {0}
    OBVIOUS
  <2>4. At(p, i, n)
    BY <1>2, <1>3, <1>5, <1>7, <2>1, <2>2, <2>3, ExtendAt
  <2> QED
    BY <2>4
<1>9. Whole(p)
  BY <1>4, <1>8 DEF Whole
<1> QED
  BY <1>2, <1>9 DEF p

\* A packet is put as a whole, or not at all.
LEMMA SendWhole ==
  ASSUME NEW r \in Rings, Whole(r), NEW n \in Lengths \cup Replies \cup {0, 1}
  PROVE  Send(r, n) \in Rings /\ Whole(Send(r, n))
<1> USE ConstantsAssumption
<1>1. CASE ~(n > 0 /\ HasRoom(r, n))
  BY <1>1 DEF Send
<1>2. CASE n > 0 /\ HasRoom(r, n)
  <2> DEFINE b == Packet(n)
             p == Put(r, b)
  <2>n. n \in Nat \ {0}
    BY <1>2
  <2>1. /\ b \in Seq(Bytes) /\ Len(b) = n
        /\ n = 1 => b[1] = Single
        /\ n > 1 => b[1] = First
        /\ \A i \in 2 .. n : b[i] = Data
    BY <2>n, PacketType
  <2>2. /\ p \in Rings
        /\ Len(p) = IF Len(r) + Len(b) <= RingSize THEN Len(r) + Len(b) ELSE RingSize
        /\ \A i \in 1 .. Len(p) : p[i] = IF i <= Len(r) THEN r[i] ELSE b[i - Len(r)]
    <3> HIDE DEF b
    <3> QED
      BY <2>1, PutType
  <2>3. Send(r, n) = p
    BY <1>2 DEF Send
  <2> HIDE DEF p, b
  <2>4. Len(r) \in Nat /\ Len(p) = Len(r) + n
    BY <2>1, <2>2, <1>2, <2>n, LenProperties DEF Rings, HasRoom
  <2>5. DOMAIN p = 1 .. Len(p) /\ DOMAIN r = 1 .. Len(r)
    BY <2>2, LenProperties DEF Rings
  <2>6. \A i \in 1 .. Len(r) : p[i] = r[i]
    BY <2>2, <2>4
  <2>7. \A i \in 1 .. n : p[Len(r) + i] = b[i]
    BY <2>2, <2>4, <2>n
  <2>8. p[Len(r) + 1] # Data
    BY <2>1, <2>7, <2>n, ByteKinds
  <2>9. ASSUME NEW i \in 1 .. Len(p), p[i] = First
        PROVE  \E m \in Lengths \cup Replies : At(p, i, m)
    <3>1. CASE i <= Len(r)
      <4>1. i \in 1 .. Len(r) /\ r[i] = First
        BY <3>1, <2>4, <2>6, <2>9
      <4>2. PICK m \in Lengths \cup Replies : At(r, i, m)
        BY <4>1, <2>5 DEF Whole
      <4>3. At(p, i, m)
        BY <2>2, <2>4, <2>6, <2>8, <2>n, <4>1, <4>2, ExtendAt
      <4> QED
        BY <4>3
    <3>2. CASE i > Len(r)
      <4>1. PICK k \in 1 .. n : i = Len(r) + k
        <5>1. i - Len(r) \in 1 .. n
          BY <3>2, <2>4, <2>n
        <5> QED
          BY <5>1, <2>4
      <4>2. b[k] = First
        BY <4>1, <2>7, <2>9
      <4>3. k = 1 /\ n > 1
        BY <4>1, <4>2, <2>1, <2>n, ByteKinds
      <4>4. n \in Lengths \cup Replies
        BY <4>3
      <4>5. i + n - 1 <= Len(p) /\ ~(i + n <= Len(p))
        BY <4>1, <4>3, <2>4, <2>n
      <4>6. ASSUME NEW j \in 1 .. n - 1
            PROVE  p[i + j] = Data
        <5>1. 1 + j \in 2 .. n /\ i + j = Len(r) + (1 + j)
          BY <4>1, <4>3, <2>4, <2>n
        <5>2. p[Len(r) + (1 + j)] = b[1 + j]
          BY <5>1, <2>7, <2>n
        <5> QED
          BY <5>1, <5>2, <2>1
      <4>7. At(p, i, n)
        BY <4>5, <4>6 DEF At
      <4> QED
        BY <4>4, <4>7
    <3> QED
      BY <3>1, <3>2, <2>4
  <2>10. Whole(p)
    BY <2>5, <2>9 DEF Whole
  <2> QED
    BY <2>2, <2>3, <2>10
<1> QED
  BY <1>1, <1>2

\* The transmitter takes the first byte.
LEMMA TailWhole ==
  ASSUME NEW r \in Rings, Whole(r), r # <<>>
  PROVE  Tail(r) \in Rings /\ Whole(Tail(r)) /\ r[1] \in Bytes
<1> USE ConstantsAssumption
<1> DEFINE t == Tail(r)
<1>1. /\ t \in Seq(Bytes) /\ Len(t) = Len(r) - 1 /\ Len(r) \in Nat /\ Len(r) # 0
      /\ \A i \in 1 .. Len(t) : t[i] = r[i + 1]
  BY HeadTailProperties, LenProperties, EmptySeq DEF Rings
<1> HIDE DEF t
<1>2. DOMAIN t = 1 .. Len(t) /\ DOMAIN r = 1 .. Len(r)
  BY <1>1, LenProperties DEF Rings
<1>3. t \in Rings /\ r[1] \in Bytes
  BY <1>1, ElementOfSeq DEF Rings
<1>4. ASSUME NEW i \in 1 .. Len(t), t[i] = First
      PROVE  \E n \in Lengths \cup Replies : At(t, i, n)
  <2>1. i + 1 \in 1 .. Len(r) /\ r[i + 1] = First
    BY <1>1, <1>4
  <2>2. PICK n \in Lengths \cup Replies : At(r, i + 1, n)
    BY <2>1, <1>2 DEF Whole
  <2>3. n \in Nat \ {0}
    OBVIOUS
  <2>4. i + n - 1 <= Len(t)
    BY <2>2, <2>3, <1>1 DEF At
  <2>5. ASSUME NEW j \in 1 .. n - 1
        PROVE  t[i + j] = Data
    <3>1. i + j \in 1 .. Len(t) /\ i + 1 + j = (i + j) + 1
      BY <2>3, <2>4, <1>1
    <3>2. r[i + 1 + j] = Data
      BY <2>2 DEF At
    <3> QED
      BY <3>1, <3>2, <1>1
  <2>6. ASSUME i + n <= Len(t)
        PROVE  t[i + n] # Data
    <3>1. i + n \in 1 .. Len(t) /\ i + 1 + n = (i + n) + 1 /\ i + 1 + n <= Len(r)
      BY <2>3, <2>6, <1>1
    <3>2. r[i + 1 + n] # Data
      BY <3>1, <2>2 DEF At
    <3> QED
      BY <3>1, <3>2, <1>1
  <2> QED
    BY <2>4, <2>5, <2>6 DEF At
<1>5. Whole(t)
  BY <1>2, <1>4 DEF Whole
<1> QED
  BY <1>3, <1>5 DEF t

-----------------------------------------------------------------------------
(* The invariant *)

Acias ==
  [rie : BOOLEAN, tie : BOOLEAN, clocked : BOOLEAN, rdrf : BOOLEAN, ovrn : BOOLEAN,
   tdre : BOOLEAN, irq : BOOLEAN, line : {0, 1}, first : BOOLEAN, srRead : BOOLEAN,
   overrun : BOOLEAN,
   rx : {"idle", "data", "stop"}, rsr : BitSeq]

Scis == [tx : {"idle", "data", "stop"}, tdr : Bytes \cup {<<>>}, tsr : BitSeq, delay : Nat]

Kbs == [ring : Seq(Bytes), paused : BOOLEAN, critical : BOOLEAN]

Midis == [rie : BOOLEAN, rdrf : BOOLEAN, irq : BOOLEAN, line : {0, 1}]

RxFits(a) ==
  /\ a.rx = "data" => Len(a.rsr) < Width
  /\ a.rx = "stop" => Len(a.rsr) = Width
  /\ a.rx = "idle" => a.rsr = <<>>

TxFits(s) ==
  /\ s.tx = "data" => s.tsr # <<>>
  /\ s.tdr = <<>> <=> s.tx = "idle"

KbFits(k) == k \in Kbs /\ k.ring \in Rings /\ Whole(k.ring)

LineOf(m) == m.line = 0 <=> m.irq

\* The line of the ACIA of the keyboard may be low before a master reset.
AciaLine(a) ==
  /\ a.irq => a.line = 0
  /\ a.line = 0 => a.irq \/ a.first

SameLine(a, b) == a.irq = b.irq /\ a.line = b.line /\ a.first = b.first

\* The bits received and those to send are together the byte.
Together(a, s) ==
  /\ a.rx = s.tx
  /\ a.rx # "idle" =>
       /\ Len(a.rsr) + Len(s.tsr) = Width
       /\ \A i \in 1 .. Len(a.rsr) : a.rsr[i] = s.tdr[i]
       /\ \A i \in 1 .. Len(s.tsr) : s.tsr[i] = s.tdr[Len(a.rsr) + i]

\* An overrun in SR that the program is yet to read was not there when it last
\* read SR.
Told(a, l) == l => a.overrun \/ (a.ovrn /\ ~a.srRead)

IrqInv ==
  /\ acia.irq <=> Requests(acia)
  /\ AciaLine(acia)
  /\ midi.irq <=> MidiRequests(midi)
  /\ LineOf(midi)
  /\ stale \/ gpip = GpipOf(acia.line, midi.line)

TypeInv ==
  /\ acia \in Acias /\ RxFits(acia)
  /\ sci \in Scis /\ TxFits(sci)
  /\ KbFits(kb)
  /\ midi \in Midis
  /\ gpip \in {0, 1} /\ stale \in BOOLEAN /\ cut \in BOOLEAN /\ lost \in BOOLEAN

IInv ==
  /\ TypeInv
  /\ IrqInv
  /\ Told(acia, lost)
  /\ cut \/ Together(acia, sci)

-----------------------------------------------------------------------------
\* ACIA_UpdateIRQ leaves the flags alone, and the line right if it moved with
\* the flag until now.
LEMMA UpdateIRQFits ==
  ASSUME NEW a \in Acias, AciaLine(a)
  PROVE  /\ UpdateIRQ(a) \in Acias /\ AciaLine(UpdateIRQ(a))
         /\ UpdateIRQ(a).irq <=> Requests(UpdateIRQ(a))
         /\ UpdateIRQ(a).irq = a.irq => UpdateIRQ(a).line = a.line
         /\ UpdateIRQ(a).rx = a.rx /\ UpdateIRQ(a).rsr = a.rsr
         /\ UpdateIRQ(a).rdrf = a.rdrf /\ UpdateIRQ(a).ovrn = a.ovrn
         /\ UpdateIRQ(a).overrun = a.overrun /\ UpdateIRQ(a).srRead = a.srRead
<1> DEFINE new == Requests(a)
           l == IF new = a.irq THEN a.line ELSE IF new THEN 0 ELSE 1
           u == [a EXCEPT !.irq = new, !.line = l]
<1>1. new \in BOOLEAN /\ a.irq \in BOOLEAN /\ a.line \in {0, 1}
  BY DEF Requests, Acias
<1>2. l \in {0, 1}
  BY <1>1
<1>3. UpdateIRQ(a) = u
  BY DEF UpdateIRQ
<1>4. (new => l = 0) /\ (l = 0 => new \/ a.first) /\ (new = a.irq => l = a.line)
  BY <1>1 DEF AciaLine
<1>n. Requests(a) = new
  OBVIOUS
<1> HIDE DEF new, l
<1>5. u \in Acias
  BY <1>1, <1>2 DEF Acias
<1>6. /\ u.irq = new /\ u.line = l /\ u.rx = a.rx /\ u.rsr = a.rsr /\ u.rdrf = a.rdrf
      /\ u.ovrn = a.ovrn /\ u.overrun = a.overrun /\ u.srRead = a.srRead
      /\ u.rie = a.rie /\ u.tie = a.tie /\ u.tdre = a.tdre /\ u.first = a.first
  BY DEF Acias
<1>7. Requests(u) <=> Requests(a)
  <2> HIDE DEF u
  <2> QED
    BY <1>6 DEF Requests
<1> HIDE DEF u
<1> QED
  BY <1>1, <1>3, <1>4, <1>5, <1>6, <1>7, <1>n DEF AciaLine

\* The ACIA becomes UpdateIRQ(a): the line and GPIP 4 stay right.
LEMMA SetAciaFits ==
  ASSUME IInv, NEW a \in Acias, SameLine(a, acia), SetAcia(UpdateIRQ(a)), midi' = midi
  PROVE  /\ acia' \in Acias /\ IrqInv' /\ gpip' \in {0, 1} /\ stale' \in BOOLEAN
         /\ acia'.rx = a.rx /\ acia'.rsr = a.rsr /\ acia'.rdrf = a.rdrf
         /\ acia'.ovrn = a.ovrn /\ acia'.overrun = a.overrun /\ acia'.srRead = a.srRead
<1> DEFINE u == UpdateIRQ(a)
<1>1. acia' = u
  BY DEF SetAcia
<1>a. AciaLine(a) /\ a.irq = acia.irq /\ a.line = acia.line
  BY DEF IInv, IrqInv, AciaLine, SameLine
<1>2. /\ u \in Acias /\ AciaLine(u) /\ (u.irq <=> Requests(u))
      /\ u.irq = acia.irq => u.line = acia.line
      /\ u.rx = a.rx /\ u.rsr = a.rsr
      /\ u.rdrf = a.rdrf /\ u.ovrn = a.ovrn
      /\ u.overrun = a.overrun /\ u.srRead = a.srRead
  BY <1>a, UpdateIRQFits
<1>3. IF u.irq = acia.irq THEN gpip' = gpip /\ stale' = stale
      ELSE gpip' = GpipOf(u.line, midi.line) /\ stale' = FALSE
  BY DEF SetAcia
<1> HIDE DEF u
<1>4. /\ (acia'.irq <=> Requests(acia')) /\ AciaLine(acia')
      /\ (midi'.irq <=> MidiRequests(midi')) /\ LineOf(midi')
  BY <1>1, <1>2 DEF IInv, IrqInv
<1>5. stale' \/ gpip' = GpipOf(acia'.line, midi'.line)
  BY <1>1, <1>2, <1>3 DEF IInv, IrqInv
<1>6. gpip' \in {0, 1} /\ stale' \in BOOLEAN
  BY <1>3 DEF IInv, TypeInv, GpipOf
<1> QED
  BY <1>1, <1>2, <1>4, <1>5, <1>6 DEF IrqInv

LEMMA SetMidiFits ==
  ASSUME IInv, NEW m \in Midis, LineOf(m), m.line = midi.line, SetMidi(m)
  PROVE  IInv'
<1> DEFINE new == MidiRequests(m)
           l == IF new = m.irq THEN m.line ELSE IF new THEN 0 ELSE 1
           u == [m EXCEPT !.irq = new, !.line = l]
<1>1. new \in BOOLEAN /\ m.irq \in BOOLEAN /\ m.line \in {0, 1}
  BY DEF MidiRequests, Midis
<1>2. l \in {0, 1} /\ (l = 0 <=> new)
  BY <1>1 DEF LineOf
<1>3. /\ midi' = u /\ acia' = acia /\ sci' = sci /\ kb' = kb /\ cut' = cut /\ lost' = lost
      /\ IF new = m.irq THEN gpip' = gpip /\ stale' = stale
         ELSE gpip' = GpipOf(acia.line, u.line) /\ stale' = FALSE
  BY DEF SetMidi
<1>n. MidiRequests(m) = new
  OBVIOUS
<1>l. new = m.irq => l = m.line
  OBVIOUS
<1> HIDE DEF new, l
<1>4. /\ u \in Midis /\ u.irq = new /\ u.line = l
      /\ (MidiRequests(u) <=> MidiRequests(m))
  BY <1>1, <1>2 DEF Midis, MidiRequests
<1> HIDE DEF u
<1>5. /\ midi' \in Midis /\ LineOf(midi') /\ (midi'.irq <=> MidiRequests(midi'))
      /\ gpip' \in {0, 1} /\ stale' \in BOOLEAN
  <2>1. midi' \in Midis /\ LineOf(midi') /\ (midi'.irq <=> MidiRequests(midi'))
    BY <1>1, <1>2, <1>3, <1>4, <1>n DEF LineOf
  <2>2. gpip' \in {0, 1} /\ stale' \in BOOLEAN
    BY <1>3 DEF IInv, TypeInv, GpipOf
  <2> QED
    BY <2>1, <2>2
<1>6. stale' \/ gpip' = GpipOf(acia'.line, midi'.line)
  BY <1>3, <1>4, <1>l DEF IInv, IrqInv
<1>7. IrqInv'
  BY <1>3, <1>5, <1>6 DEF IInv, IrqInv
<1>8. TypeInv'
  BY <1>3, <1>5 DEF IInv, TypeInv
<1> QED
  BY <1>3, <1>7, <1>8 DEF IInv

\* An operation of the program on the ACIA of the keyboard that leaves its shift
\* register alone.
LEMMA ProgramAciaFits ==
  ASSUME IInv, NEW a \in Acias, SameLine(a, acia), a.rx = acia.rx, a.rsr = acia.rsr,
         SetAcia(UpdateIRQ(a)), UNCHANGED <<sci, kb, midi, cut, lost>>, Told(a, lost)
  PROVE  IInv'
<1>1. /\ acia' \in Acias /\ IrqInv' /\ gpip' \in {0, 1} /\ stale' \in BOOLEAN
      /\ acia'.rx = a.rx /\ acia'.rsr = a.rsr /\ acia'.rdrf = a.rdrf
      /\ acia'.ovrn = a.ovrn /\ acia'.overrun = a.overrun /\ acia'.srRead = a.srRead
  BY SetAciaFits
<1>2. RxFits(acia')
  BY <1>1 DEF IInv, TypeInv, RxFits
<1>3. TypeInv'
  BY <1>1, <1>2 DEF IInv, TypeInv
<1>4. Told(acia', lost')
  BY <1>1 DEF Told
<1>5. cut' \/ Together(acia', sci')
  BY <1>1 DEF IInv, Together
<1> QED
  BY <1>1, <1>3, <1>4, <1>5 DEF IInv

-----------------------------------------------------------------------------
(* The operations *)

LEMMA CommandFits ==
  ASSUME IInv, NEW k, KbFits(k), kb' = k,
         sci' = sci \/ \E d \in Nat : sci' = [sci EXCEPT !.delay = d],
         UNCHANGED <<acia, midi, gpip, stale, cut, lost>>
  PROVE  IInv'
<1>1. sci' \in Scis /\ sci'.tx = sci.tx /\ sci'.tdr = sci.tdr /\ sci'.tsr = sci.tsr
  BY DEF IInv, TypeInv, Scis
<1>2. TypeInv'
  BY <1>1 DEF IInv, TypeInv, TxFits
<1>3. IrqInv' /\ Told(acia', lost')
  BY DEF IInv, IrqInv
<1>4. cut' \/ Together(acia', sci')
  BY <1>1 DEF IInv, Together
<1> QED
  BY <1>2, <1>3, <1>4 DEF IInv

LEMMA KbRing ==
  ASSUME NEW k, KbFits(k), NEW r \in Rings, Whole(r)
  PROVE  KbFits([k EXCEPT !.ring = r])
BY DEF KbFits, Kbs, Rings

LEMMA SendAllWhole ==
  ASSUME NEW r \in Rings, Whole(r),
         NEW m \in Lengths \cup Replies \cup {0, 1}, NEW n \in Lengths \cup Replies \cup {0, 1}
  PROVE  SendAll(r, m, n) \in Rings /\ Whole(SendAll(r, m, n))
<1>1. Send(r, m) \in Rings /\ Whole(Send(r, m))
  BY SendWhole
<1>2. Send(Send(r, m), n) \in Rings /\ Whole(Send(Send(r, m), n))
  BY <1>1, SendWhole
<1> QED
  BY <1>2 DEF SendAll

\* A byte of the keyboard alone, or two of joystick monitoring.
LEMMA SinglesWhole ==
  ASSUME NEW r \in Rings, Whole(r)
  PROVE  /\ Put(r, Packet(1)) \in Rings /\ Whole(Put(r, Packet(1)))
         /\ Put(r, <<Single, Single>>) \in Rings /\ Whole(Put(r, <<Single, Single>>))
<1>1. Packet(1) \in Seq({Single}) /\ <<Single, Single>> \in Seq({Single})
  BY DEF Packet
<1> QED
  BY <1>1, PutSingles

LEMMA AutosWhole ==
  ASSUME NEW p \in Rings, Whole(p), NEW r \in Autos(p)
  PROVE  r \in Rings /\ Whole(r)
<1> USE ConstantsAssumption
<1>1. SendMonitoring(p) \in Rings /\ Whole(SendMonitoring(p))
  BY SinglesWhole DEF SendMonitoring
<1>2. \A m, n \in Lengths \cup Replies \cup {0, 1} :
        SendAll(p, m, n) \in Rings /\ Whole(SendAll(p, m, n))
  BY SendAllWhole
<1> QED
  BY <1>1, <1>2 DEF Autos

LEMMA ReadyFits ==
  ASSUME IInv
  PROVE  /\ KbFits(Ready) /\ Ready.ring = kb.ring
         /\ KbFits([Ready EXCEPT !.paused = ~kb.critical])
         /\ KbFits(BootRom)
<1>k. kb \in Kbs /\ kb.ring \in Rings /\ Whole(kb.ring)
  BY DEF IInv, TypeInv, KbFits
<1>1. Ready \in Kbs /\ Ready.ring = kb.ring
  BY <1>k DEF Ready, Kbs
<1> DEFINE p == [Ready EXCEPT !.paused = ~kb.critical]
<1>2. p \in Kbs /\ p.ring = kb.ring
  <2>1. (~kb.critical) \in BOOLEAN
    BY <1>k DEF Kbs
  <2> QED
    BY <1>1, <2>1 DEF Kbs
<1>3. BootRom \in Kbs /\ BootRom.ring = <<>>
  BY DEF BootRom, Kbs
<1>4. <<>> \in Rings /\ Whole(<<>>)
  BY ConstantsAssumption DEF Rings, Whole
<1> QED
  BY <1>k, <1>1, <1>2, <1>3, <1>4 DEF KbFits

LEMMA KeyboardStep ==
  ASSUME IInv, Keyboard \/ PressKey \/ AutoSend \/ ResetTimer
  PROVE  IInv'
<1> USE ConstantsAssumption
<1>k. KbFits(kb) /\ kb.ring \in Rings /\ Whole(kb.ring)
  BY DEF IInv, TypeInv, KbFits
<1>1. CASE Cmd_StartKeyboardTransfer
  BY <1>1, ReadyFits, CommandFits DEF Cmd_StartKeyboardTransfer, Command
<1>2. CASE Cmd_StopKeyboardTransfer
  BY <1>2, ReadyFits, CommandFits DEF Cmd_StopKeyboardTransfer, Command
<1>3. CASE Cmd_Reset
  BY <1>3, ReadyFits, CommandFits DEF Cmd_Reset, Command
<1>4. CASE Cmd_ReturnJoystickAuto
  <2>1. PICK n \in Lengths : Command([Ready EXCEPT !.ring = SendAll(@, n, 0)], sci)
    BY <1>4 DEF Cmd_ReturnJoystickAuto
  <2> DEFINE r == SendAll(kb.ring, n, 0)
  <2>2. r \in Rings /\ Whole(r)
    BY <1>k, SendAllWhole
  <2>3. kb' = [Ready EXCEPT !.ring = r]
    BY <2>1, ReadyFits DEF Command
  <2> HIDE DEF r
  <2>4. KbFits(kb')
    BY <2>2, <2>3, ReadyFits, KbRing
  <2> QED
    BY <2>1, <2>4, CommandFits DEF Command
<1>5. ASSUME NEW n \in Replies, NEW d \in Delays \ {0}, Cmd_Return(n, d)
      PROVE  IInv'
  <2>1. CASE Answers(n)
    <3> DEFINE r == Send(kb.ring, n)
    <3>1. r \in Rings /\ Whole(r)
      BY <1>k, SendWhole
    <3>2. kb' = [Ready EXCEPT !.ring = r] /\ sci' = [sci EXCEPT !.delay = d]
      BY <1>5, <2>1, ReadyFits DEF Cmd_Return, Command
    <3> HIDE DEF r
    <3>3. KbFits(kb')
      BY <3>1, <3>2, ReadyFits, KbRing
    <3>4. UNCHANGED <<acia, midi, gpip, stale, cut, lost>>
      BY <1>5, <2>1 DEF Cmd_Return, Command
    <3> QED
      BY <3>2, <3>3, <3>4, CommandFits
  <2>2. CASE ~Answers(n)
    BY <1>5, <2>2, ReadyFits, CommandFits DEF Cmd_Return, Command
  <2> QED
    BY <2>1, <2>2
<1>6. CASE PressKey
  <2> DEFINE r == SendAll(kb.ring, 1, 0)
  <2>1. r \in Rings /\ Whole(r)
    BY <1>k, SendAllWhole
  <2>2. kb' = [kb EXCEPT !.ring = r]
    BY <1>6 DEF PressKey
  <2> HIDE DEF r
  <2>3. KbFits(kb')
    BY <1>k, <2>1, <2>2, KbRing
  <2> QED
    BY <1>6, <2>3, CommandFits DEF PressKey
<1>7. CASE AutoSend
  <2>1. ASSUME NEW p \in Rings, Whole(p), NEW r \in Autos(p), kb' = [kb EXCEPT !.ring = r],
               sci' = sci \/ \E d \in Nat : sci' = [sci EXCEPT !.delay = d]
        PROVE  IInv'
    <3>1. KbFits(kb')
      BY <1>k, <2>1, AutosWhole, KbRing
    <3>2. UNCHANGED <<acia, midi, gpip, stale, cut, lost>>
      BY <1>7 DEF AutoSend
    <3> QED
      BY <2>1, <3>1, <3>2, CommandFits
  <2>2. CASE UNCHANGED sci /\ \E r \in Autos(kb.ring) : kb' = [kb EXCEPT !.ring = r]
    BY <1>k, <2>1, <2>2
  <2>3. ASSUME NEW n \in Replies, NEW d \in Delays \ {0}, sci' = [sci EXCEPT !.delay = d],
               \E r \in Autos(Send(kb.ring, n)) : kb' = [kb EXCEPT !.ring = r]
        PROVE  IInv'
    <3>1. Send(kb.ring, n) \in Rings /\ Whole(Send(kb.ring, n))
      BY <1>k, SendWhole
    <3>2. \E e \in Nat : sci' = [sci EXCEPT !.delay = e]
      BY <2>3
    <3> QED
      BY <2>1, <2>3, <3>1, <3>2
  <2> QED
    BY <1>7, <2>2, <2>3 DEF AutoSend
<1>8. CASE ResetTimer
  <2>1. PICK d \in Delays \cup {sci.delay} :
          /\ kb' = [kb EXCEPT !.critical = FALSE,
                              !.ring = IF acia.clocked THEN Put(@, Packet(1)) ELSE @]
          /\ sci' = [sci EXCEPT !.delay = IF acia.clocked THEN d ELSE @]
    BY <1>8 DEF ResetTimer
  <2> DEFINE r == IF acia.clocked THEN Put(kb.ring, Packet(1)) ELSE kb.ring
             e == IF acia.clocked THEN d ELSE sci.delay
  <2>2. r \in Rings /\ Whole(r)
    BY <1>k, SinglesWhole
  <2>3. e \in Nat
    BY DEF IInv, TypeInv, Scis
  <2>4. kb' = [kb EXCEPT !.critical = FALSE, !.ring = r] /\ sci' = [sci EXCEPT !.delay = e]
    BY <2>1
  <2> HIDE DEF r, e
  <2>5. KbFits(kb')
    BY <1>k, <2>2, <2>4 DEF KbFits, Kbs, Rings
  <2> QED
    BY <1>8, <2>3, <2>4, <2>5, CommandFits DEF ResetTimer
<1> QED
  BY <1>1, <1>2, <1>3, <1>4, <1>5, <1>6, <1>7, <1>8 DEF Keyboard

\* A reset of the devices; the line of MIDI is what it was, or up.
LEMMA ResetFits ==
  ASSUME IInv, ResetDevices, midi' \in {midi, MidiAfterReset}
  PROVE  IInv'
<1>1. /\ sci' = [sci EXCEPT !.tx = "idle", !.tdr = <<>>, !.tsr = <<>>, !.delay = 0]
      /\ kb' = BootRom /\ gpip' = 0 /\ stale' = TRUE
      /\ cut' = (cut \/ Busy) /\ UNCHANGED <<acia, lost>>
  BY DEF ResetDevices
<1>2. <<>> \in BitSeq
  <2>1. <<>> \in Seq({0, 1}) /\ Len(<<>>) <= Width
    BY ConstantsAssumption
  <2> QED
    BY <2>1, BitSeqs
<1>3. sci' \in Scis /\ sci'.tx = "idle" /\ sci'.tdr = <<>>
  BY <1>1, <1>2 DEF IInv, TypeInv, Scis
<1>4. /\ midi' \in Midis /\ LineOf(midi') /\ (midi'.irq <=> MidiRequests(midi'))
  <2>1. CASE midi' = midi
    BY <2>1 DEF IInv, TypeInv, IrqInv
  <2>2. CASE midi' = MidiAfterReset
    BY <2>2 DEF MidiAfterReset, Midis, LineOf, MidiRequests
  <2> QED
    BY <2>1, <2>2
<1>5. KbFits(kb')
  BY <1>1, ReadyFits
<1>6. TypeInv'
  BY <1>1, <1>3, <1>4, <1>5 DEF IInv, TypeInv, TxFits
<1>7. IrqInv' /\ Told(acia', lost')
  BY <1>1, <1>4 DEF IInv, IrqInv
<1>8. cut' \/ Together(acia', sci')
  BY <1>1, <1>3 DEF Busy, Together
<1> QED
  BY <1>6, <1>7, <1>8 DEF IInv

LEMMA HostStep ==
  ASSUME IInv, Midi_Reset \/ Reset_ST \/ CustomReset \/ Midi_Update
  PROVE  IInv'
<1>m. midi \in Midis /\ LineOf(midi)
  BY DEF IInv, TypeInv, IrqInv
<1>1. CASE Midi_Reset
  <2>1. /\ midi' = MidiAfterReset /\ stale' = (stale \/ midi.line = 0)
        /\ UNCHANGED <<acia, sci, kb, gpip, cut, lost>>
    BY <1>1 DEF Midi_Reset
  <2>2. /\ midi' \in Midis /\ LineOf(midi') /\ (midi'.irq <=> MidiRequests(midi'))
        /\ midi'.line = 1
    BY <2>1 DEF MidiAfterReset, Midis, LineOf, MidiRequests
  <2>3. stale' \in BOOLEAN
    BY <2>1
  <2>4. TypeInv'
    BY <2>1, <2>2, <2>3 DEF IInv, TypeInv
  <2>5. stale' \/ gpip' = GpipOf(acia'.line, midi'.line)
    BY <2>1, <2>2, <1>m DEF IInv, IrqInv, GpipOf, Midis
  <2>6. IrqInv'
    BY <2>1, <2>2, <2>5 DEF IInv, IrqInv
  <2> QED
    BY <2>1, <2>4, <2>6 DEF IInv
<1>2. CASE Reset_ST \/ CustomReset
  BY <1>2, ResetFits DEF Reset_ST, CustomReset
<1>3. CASE Midi_Update
  <2> DEFINE m == [midi EXCEPT !.rdrf = TRUE]
  <2>1. m \in Midis /\ m.irq = midi.irq /\ m.line = midi.line
    BY <1>m DEF Midis
  <2>2. SetMidi(m)
    BY <1>3 DEF Midi_Update
  <2> HIDE DEF m
  <2> QED
    BY <2>1, <2>2, <1>m, SetMidiFits DEF LineOf
<1> QED
  BY <1>1, <1>2, <1>3

\* The program: a word to a control register, a read or a write.
LEMMA ProgramStep ==
  ASSUME IInv, Program
  PROVE  IInv'
<1> USE ConstantsAssumption
<1>a. acia \in Acias /\ AciaLine(acia) /\ Told(acia, lost) /\ RxFits(acia)
  BY DEF IInv, TypeInv, IrqInv
<1>m. midi \in Midis /\ LineOf(midi)
  BY DEF IInv, TypeInv, IrqInv
<1>1. ASSUME NEW c \in Controls, Write_CR(c)
      PROVE  IInv'
  <2> DEFINE r == c \in {"rx", "both"}
             t == c \in {"tx", "both"}
             a == [acia EXCEPT !.rie = r, !.tie = t, !.clocked = TRUE]
  <2>1. SetAcia(UpdateIRQ(a)) /\ UNCHANGED <<sci, kb, midi, cut, lost>>
    BY <1>1 DEF Write_CR
  <2>2. r \in BOOLEAN /\ t \in BOOLEAN
    OBVIOUS
  <2> HIDE DEF r, t
  <2>3. a \in Acias
    BY <2>2, <1>a DEF Acias
  <2>4. /\ a.rx = acia.rx /\ a.rsr = acia.rsr /\ SameLine(a, acia)
        /\ a.overrun = acia.overrun /\ a.ovrn = acia.ovrn /\ a.srRead = acia.srRead
    BY <1>a DEF Acias, SameLine
  <2> HIDE DEF a
  <2> QED
    BY <2>1, <2>3, <2>4, <1>a, ProgramAciaFits DEF Told
<1>2. ASSUME NEW c \in Controls, Write_CR_Reset(c)
      PROVE  IInv'
  <2> DEFINE r == c \in {"rx", "both"}
             t == c \in {"tx", "both"}
             a == [MasterReset EXCEPT !.rie = r, !.tie = t]
             u == UpdateIRQ(a)
  <2>1. /\ acia' = u /\ gpip' = GpipOf(u.line, midi.line) /\ stale' = FALSE
        /\ cut' = (cut \/ Busy) /\ lost' = FALSE
        /\ UNCHANGED <<sci, kb, midi>>
    BY <1>2 DEF Write_CR_Reset
  <2>2. r \in BOOLEAN /\ t \in BOOLEAN /\ <<>> \in BitSeq
    <3>1. <<>> \in Seq({0, 1}) /\ Len(<<>>) <= Width
      OBVIOUS
    <3>2. <<>> \in BitSeq
      BY <3>1, BitSeqs
    <3>3. r \in BOOLEAN /\ t \in BOOLEAN
      OBVIOUS
    <3> QED
      BY <3>2, <3>3
  <2> HIDE DEF r, t
  <2>3. MasterReset \in Acias
    BY <2>2, <1>a DEF Acias, MasterReset
  <2>4. /\ MasterReset.rx = "idle" /\ MasterReset.rsr = <<>> /\ ~MasterReset.irq
        /\ MasterReset.line = 1
    BY <2>2, <1>a DEF Acias, MasterReset
  <2>5. a \in Acias
    BY <2>2, <2>3 DEF Acias
  <2>6. a.rx = "idle" /\ a.rsr = <<>> /\ ~a.irq /\ a.line = 1
    BY <2>3, <2>4 DEF Acias
  <2> HIDE DEF a
  <2>7. /\ u \in Acias /\ AciaLine(u) /\ (u.irq <=> Requests(u)) /\ u.rx = "idle" /\ u.rsr = <<>>
    BY <2>5, <2>6, UpdateIRQFits DEF AciaLine
  <2> HIDE DEF u
  <2>8. TypeInv'
    BY <2>1, <2>7 DEF IInv, TypeInv, RxFits, GpipOf
  <2>9. IrqInv'
    BY <2>1, <2>7 DEF IInv, IrqInv
  <2>10. cut' \/ Together(acia', sci')
    BY <2>1, <2>7 DEF Busy, Together
  <2>11. Told(acia', lost')
    BY <2>1 DEF Told
  <2> QED
    BY <2>8, <2>9, <2>10, <2>11 DEF IInv
<1>3. CASE Read_SR
  <2>1. /\ acia' = [acia EXCEPT !.srRead = TRUE] /\ lost' = (lost /\ ~acia.ovrn)
        /\ UNCHANGED <<sci, kb, midi, gpip, stale, cut>>
    BY <1>3 DEF Read_SR
  <2>2. acia' \in Acias
    BY <2>1, <1>a DEF Acias
  <2>3. /\ acia'.rx = acia.rx /\ acia'.rsr = acia.rsr /\ acia'.irq = acia.irq
        /\ acia'.line = acia.line /\ acia'.first = acia.first /\ acia'.overrun = acia.overrun /\ acia'.ovrn = acia.ovrn
        /\ acia'.rie = acia.rie /\ acia'.tie = acia.tie /\ acia'.rdrf = acia.rdrf
        /\ acia'.tdre = acia.tdre
    BY <2>1, <1>a DEF Acias
  <2>4. lost' \in BOOLEAN
    BY <2>1
  <2>5. TypeInv'
    BY <2>1, <2>2, <2>3, <2>4 DEF IInv, TypeInv, RxFits
  <2>6. IrqInv'
    BY <2>1, <2>3 DEF IInv, IrqInv, AciaLine, Requests
  <2>7. Told(acia', lost')
    BY <2>1, <2>3, <1>a DEF Told
  <2>8. cut' \/ Together(acia', sci')
    BY <2>1, <2>3 DEF IInv, Together
  <2> QED
    BY <2>5, <2>6, <2>7, <2>8 DEF IInv
<1>4. CASE Read_RDR
  <2> DEFINE o == (acia.ovrn /\ ~acia.srRead) \/ acia.overrun
             a == [acia EXCEPT !.rdrf = FALSE, !.srRead = FALSE, !.overrun = FALSE, !.ovrn = o]
  <2>1. SetAcia(UpdateIRQ(a)) /\ UNCHANGED <<sci, kb, midi, cut, lost>>
    BY <1>4 DEF Read_RDR
  <2>2. o \in BOOLEAN /\ (lost => o)
    BY <1>a DEF Told
  <2> HIDE DEF o
  <2>3. a \in Acias
    BY <2>2, <1>a DEF Acias
  <2>4. /\ a.rx = acia.rx /\ a.rsr = acia.rsr /\ SameLine(a, acia)
        /\ a.ovrn = o /\ a.srRead = FALSE
    BY <1>a DEF Acias, SameLine
  <2>5. Told(a, lost)
    BY <2>2, <2>4 DEF Told
  <2> HIDE DEF a
  <2> QED
    BY <2>1, <2>3, <2>4, <2>5, <1>a, ProgramAciaFits
<1>5. CASE Write_TDR
  <2> DEFINE a == [acia EXCEPT !.tdre = FALSE]
  <2>1. SetAcia(UpdateIRQ(a)) /\ UNCHANGED <<sci, kb, midi, cut, lost>>
    BY <1>5 DEF Write_TDR
  <2>2. a \in Acias
    BY <1>a DEF Acias
  <2>3. /\ a.rx = acia.rx /\ a.rsr = acia.rsr /\ SameLine(a, acia)
        /\ a.overrun = acia.overrun /\ a.ovrn = acia.ovrn /\ a.srRead = acia.srRead
    BY <1>a DEF Acias, SameLine
  <2> HIDE DEF a
  <2> QED
    BY <2>1, <2>2, <2>3, <1>a, ProgramAciaFits DEF Told
<1>6. CASE Midi_Control_Write
  <2>1. PICK rie \in BOOLEAN : SetMidi([midi EXCEPT !.rie = rie])
    BY <1>6 DEF Midi_Control_Write
  <2> DEFINE m == [midi EXCEPT !.rie = rie]
  <2>2. m \in Midis /\ m.irq = midi.irq /\ m.line = midi.line
    BY <1>m DEF Midis
  <2>3. SetMidi(m)
    BY <2>1
  <2> HIDE DEF m
  <2> QED
    BY <2>2, <2>3, <1>m, SetMidiFits DEF LineOf
<1>7. CASE Midi_Data_Read
  <2> DEFINE m == [midi EXCEPT !.rdrf = FALSE]
  <2>1. m \in Midis /\ m.irq = midi.irq /\ m.line = midi.line
    BY <1>m DEF Midis
  <2>2. SetMidi(m)
    BY <1>7 DEF Midi_Data_Read
  <2> HIDE DEF m
  <2> QED
    BY <2>1, <2>2, <1>m, SetMidiFits DEF LineOf
<1>8. CASE Read_GPIP
  <2>1. /\ gpip' = GpipOf(acia.line, midi.line) /\ stale' = FALSE
        /\ UNCHANGED <<acia, sci, kb, midi, cut, lost>>
    BY <1>8 DEF Read_GPIP
  <2>2. TypeInv'
    BY <2>1 DEF IInv, TypeInv, GpipOf
  <2>3. IrqInv'
    BY <2>1 DEF IInv, IrqInv
  <2> QED
    BY <2>1, <2>2, <2>3 DEF IInv
<1>9. CASE CustomReset
  BY <1>9, HostStep
<1> QED
  BY <1>1, <1>2, <1>3, <1>4, <1>5, <1>6, <1>7, <1>8, <1>9 DEF Program

-----------------------------------------------------------------------------
(* The clock *)

\* A byte of the ring goes into TSR, then its bits leave one by one.
LEMMA ClockSciFits ==
  ASSUME IInv
  PROVE  /\ ClockSci \in Scis /\ TxFits(ClockSci)
         /\ KbFits(IF MayLoad THEN [kb EXCEPT !.ring = Tail(@)] ELSE kb)
<1> USE ConstantsAssumption
<1>s. sci \in Scis /\ TxFits(sci) /\ KbFits(kb) /\ kb.ring \in Rings /\ Whole(kb.ring)
  BY DEF IInv, TypeInv, KbFits
<1>k. KbFits(IF MayLoad THEN [kb EXCEPT !.ring = Tail(@)] ELSE kb)
  <2>1. CASE MayLoad
    <3> DEFINE t == Tail(kb.ring)
    <3>1. t \in Rings /\ Whole(t)
      BY <1>s, <2>1, TailWhole DEF MayLoad
    <3>2. [kb EXCEPT !.ring = Tail(@)] = [kb EXCEPT !.ring = t]
      OBVIOUS
    <3> HIDE DEF t
    <3> QED
      BY <3>1, <3>2, <1>s, <2>1, KbRing
  <2> QED
    BY <2>1, <1>s
<1>1. CASE sci.tx = "stop"
  <2>1. ClockSci = [sci EXCEPT !.tx = "idle", !.tdr = <<>>]
    BY <1>1 DEF ClockSci, MayLoad
  <2> QED
    BY <2>1, <1>s, <1>k DEF Scis, TxFits
<1>2. CASE sci.tx = "data"
  <2> DEFINE t == Tail(sci.tsr)
             x == IF Len(sci.tsr) = 1 THEN "stop" ELSE "data"
  <2>1. ClockSci = [sci EXCEPT !.tsr = t, !.tx = x]
    BY <1>2 DEF ClockSci, MayLoad
  <2>2. sci.tsr \in Seq({0, 1}) /\ Len(sci.tsr) \in 1 .. Width
    BY <1>s, <1>2, BitSeqs, EmptySeq DEF Scis, TxFits
  <2>3. t \in Seq({0, 1}) /\ Len(t) = Len(sci.tsr) - 1
    BY <2>2, <1>s, <1>2, HeadTailProperties DEF TxFits
  <2>4. t \in BitSeq /\ (x = "data" => t # <<>>) /\ x \in {"stop", "data"}
    <3>1. x = "data" => Len(t) # 0
      BY <2>2, <2>3
    <3>2. x \in {"stop", "data"}
      OBVIOUS
    <3> HIDE DEF t, x
    <3>3. t \in BitSeq
      BY <2>2, <2>3, BitSeqs
    <3> QED
      BY <3>1, <3>2, <3>3, EmptySeq
  <2>5. sci.tdr # <<>>
    BY <1>s, <1>2 DEF TxFits
  <2> HIDE DEF t, x
  <2>6. ClockSci \in Scis /\ ClockSci.tsr = t /\ ClockSci.tx = x /\ ClockSci.tdr = sci.tdr
    BY <2>1, <2>4, <1>s DEF Scis
  <2> QED
    BY <2>4, <2>5, <2>6, <1>k DEF TxFits
<1>3. CASE MayLoad
  <2> DEFINE b == kb.ring[1]
  <2>1. ClockSci = [sci EXCEPT !.tx = "data", !.tdr = b, !.tsr = b]
    BY <1>3 DEF ClockSci, MayLoad
  <2>2. b \in Bytes
    BY <1>3, <1>s, TailWhole DEF MayLoad
  <2>3. b \in BitSeq /\ b # <<>>
    BY <2>2, BitSeqs, ByteNotEmpty
  <2> HIDE DEF b
  <2> QED
    BY <2>1, <2>2, <2>3, <1>s, <1>k DEF Scis, TxFits
<1>4. CASE sci.tx = "idle" /\ ~MayLoad
  <2> DEFINE d == IF sci.delay > 0 THEN sci.delay - 1 ELSE sci.delay
  <2>1. ClockSci = [sci EXCEPT !.delay = d]
    BY <1>4 DEF ClockSci
  <2>2. d \in Nat
    BY <1>s DEF Scis
  <2> HIDE DEF d
  <2> QED
    BY <2>1, <2>2, <1>s, <1>k DEF Scis, TxFits
<1> QED
  BY <1>1, <1>2, <1>3, <1>4, <1>s DEF Scis

LEMMA LineBitType ==
  ASSUME IInv
  PROVE  /\ LineBit \in {0, 1}
         /\ sci.tx = "data" => LineBit = sci.tsr[1]
         /\ sci.tx = "idle" => (LineBit = 0 <=> MayLoad)
         /\ sci.tx = "stop" => LineBit = 1
<1>s. sci \in Scis /\ TxFits(sci)
  BY DEF IInv, TypeInv
<1>1. /\ sci.tx = "data" => LineBit = sci.tsr[1]
      /\ sci.tx = "idle" => LineBit = IF MayLoad THEN 0 ELSE 1
      /\ sci.tx = "stop" => LineBit = 1
  BY DEF LineBit
<1>2. sci.tx = "data" => sci.tsr[1] \in {0, 1}
  <2>1. sci.tsr \in Seq({0, 1}) /\ Len(sci.tsr) \in Nat
    BY <1>s, BitSeqs DEF Scis
  <2>2. sci.tx = "data" => Len(sci.tsr) # 0
    BY <1>s, <2>1, EmptySeq DEF TxFits
  <2> QED
    BY <2>1, <2>2, ElementOfSeq
<1> QED
  BY <1>1, <1>2, <1>s DEF Scis

\* The receiver keeps the other flags, and never takes back an overrun.
LEMMA ClockRxFits ==
  ASSUME NEW a \in Acias, RxFits(a), NEW bit \in {0, 1}
  PROVE  /\ ClockRx(a, bit) \in Acias /\ RxFits(ClockRx(a, bit))
         /\ SameLine(ClockRx(a, bit), a)
         /\ ClockRx(a, bit).ovrn = a.ovrn /\ ClockRx(a, bit).srRead = a.srRead
         /\ a.overrun => ClockRx(a, bit).overrun
         /\ a.rx = "idle" => /\ ClockRx(a, bit).rx = IF bit = 0 THEN "data" ELSE "idle"
                             /\ ClockRx(a, bit).rsr = <<>>
         /\ a.rx = "data" => /\ ClockRx(a, bit).rx = IF Len(a.rsr) = Width - 1 THEN "stop" ELSE "data"
                             /\ ClockRx(a, bit).rsr = Append(a.rsr, bit)
         /\ a.rx = "stop" => ClockRx(a, bit).rx = "idle" /\ ClockRx(a, bit).rsr = <<>>
         /\ a.rx # "stop" => ClockRx(a, bit).rdrf = a.rdrf
<1> USE ConstantsAssumption
<1>e. <<>> \in BitSeq
  <2>1. <<>> \in Seq({0, 1}) /\ Len(<<>>) <= Width
    OBVIOUS
  <2> QED
    BY <2>1, BitSeqs
<1>1. CASE a.rx = "idle"
  <2>1. ClockRx(a, bit) = IF bit = 0 THEN [a EXCEPT !.rx = "data"] ELSE a
    BY <1>1 DEF ClockRx
  <2>2. a.rsr = <<>>
    BY <1>1 DEF RxFits
  <2>3. CASE bit = 0
    <3>1. ClockRx(a, bit) = [a EXCEPT !.rx = "data"]
      BY <2>1, <2>3
    <3> QED
      BY <3>1, <2>2, <2>3, <1>1 DEF Acias, RxFits, SameLine
  <2>4. CASE bit = 1
    BY <2>1, <2>2, <2>4, <1>1 DEF RxFits, SameLine
  <2> QED
    BY <2>3, <2>4
<1>2. CASE a.rx = "data"
  <2> DEFINE s == Append(a.rsr, bit)
             x == IF Len(a.rsr) = Width - 1 THEN "stop" ELSE "data"
  <2>1. ClockRx(a, bit) = [a EXCEPT !.rsr = s, !.rx = x]
    BY <1>2 DEF ClockRx
  <2>2. a.rsr \in Seq({0, 1}) /\ Len(a.rsr) \in 0 .. Width - 1
    BY <1>2, BitSeqs DEF Acias, RxFits, SameLine
  <2>3. s \in Seq({0, 1}) /\ Len(s) = Len(a.rsr) + 1
    BY <2>2
  <2>4. s \in BitSeq
    <3> HIDE DEF s
    <3> QED
      BY <2>2, <2>3, BitSeqs
  <2>5. /\ x \in {"data", "stop"} /\ (x = "stop" => Len(s) = Width)
        /\ (x = "data" => Len(s) < Width)
    BY <2>2, <2>3
  <2>d. s = Append(a.rsr, bit) /\ x = IF Len(a.rsr) = Width - 1 THEN "stop" ELSE "data"
    OBVIOUS
  <2> HIDE DEF s, x
  <2> DEFINE c == [a EXCEPT !.rsr = s, !.rx = x]
  <2>6. c \in Acias
    BY <2>4, <2>5 DEF Acias
  <2>7. /\ SameLine(c, a) /\ c.ovrn = a.ovrn /\ c.srRead = a.srRead
        /\ c.overrun = a.overrun /\ c.rx = x /\ c.rsr = s /\ c.rdrf = a.rdrf
    BY DEF Acias, SameLine
  <2> HIDE DEF c
  <2>8. ClockRx(a, bit) = c
    BY <2>1 DEF c
  <2>9. RxFits(c)
    BY <2>5, <2>7 DEF RxFits
  <2> QED
    BY <2>6, <2>7, <2>8, <2>9, <2>d, <1>2
<1>3. CASE a.rx = "stop"
  <2>1. CASE bit = 0
    <3>1. ClockRx(a, bit) = [a EXCEPT !.rx = "idle", !.rsr = <<>>]
      BY <1>3, <2>1 DEF ClockRx
    <3> QED
      BY <3>1, <1>3, <1>e DEF Acias, RxFits, SameLine
  <2>2. CASE bit = 1 /\ a.rdrf
    <3>1. ClockRx(a, bit) = [a EXCEPT !.rx = "idle", !.rsr = <<>>, !.overrun = TRUE]
      BY <1>3, <2>2 DEF ClockRx
    <3> QED
      BY <3>1, <1>3, <1>e DEF Acias, RxFits, SameLine
  <2>3. CASE bit = 1 /\ ~a.rdrf
    <3>1. ClockRx(a, bit) = [a EXCEPT !.rx = "idle", !.rsr = <<>>, !.rdrf = TRUE]
      BY <1>3, <2>3 DEF ClockRx
    <3> QED
      BY <3>1, <1>3, <1>e DEF Acias, RxFits, SameLine
  <2> QED
    BY <2>1, <2>2, <2>3
<1> QED
  BY <1>1, <1>2, <1>3 DEF Acias

\* Transmitter and receiver stay in step.
LEMMA TogetherStep ==
  ASSUME IInv, Together(acia, sci), NEW a, a.rx = acia.rx, a.rsr = acia.rsr,
         a \in Acias, RxFits(a)
  PROVE  Together(ClockRx(a, LineBit), ClockSci)
<1> USE ConstantsAssumption
<1> DEFINE c == ClockRx(a, LineBit)
<1>s. sci \in Scis /\ TxFits(sci) /\ KbFits(kb) /\ kb.ring \in Rings /\ Whole(kb.ring)
  BY DEF IInv, TypeInv, KbFits
<1>b. /\ LineBit \in {0, 1}
      /\ sci.tx = "data" => LineBit = sci.tsr[1]
      /\ sci.tx = "idle" => (LineBit = 0 <=> MayLoad)
      /\ sci.tx = "stop" => LineBit = 1
  BY LineBitType
<1>c. /\ c \in Acias /\ RxFits(c)
      /\ a.rx = "idle" => c.rx = (IF LineBit = 0 THEN "data" ELSE "idle") /\ c.rsr = <<>>
      /\ a.rx = "data" => /\ c.rx = IF Len(a.rsr) = Width - 1 THEN "stop" ELSE "data"
                          /\ c.rsr = Append(a.rsr, LineBit)
      /\ a.rx = "stop" => c.rx = "idle" /\ c.rsr = <<>>
  BY <1>b, ClockRxFits
<1>r. a.rx = sci.tx
  BY DEF Together
<1> HIDE DEF c
<1>1. CASE sci.tx = "stop"
  <2>1. ClockSci = [sci EXCEPT !.tx = "idle", !.tdr = <<>>]
    BY <1>1 DEF ClockSci, MayLoad
  <2>2. ClockSci.tx = "idle"
    BY <2>1, <1>s DEF Scis
  <2> QED
    BY <2>2, <1>1, <1>c, <1>r DEF Together, c
<1>2. CASE sci.tx = "data"
  <2> DEFINE t == Tail(sci.tsr)
             x == IF Len(sci.tsr) = 1 THEN "stop" ELSE "data"
  <2>1. ClockSci = [sci EXCEPT !.tsr = t, !.tx = x]
    BY <1>2 DEF ClockSci, MayLoad
  <2>2. sci.tsr \in Seq({0, 1}) /\ Len(sci.tsr) \in 1 .. Width
    BY <1>s, <1>2, BitSeqs, EmptySeq DEF Scis, TxFits
  <2>3. /\ t \in Seq({0, 1}) /\ Len(t) = Len(sci.tsr) - 1
        /\ \A i \in 1 .. Len(t) : t[i] = sci.tsr[i + 1]
    BY <2>2, <1>s, <1>2, HeadTailProperties DEF TxFits
  <2>x. x = IF Len(sci.tsr) = 1 THEN "stop" ELSE "data"
    OBVIOUS
  <2> HIDE DEF t, x
  <2>4. ClockSci.tsr = t /\ ClockSci.tx = x /\ ClockSci.tdr = sci.tdr
    BY <2>1, <1>s DEF Scis
  <2>5. /\ Len(a.rsr) + Len(sci.tsr) = Width
        /\ \A i \in 1 .. Len(a.rsr) : a.rsr[i] = sci.tdr[i]
        /\ \A i \in 1 .. Len(sci.tsr) : sci.tsr[i] = sci.tdr[Len(a.rsr) + i]
    BY <1>2, <1>r DEF Together
  <2>6. a.rsr \in Seq({0, 1}) /\ Len(a.rsr) \in Nat
    BY BitSeqs DEF Acias
  <2>7. /\ Len(c.rsr) = Len(a.rsr) + 1
        /\ \A i \in 1 .. Len(a.rsr) : c.rsr[i] = a.rsr[i]
        /\ c.rsr[Len(a.rsr) + 1] = sci.tsr[1]
    <3>1. c.rsr = Append(a.rsr, LineBit) /\ LineBit = sci.tsr[1]
      BY <1>2, <1>r, <1>c, <1>b
    <3> QED
      BY <3>1, <2>6
  <2> DEFINE p == Len(a.rsr)
             q == Len(sci.tsr)
             u == Len(c.rsr)
             v == Len(t)
  <2>m. /\ p \in Nat /\ q \in Nat /\ q >= 1 /\ p + q = Width
        /\ u = p + 1 /\ v = q - 1
    <3>1. p \in Nat
      BY <2>6
    <3>2. q \in Nat /\ q >= 1
      BY <2>2
    <3>3. p + q = Width
      BY <2>5
    <3>4. u = p + 1
      BY <2>7
    <3>5. v = q - 1
      BY <2>3
    <3> QED
      BY <3>1, <3>2, <3>3, <3>4, <3>5
  <2>8. c.rx = x
    <3>1. c.rx = IF p = Width - 1 THEN "stop" ELSE "data"
      BY <1>2, <1>r, <1>c
    <3>2. x = IF q = 1 THEN "stop" ELSE "data"
      BY <2>x
    <3> HIDE DEF p, q, u, v
    <3>3. p = Width - 1 <=> q = 1
      BY <2>m
    <3> QED
      BY <3>1, <3>2, <3>3
  <2>9. u + v = Width
    <3> HIDE DEF p, q, u, v
    <3> QED
      BY <2>m
  <2>10. \A i \in 1 .. Len(c.rsr) : c.rsr[i] = sci.tdr[i]
    <3>1. sci.tsr[1] = sci.tdr[Len(a.rsr) + 1]
      BY <2>2, <2>5
    <3> QED
      BY <3>1, <2>5, <2>6, <2>7
  <2>11. \A i \in 1 .. Len(t) : t[i] = sci.tdr[Len(c.rsr) + i]
    <3> TAKE i \in 1 .. Len(t)
    <3>1. i + 1 \in 1 .. q /\ p + (i + 1) = u + i
      <4>1. i \in 1 .. v
        OBVIOUS
      <4> HIDE DEF p, q, u, v
      <4> QED
        BY <4>1, <2>m
    <3> QED
      BY <3>1, <2>3, <2>5
  <2> QED
    BY <2>4, <2>8, <2>9, <2>10, <2>11 DEF Together, c
<1>3. CASE MayLoad
  <2> DEFINE b == kb.ring[1]
  <2>1. ClockSci = [sci EXCEPT !.tx = "data", !.tdr = b, !.tsr = b]
    BY <1>3 DEF ClockSci, MayLoad
  <2>2. b \in Bytes
    BY <1>3, <1>s, TailWhole DEF MayLoad
  <2>3. Len(b) = Width
    BY <2>2, BitSeqs
  <2>4. sci.tx = "idle"
    BY <1>3 DEF MayLoad
  <2> HIDE DEF b
  <2>5. ClockSci.tx = "data" /\ ClockSci.tdr = b /\ ClockSci.tsr = b
    BY <2>1, <1>s DEF Scis
  <2>6. c.rx = "data" /\ c.rsr = <<>>
    BY <2>4, <1>3, <1>b, <1>c, <1>r
  <2>7. Len(c.rsr) = 0 /\ \A i \in 1 .. Len(b) : 0 + i = i
    BY <2>6, <2>3
  <2>8. Together(c, ClockSci)
    BY <2>3, <2>5, <2>6, <2>7 DEF Together
  <2> QED
    BY <2>8 DEF c
<1>4. CASE sci.tx = "idle" /\ ~MayLoad
  <2>1. ClockSci = [sci EXCEPT !.delay = IF @ > 0 THEN @ - 1 ELSE @]
    BY <1>4 DEF ClockSci
  <2>2. ClockSci.tx = "idle"
    BY <2>1, <1>4, <1>s DEF Scis
  <2>3. c.rx = "idle"
    BY <1>4, <1>b, <1>c, <1>r
  <2> QED
    BY <2>2, <2>3 DEF Together, c
<1> QED
  BY <1>1, <1>2, <1>3, <1>4, <1>s DEF Scis

LEMMA TickStep ==
  ASSUME IInv, Tick
  PROVE  /\ IInv'
         /\ acia'.rdrf /\ ~acia.rdrf /\ ~cut => acia.rsr = sci.tdr
<1> USE ConstantsAssumption
<1>1. /\ sci' = ClockSci
      /\ kb' = IF MayLoad THEN [kb EXCEPT !.ring = Tail(@)] ELSE kb
      /\ cut' = (cut /\ (acia'.rx # "idle" \/ sci'.tx # "idle"))
      /\ lost' = (lost \/ (acia.rx = "stop" /\ acia.rdrf /\ acia'.overrun))
      /\ midi' = midi
  BY DEF Tick
<1>2. PICK idle \in BOOLEAN : SetAcia(UpdateIRQ(ClockRx(ClockTx(acia, idle), LineBit)))
  BY DEF Tick
<1> DEFINE a == ClockTx(acia, idle)
           c == ClockRx(a, LineBit)
<1>a. /\ acia \in Acias /\ RxFits(acia) /\ AciaLine(acia) /\ Told(acia, lost)
      /\ lost \in BOOLEAN /\ cut \in BOOLEAN
  BY DEF IInv, TypeInv, IrqInv
<1>3. /\ a \in Acias /\ a.rx = acia.rx /\ a.rsr = acia.rsr
      /\ SameLine(a, acia) /\ a.overrun = acia.overrun /\ a.ovrn = acia.ovrn
      /\ a.srRead = acia.srRead /\ a.rdrf = acia.rdrf
  <2> DEFINE set == [acia EXCEPT !.tdre = TRUE]
  <2>1. set \in Acias
    BY <1>a DEF Acias
  <2>2. /\ set.rx = acia.rx /\ set.rsr = acia.rsr
        /\ SameLine(set, acia) /\ set.overrun = acia.overrun /\ set.ovrn = acia.ovrn
        /\ set.srRead = acia.srRead /\ set.rdrf = acia.rdrf
    BY <1>a DEF Acias, SameLine
  <2>3. a = set \/ a = acia
    BY DEF ClockTx
  <2> HIDE DEF set, a
  <2> QED
    BY <1>a, <2>1, <2>2, <2>3 DEF SameLine
<1> HIDE DEF a
<1>4. RxFits(a)
  BY <1>a, <1>3 DEF RxFits
<1>5. /\ c \in Acias /\ RxFits(c) /\ SameLine(c, a)
      /\ c.ovrn = a.ovrn /\ c.srRead = a.srRead
      /\ a.overrun => c.overrun
      /\ a.rx # "stop" => c.rdrf = a.rdrf
  BY <1>3, <1>4, LineBitType, ClockRxFits
<1>6. ~cut => Together(c, ClockSci)
  BY <1>3, <1>4, TogetherStep DEF IInv
<1>u. SetAcia(UpdateIRQ(c))
  BY <1>2 DEF a
<1> HIDE DEF c
<1>7. /\ acia' \in Acias /\ IrqInv' /\ gpip' \in {0, 1} /\ stale' \in BOOLEAN
      /\ acia'.rx = c.rx /\ acia'.rsr = c.rsr /\ acia'.rdrf = c.rdrf
      /\ acia'.ovrn = c.ovrn /\ acia'.overrun = c.overrun /\ acia'.srRead = c.srRead
  <2>1. SameLine(c, acia)
    BY <1>3, <1>5 DEF SameLine
  <2> QED
    BY <2>1, <1>5, <1>1, <1>u, SetAciaFits
<1>8. /\ sci' \in Scis /\ TxFits(sci') /\ KbFits(kb')
  BY <1>1, ClockSciFits
<1>9. TypeInv'
  <2>1. RxFits(acia')
    BY <1>5, <1>7 DEF RxFits
  <2>2. cut' \in BOOLEAN /\ lost' \in BOOLEAN
    BY <1>1
  <2> QED
    BY <2>1, <2>2, <1>1, <1>7, <1>8 DEF IInv, TypeInv
<1>10. Told(acia', lost')
  BY <1>1, <1>a, <1>3, <1>5, <1>7 DEF Told
<1>11. cut' \/ Together(acia', sci')
  <2>1. CASE ~cut
    BY <2>1, <1>1, <1>6, <1>7 DEF Together
  <2>2. CASE cut /\ ~cut'
    <3>1. acia'.rx = "idle" /\ sci'.tx = "idle"
      BY <2>2, <1>1
    <3> QED
      BY <3>1 DEF Together
  <2> QED
    BY <2>1, <2>2
<1>12. ASSUME acia'.rdrf, ~acia.rdrf, ~cut
       PROVE  acia.rsr = sci.tdr
  <2>1. acia.rx = "stop"
    BY <1>12, <1>3, <1>5, <1>7
  <2>2. Together(acia, sci)
    BY <1>12 DEF IInv
  <2>3. acia.rsr \in Seq({0, 1}) /\ Len(acia.rsr) = Width
    BY <2>1, <1>a, BitSeqs DEF RxFits, Acias
  <2>4. sci.tdr \in Seq({0, 1}) /\ Len(sci.tdr) = Width
    <3>1. sci.tdr # <<>> /\ sci.tdr \in Bytes \cup {<<>>}
      BY <2>1, <2>2 DEF Together, IInv, TypeInv, Scis, TxFits
    <3> QED
      BY <3>1, BitSeqs
  <2>5. \A i \in 1 .. Len(acia.rsr) : acia.rsr[i] = sci.tdr[i]
    BY <2>1, <2>2 DEF Together
  <2> QED
    BY <2>3, <2>4, <2>5, SeqEqual
<1> QED
  BY <1>7, <1>9, <1>10, <1>11, <1>12 DEF IInv

-----------------------------------------------------------------------------
\* Only the clock announces a byte.
LEMMA OthersAnnounceNothing ==
  ASSUME IInv, Program \/ Keyboard \/ Host \/ AutoSend \/ ResetTimer \/ Midi_Update, acia'.rdrf
  PROVE  acia.rdrf
<1>a. acia \in Acias
  BY DEF IInv, TypeInv
<1>u. ASSUME NEW a \in Acias, acia' = UpdateIRQ(a)
      PROVE  a.rdrf
  BY <1>u DEF UpdateIRQ, Acias
<1>1. ASSUME NEW c \in Controls, Write_CR(c)
      PROVE  acia.rdrf
  <2> DEFINE r == c \in {"rx", "both"}
             t == c \in {"tx", "both"}
             a == [acia EXCEPT !.rie = r, !.tie = t, !.clocked = TRUE]
  <2>1. acia' = UpdateIRQ(a)
    BY <1>1 DEF Write_CR, SetAcia
  <2>2. r \in BOOLEAN /\ t \in BOOLEAN
    OBVIOUS
  <2> HIDE DEF r, t
  <2>3. a \in Acias /\ a.rdrf = acia.rdrf
    BY <1>a, <2>2 DEF Acias
  <2> QED
    BY <2>1, <2>3, <1>u
<1>2. ASSUME NEW c \in Controls, Write_CR_Reset(c)
      PROVE  acia.rdrf
  <2> DEFINE r == c \in {"rx", "both"}
             t == c \in {"tx", "both"}
             a == [MasterReset EXCEPT !.rie = r, !.tie = t]
  <2>1. acia' = UpdateIRQ(a)
    BY <1>2 DEF Write_CR_Reset
  <2>2. r \in BOOLEAN /\ t \in BOOLEAN
    OBVIOUS
  <2>e. <<>> \in BitSeq
    <3>1. <<>> \in Seq({0, 1}) /\ Len(<<>>) <= Width
      BY ConstantsAssumption
    <3> QED
      BY <3>1, BitSeqs
  <2> HIDE DEF r, t
  <2>3. MasterReset \in Acias /\ MasterReset.rdrf = FALSE
    BY <1>a, <2>e DEF MasterReset, Acias
  <2>4. a \in Acias /\ a.rdrf = FALSE
    BY <2>2, <2>3 DEF Acias
  <2> HIDE DEF a
  <2>5. a.rdrf
    BY <2>1, <2>4, <1>u
  <2> QED
    BY <2>4, <2>5
<1>3. CASE Read_SR
  BY <1>3, <1>a DEF Read_SR, Acias
<1>4. CASE Read_RDR
  <2> DEFINE o == (acia.ovrn /\ ~acia.srRead) \/ acia.overrun
             a == [acia EXCEPT !.rdrf = FALSE, !.srRead = FALSE, !.overrun = FALSE, !.ovrn = o]
  <2>1. acia' = UpdateIRQ(a)
    BY <1>4 DEF Read_RDR, SetAcia
  <2>2. o \in BOOLEAN
    OBVIOUS
  <2> HIDE DEF o
  <2>3. a \in Acias /\ a.rdrf = FALSE
    BY <1>a, <2>2 DEF Acias
  <2> HIDE DEF a
  <2>4. a.rdrf
    BY <2>1, <2>3, <1>u
  <2> QED
    BY <2>3, <2>4
<1>5. CASE Write_TDR
  <2> DEFINE a == [acia EXCEPT !.tdre = FALSE]
  <2>1. acia' = UpdateIRQ(a)
    BY <1>5 DEF Write_TDR, SetAcia
  <2>2. a \in Acias /\ a.rdrf = acia.rdrf
    BY <1>a DEF Acias
  <2> HIDE DEF a
  <2> QED
    BY <2>1, <2>2, <1>u
<1>6. CASE Midi_Control_Write \/ Midi_Data_Read \/ Read_GPIP \/ CustomReset
  BY <1>6 DEF Midi_Control_Write, Midi_Data_Read, SetMidi, Read_GPIP, CustomReset, ResetDevices
<1>7. CASE Keyboard
  BY <1>7 DEF Keyboard, Cmd_StartKeyboardTransfer, Cmd_StopKeyboardTransfer, Cmd_Reset,
              Cmd_ReturnJoystickAuto, Cmd_Return, Command
<1>8. CASE Host \/ AutoSend \/ ResetTimer \/ Midi_Update
  BY <1>8 DEF Host, PressKey, Midi_Reset, Reset_ST, ResetDevices, AutoSend, ResetTimer,
              Midi_Update, SetMidi
<1> QED
  BY <1>1, <1>2, <1>3, <1>4, <1>5, <1>6, <1>7, <1>8 DEF Program

LEMMA InitIInv == Init => IInv
<1> SUFFICES ASSUME Init PROVE IInv
  OBVIOUS
<1>e. <<>> \in BitSeq
  <2>1. <<>> \in Seq({0, 1}) /\ Len(<<>>) <= Width
    BY ConstantsAssumption
  <2> QED
    BY <2>1, BitSeqs
<1>1. acia \in Acias /\ RxFits(acia) /\ AciaLine(acia) /\ (acia.irq <=> Requests(acia))
  BY <1>e DEF Init, Acias, RxFits, AciaLine, Requests
<1>2. sci \in Scis /\ TxFits(sci)
  BY <1>e DEF Init, Scis, TxFits
<1>3. KbFits(kb)
  <2>1. kb \in Kbs /\ kb.ring = <<>>
    BY DEF Init, Kbs
  <2>2. <<>> \in Rings /\ Whole(<<>>)
    BY ConstantsAssumption DEF Rings, Whole
  <2> QED
    BY <2>1, <2>2 DEF KbFits
<1>4. midi \in Midis /\ LineOf(midi) /\ (midi.irq <=> MidiRequests(midi))
  BY DEF Init, Midis, LineOf, MidiRequests
<1>5. TypeInv /\ IrqInv
  BY <1>1, <1>2, <1>3, <1>4 DEF Init, TypeInv, IrqInv
<1>6. Told(acia, lost) /\ Together(acia, sci)
  BY DEF Init, Told, Together
<1> QED
  BY <1>5, <1>6 DEF IInv

LEMMA NextIInv ==
  ASSUME IInv, Next
  PROVE  /\ IInv'
         /\ acia'.rdrf /\ ~acia.rdrf /\ ~cut => acia.rsr = sci.tdr
<1>1. CASE Tick
  BY <1>1, TickStep
<1>2. CASE Program \/ Keyboard \/ Host \/ AutoSend \/ ResetTimer \/ Midi_Update
  <2>1. IInv'
    BY <1>2, ProgramStep, KeyboardStep, HostStep DEF Host
  <2> QED
    BY <1>2, <2>1, OthersAnnounceNothing
<1> QED
  BY <1>1, <1>2 DEF Next, Timers

LEMMA SpecIInv == Spec => []IInv
<1>1. IInv /\ UNCHANGED vars => IInv'
  <2> SUFFICES ASSUME IInv, UNCHANGED vars PROVE IInv'
    OBVIOUS
  <2>1. TypeInv' /\ IrqInv'
    BY DEF IInv, TypeInv, IrqInv, vars
  <2> QED
    BY <2>1 DEF IInv, vars
<1>2. IInv /\ Next => IInv'
  BY NextIInv
<1> QED
  BY InitIInv, <1>1, <1>2, PTL DEF Spec

-----------------------------------------------------------------------------
\* The ring is never longer than its array, and the shift registers hold no
\* more than a byte (IKBD_Send_Byte_Delay, ACIA_Clock_RX).
THEOREM TypeCorrect == Spec => []TypeOK
<1>1. IInv => TypeOK
  <2> SUFFICES ASSUME IInv PROVE TypeOK
    OBVIOUS
  <2>1. kb \in Kbs /\ Len(kb.ring) <= RingSize
    BY DEF IInv, TypeInv, KbFits, Rings
  <2>2. sci \in Scis /\ (sci.tx = "data" => sci.tsr # <<>>) /\ (sci.tdr = <<>>) = (sci.tx = "idle")
    BY DEF IInv, TypeInv, TxFits
  <2>3. /\ acia \in Acias /\ RxFits(acia) /\ midi \in Midis
        /\ gpip \in {0, 1} /\ stale \in BOOLEAN /\ cut \in BOOLEAN /\ lost \in BOOLEAN
    BY DEF IInv, TypeInv
  <2> QED
    BY <2>1, <2>2, <2>3 DEF TypeOK, Acias, Scis, Kbs, Midis, RxFits
<1> QED
  BY SpecIInv, <1>1, PTL

\* The interrupt of both ACIA is requested exactly while there is a cause, and from
\* the first master reset their lines are low exactly then (ACIA_UpdateIRQ, MIDI_UpdateIRQ, MFP_GPIP_Set_Line_Input).
THEOREM IrqFollowsCauses == Spec => []IrqFollows
<1>1. IInv => IrqFollows
  BY DEF IInv, TypeInv, IrqInv, IrqFollows, AciaLine, LineOf, Requests, MidiRequests, Acias, Midis
<1> QED
  BY SpecIInv, <1>1, PTL

\* The program is told of every byte that was lost (ACIA_Clock_RX, ACIA_Read_SR,
\* ACIA_Read_RDR).
THEOREM LossIsTold == Spec => []NoSilentLoss
<1>1. IInv => NoSilentLoss
  BY DEF IInv, Told, NoSilentLoss
<1> QED
  BY SpecIInv, <1>1, PTL

\* No packet is cut, for a ring and packets of any length
\* (IKBD_OutputBuffer_CheckFreeCount).
THEOREM RingHoldsWholePackets == Spec => []PacketsWhole
<1>1. IInv => PacketsWhole
  BY DEF IInv, TypeInv, KbFits, Whole, At, PacketsWhole
<1> QED
  BY SpecIInv, <1>1, PTL

\* The ACIA announces the byte that was sent, for bytes of any width
\* (ACIA_Clock_RX, IKBD_SCI_Set_Line_TX).
THEOREM BytesArrive == Spec => DeliversBytes
<1>1. IInv /\ [Next]_vars => [acia'.rdrf /\ ~acia.rdrf /\ ~cut => acia.rsr = sci.tdr]_vars
  BY NextIInv DEF vars
<1> QED
  BY SpecIInv, <1>1, PTL DEF Spec, DeliversBytes
=============================================================================
