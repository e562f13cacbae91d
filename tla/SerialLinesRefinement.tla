----------------------- MODULE SerialLinesRefinement -----------------------
(***************************************************************************)
(* SerialLines implements ByteLink: bits, shift registers and two ACIA on  *)
(* one clock carry the bytes of the ring one at a time.                    *)
(***************************************************************************)
EXTENDS SerialLinesProofs

-----------------------------------------------------------------------------
(* What is put into the ring goes to its end *)

Extends(p, r) == Len(p) \in Len(r) .. RingSize /\ \A i \in DOMAIN r : p[i] = r[i]

LEMMA PutExtends ==
  ASSUME NEW r \in Rings, NEW b \in Seq(Bytes)
  PROVE  Extends(Put(r, b), r)
<1> USE ConstantsAssumption
<1>1. /\ Len(r) \in Nat /\ Len(b) \in Nat /\ Len(r) <= RingSize
      /\ DOMAIN r = 1 .. Len(r)
  BY LenProperties DEF Rings
<1>2. Len(Put(r, b)) \in Len(r) .. RingSize
  BY <1>1, PutType
<1>3. ASSUME NEW i \in DOMAIN r
      PROVE  Put(r, b)[i] = r[i]
  <2>1. i \in 1 .. Len(Put(r, b)) /\ i <= Len(r)
    BY <1>1, <1>2
  <2> QED
    BY <2>1, PutType
<1> QED
  BY <1>2, <1>3 DEF Extends

LEMMA SendExtends ==
  ASSUME NEW r \in Rings, NEW n \in Nat
  PROVE  Send(r, n) \in Rings /\ Extends(Send(r, n), r)
<1> USE ConstantsAssumption
<1>1. CASE n > 0 /\ HasRoom(r, n)
  <2>1. Packet(n) \in Seq(Bytes)
    BY <1>1, PacketType
  <2> QED
    BY <1>1, <2>1, PutExtends, PutType DEF Send
<1>2. CASE ~(n > 0 /\ HasRoom(r, n))
  <2>1. Len(r) \in Nat /\ Len(r) <= RingSize
    BY LenProperties DEF Rings
  <2> QED
    BY <1>2, <2>1 DEF Send, Extends
<1> QED
  BY <1>1, <1>2

LEMMA ExtendsTwice ==
  ASSUME NEW r \in Rings, NEW p \in Rings, NEW q \in Rings, Extends(p, r), Extends(q, p)
  PROVE  Extends(q, r)
<1> USE ConstantsAssumption
<1>1. /\ Len(r) \in Nat /\ Len(p) \in Nat /\ Len(q) \in Nat
      /\ DOMAIN r = 1 .. Len(r) /\ DOMAIN p = 1 .. Len(p)
  BY LenProperties DEF Rings
<1> QED
  BY <1>1 DEF Extends

LEMMA ExtendsItself ==
  ASSUME NEW r \in Rings
  PROVE  Extends(r, r)
<1>1. Len(r) \in Nat /\ Len(r) <= RingSize
  BY LenProperties DEF Rings
<1> QED
  BY <1>1, ConstantsAssumption DEF Extends

LEMMA SendAllExtends ==
  ASSUME NEW r \in Rings, NEW m \in Nat, NEW n \in Nat
  PROVE  Extends(SendAll(r, m, n), r)
<1>1. Extends(r, r)
  BY ExtendsItself
<1> DEFINE p == Send(r, m)
<1>2. p \in Rings /\ Extends(p, r)
  BY SendExtends
<1> HIDE DEF p
<1>3. Send(p, n) \in Rings /\ Extends(Send(p, n), p)
  BY <1>2, SendExtends
<1>4. Extends(Send(p, n), r)
  BY <1>2, <1>3, ExtendsTwice
<1> QED
  BY <1>1, <1>4 DEF SendAll, p

LEMMA AutosExtend ==
  ASSUME NEW r \in Rings, NEW p \in Autos(r)
  PROVE  Extends(p, r)
<1> USE ConstantsAssumption
<1>1. Packet(1) \in Seq(Bytes) /\ <<Single, Single>> \in Seq(Bytes)
  BY PacketType, ByteKinds
<1>2. Extends(r, r) /\ Extends(SendMonitoring(r), r)
  BY <1>1, ExtendsItself, PutExtends DEF SendMonitoring
<1>3. \A m \in Lengths, n \in Lengths \cup {0} : Extends(SendAll(r, m, n), r)
  BY SendAllExtends
<1> QED
  BY <1>2, <1>3 DEF Autos

-----------------------------------------------------------------------------
(* Steps of the keyboard *)

\* A step that only changes the ring, at its end or to nothing.
LEMMA RingRefines ==
  ASSUME Extends(kb'.ring, kb.ring) \/ kb'.ring = <<>>, sci'.tdr = sci.tdr,
         UNCHANGED <<acia, lost, cut>>
  PROVE  Link!Next
<1>1. CASE Extends(kb'.ring, kb.ring)
  <2>1. Link!Put
    BY <1>1 DEF Extends, Link!Put
  <2> QED
    BY <2>1 DEF Link!Next
<1>2. CASE kb'.ring = <<>>
  <2>1. Link!Drop
    BY <1>2 DEF Link!Drop
  <2> QED
    BY <2>1 DEF Link!Next
<1> QED
  BY <1>1, <1>2

LEMMA KeyboardRefines ==
  ASSUME IInv, Keyboard \/ PressKey \/ AutoSend \/ ResetTimer
  PROVE  Link!Next
<1> USE ConstantsAssumption
<1>k. kb \in Kbs /\ kb.ring \in Rings /\ sci \in Scis /\ Len(kb.ring) \in Nat
      /\ Len(kb.ring) <= RingSize /\ Whole(kb.ring)
  BY LenProperties DEF IInv, TypeInv, KbFits, Rings
<1>r. /\ Ready \in Kbs /\ Ready.ring = kb.ring
      /\ [Ready EXCEPT !.paused = ~kb.critical].ring = kb.ring
      /\ BootRom.ring = <<>>
  BY <1>k DEF Ready, Kbs, BootRom
<1>s. Extends(kb.ring, kb.ring)
  BY <1>k DEF Extends
<1>d. \A d : [sci EXCEPT !.delay = d].tdr = sci.tdr
  BY <1>k DEF Scis
<1>p. \A r : [kb EXCEPT !.ring = r].ring = r /\ [Ready EXCEPT !.ring = r].ring = r
  BY <1>k, <1>r DEF Kbs
<1>1. CASE Cmd_StartKeyboardTransfer
  BY <1>1, <1>r, <1>s, RingRefines DEF Cmd_StartKeyboardTransfer, Command
<1>2. CASE Cmd_StopKeyboardTransfer
  BY <1>2, <1>r, <1>s, RingRefines DEF Cmd_StopKeyboardTransfer, Command
<1>3. CASE Cmd_Reset
  BY <1>3, <1>r, RingRefines DEF Cmd_Reset, Command
<1>4. CASE Cmd_ReturnJoystickAuto
  <2>1. PICK n \in Lengths : Command([Ready EXCEPT !.ring = SendAll(@, n, 0)], sci)
    BY <1>4 DEF Cmd_ReturnJoystickAuto
  <2>2. [Ready EXCEPT !.ring = SendAll(@, n, 0)] = [Ready EXCEPT !.ring = SendAll(kb.ring, n, 0)]
    BY <1>r
  <2>3. kb'.ring = SendAll(kb.ring, n, 0) /\ UNCHANGED <<sci, acia, lost, cut>>
    BY <2>1, <2>2, <1>p DEF Command
  <2>4. Extends(SendAll(kb.ring, n, 0), kb.ring)
    BY <1>k, SendAllExtends
  <2> QED
    BY <2>3, <2>4, RingRefines
<1>5. ASSUME NEW n \in Replies, NEW d \in Delays \ {0}, Cmd_Return(n, d)
      PROVE  Link!Next
  <2>1. CASE Answers(n)
    <3>1. Command([Ready EXCEPT !.ring = Send(@, n)], [sci EXCEPT !.delay = d])
      BY <1>5, <2>1 DEF Cmd_Return
    <3>2. [Ready EXCEPT !.ring = Send(@, n)] = [Ready EXCEPT !.ring = Send(kb.ring, n)]
      BY <1>r
    <3>3. kb'.ring = Send(kb.ring, n) /\ sci'.tdr = sci.tdr /\ UNCHANGED <<acia, lost, cut>>
      BY <3>1, <3>2, <1>p, <1>d DEF Command
    <3>4. Extends(Send(kb.ring, n), kb.ring)
      BY <1>k, SendExtends
    <3> QED
      BY <3>3, <3>4, RingRefines
  <2>2. CASE ~Answers(n)
    BY <1>5, <2>2, <1>r, <1>s, RingRefines DEF Cmd_Return, Command
  <2> QED
    BY <2>1, <2>2
<1>6. CASE PressKey
  <2>1. kb' = [kb EXCEPT !.ring = SendAll(kb.ring, 1, 0)] /\ UNCHANGED <<sci, acia, lost, cut>>
    BY <1>6 DEF PressKey
  <2>2. Extends(SendAll(kb.ring, 1, 0), kb.ring)
    BY <1>k, SendAllExtends
  <2> QED
    BY <2>1, <2>2, <1>p, RingRefines
<1>b. Extends(Put(kb.ring, Packet(1)), kb.ring)
  <2>1. Packet(1) \in Seq(Bytes)
    BY PacketType
  <2> QED
    BY <2>1, <1>k, PutExtends
<1>7. CASE AutoSend
  <2>1. UNCHANGED <<acia, lost, cut>>
    BY <1>7 DEF AutoSend
  <2>2. ASSUME NEW r, Extends(r, kb.ring), kb' = [kb EXCEPT !.ring = r]
        PROVE  Extends(kb'.ring, kb.ring)
    BY <2>2, <1>p
  <2>3. CASE UNCHANGED sci /\ \E r \in Autos(kb.ring) : kb' = [kb EXCEPT !.ring = r]
    <3>1. PICK r \in Autos(kb.ring) : kb' = [kb EXCEPT !.ring = r]
      BY <2>3
    <3>2. Extends(kb'.ring, kb.ring)
      BY <3>1, <2>2, <1>k, AutosExtend
    <3> QED
      BY <2>1, <2>3, <3>2, RingRefines
  <2>4. ASSUME NEW n \in Replies, NEW d, sci' = [sci EXCEPT !.delay = d],
               NEW r \in Autos(Send(kb.ring, n)), kb' = [kb EXCEPT !.ring = r]
        PROVE  Link!Next
    <3> DEFINE p == Send(kb.ring, n)
    <3>1. p \in Rings /\ Extends(p, kb.ring)
      BY <1>k, SendExtends
    <3> HIDE DEF p
    <3>2. r \in Autos(p)
      BY <2>4 DEF p
    <3>3. r \in Rings
      <4>1. p \in Rings /\ Whole(p)
        BY <2>4, <1>k, SendWhole DEF p
      <4> QED
        BY <3>2, <4>1, AutosWhole
    <3>4. Extends(r, kb.ring)
      BY <1>k, <3>1, <3>2, <3>3, AutosExtend, ExtendsTwice
    <3>5. Extends(kb'.ring, kb.ring) /\ sci'.tdr = sci.tdr
      BY <2>2, <2>4, <3>4, <1>d
    <3> QED
      BY <2>1, <3>5, RingRefines
  <2> QED
    BY <1>7, <2>3, <2>4 DEF AutoSend
<1>8. CASE ResetTimer
  <2>1. PICK d \in Delays \cup {sci.delay} :
          /\ kb' = [kb EXCEPT !.critical = FALSE,
                              !.ring = IF acia.clocked THEN Put(@, Packet(1)) ELSE @]
          /\ sci' = [sci EXCEPT !.delay = IF acia.clocked THEN d ELSE @]
    BY <1>8 DEF ResetTimer
  <2>2. kb'.ring = IF acia.clocked THEN Put(kb.ring, Packet(1)) ELSE kb.ring
    BY <2>1, <1>k DEF Kbs
  <2>3. sci'.tdr = sci.tdr
    BY <2>1, <1>k DEF Scis
  <2>4. UNCHANGED <<acia, lost, cut>>
    BY <1>8 DEF ResetTimer
  <2> QED
    BY <2>2, <2>3, <2>4, <1>s, <1>b, RingRefines
<1> QED
  BY <1>1, <1>2, <1>3, <1>4, <1>5, <1>6, <1>7, <1>8 DEF Keyboard

-----------------------------------------------------------------------------
(* Steps of the program and resets *)

\* While no reset has cut a byte, one is on its way when TDR is not empty.
LEMMA BusyIsFlight ==
  ASSUME IInv, ~cut
  PROVE  Busy <=> sci.tdr # <<>>
BY DEF IInv, TypeInv, TxFits, Together, Busy

LEMMA CutRefines ==
  ASSUME IInv
  PROVE  (cut \/ Busy) = (cut \/ sci.tdr # <<>>)
<1>1. cut \in BOOLEAN
  BY DEF IInv, TypeInv
<1> QED
  BY <1>1, BusyIsFlight

\* The flags of the program that UpdateIRQ leaves alone
LEMMA UpdateIRQKeeps ==
  ASSUME NEW a \in Acias
  PROVE  /\ UpdateIRQ(a).rdrf = a.rdrf /\ UpdateIRQ(a).overrun = a.overrun
         /\ UpdateIRQ(a).rx = a.rx
BY DEF UpdateIRQ, Acias

LEMMA ResetRefines ==
  ASSUME IInv, ResetDevices
  PROVE  Link!Next
<1>1. kb'.ring = <<>>
  BY DEF ResetDevices, BootRom
<1>2. sci'.tdr = <<>>
  BY DEF ResetDevices, IInv, TypeInv, Scis
<1>3. cut' = (cut \/ sci.tdr # <<>>) /\ acia' = acia /\ lost' = lost
  BY CutRefines DEF ResetDevices
<1>4. Link!ResetSender
  BY <1>1, <1>2, <1>3 DEF Link!ResetSender
<1> QED
  BY <1>4 DEF Link!Next

LEMMA ProgramRefines ==
  ASSUME IInv, Program
  PROVE  [Link!Next]_Link!vars
<1>a. acia \in Acias
  BY DEF IInv, TypeInv
<1>u. ASSUME NEW a \in Acias, SetAcia(UpdateIRQ(a))
      PROVE  acia'.rdrf = a.rdrf
  BY <1>u, UpdateIRQKeeps DEF SetAcia
<1>1. ASSUME NEW c \in Controls, Write_CR(c)
      PROVE  [Link!Next]_Link!vars
  <2> DEFINE r == c \in {"rx", "both"}
             t == c \in {"tx", "both"}
             a == [acia EXCEPT !.rie = r, !.tie = t, !.clocked = TRUE]
  <2>1. SetAcia(UpdateIRQ(a)) /\ UNCHANGED <<sci, kb, lost, cut>>
    BY <1>1 DEF Write_CR
  <2>2. r \in BOOLEAN /\ t \in BOOLEAN
    OBVIOUS
  <2> HIDE DEF r, t
  <2>3. a \in Acias /\ a.rdrf = acia.rdrf
    BY <1>a, <2>2 DEF Acias
  <2> HIDE DEF a
  <2>4. acia'.rdrf = acia.rdrf
    BY <2>1, <2>3, <1>u
  <2> QED
    BY <2>1, <2>4 DEF Link!vars
<1>2. ASSUME NEW c \in Controls, Write_CR_Reset(c)
      PROVE  Link!Next
  <2> DEFINE r == c \in {"rx", "both"}
             t == c \in {"tx", "both"}
             a == [MasterReset EXCEPT !.rie = r, !.tie = t]
  <2>1. /\ acia' = UpdateIRQ(a) /\ cut' = (cut \/ Busy) /\ lost' = FALSE
        /\ UNCHANGED <<sci, kb>>
    BY <1>2 DEF Write_CR_Reset
  <2>2. r \in BOOLEAN /\ t \in BOOLEAN
    OBVIOUS
  <2>e. <<>> \in BitSeq
    <3>1. <<>> \in Seq({0, 1}) /\ Len(<<>>) <= Width
      BY ConstantsAssumption
    <3> QED
      BY <3>1, BitSeqs
  <2> HIDE DEF r, t
  <2>3. MasterReset \in Acias /\ MasterReset.rdrf = FALSE
    BY <1>a, <2>e DEF MasterReset, Acias
  <2>4. a \in Acias /\ a.rdrf = FALSE
    BY <2>2, <2>3 DEF Acias
  <2> HIDE DEF a
  <2>5. acia'.rdrf = FALSE
    BY <2>1, <2>4, UpdateIRQKeeps
  <2>6. cut' = (cut \/ sci.tdr # <<>>)
    BY <2>1, CutRefines
  <2>7. Link!ResetReceiver
    BY <2>1, <2>5, <2>6 DEF Link!ResetReceiver
  <2> QED
    BY <2>7 DEF Link!Next
<1>3. CASE Read_SR
  <2>1. acia'.rdrf = acia.rdrf /\ lost' = (lost /\ ~acia.ovrn) /\ UNCHANGED <<sci, kb, cut>>
    BY <1>3, <1>a DEF Read_SR, Acias
  <2>2. lost' = lost \/ lost' = FALSE
    <3>1. lost \in BOOLEAN
      BY DEF IInv, TypeInv
    <3> QED
      BY <2>1, <3>1
  <2>3. CASE lost' = FALSE
    <3>1. Link!Tell
      BY <2>1, <2>3 DEF Link!Tell
    <3> QED
      BY <3>1 DEF Link!Next
  <2>4. CASE lost' = lost
    BY <2>1, <2>4 DEF Link!vars
  <2> QED
    BY <2>2, <2>3, <2>4
<1>4. CASE Read_RDR
  <2> DEFINE o == (acia.ovrn /\ ~acia.srRead) \/ acia.overrun
             a == [acia EXCEPT !.rdrf = FALSE, !.srRead = FALSE, !.overrun = FALSE, !.ovrn = o]
  <2>1. SetAcia(UpdateIRQ(a)) /\ UNCHANGED <<sci, kb, lost, cut>>
    BY <1>4 DEF Read_RDR
  <2>2. o \in BOOLEAN
    OBVIOUS
  <2> HIDE DEF o
  <2>3. a \in Acias /\ a.rdrf = FALSE
    BY <1>a, <2>2 DEF Acias
  <2> HIDE DEF a
  <2>4. acia'.rdrf = FALSE
    BY <2>1, <2>3, <1>u
  <2>5. Link!Fetch
    BY <2>1, <2>4 DEF Link!Fetch
  <2> QED
    BY <2>5 DEF Link!Next
<1>5. CASE Write_TDR
  <2> DEFINE a == [acia EXCEPT !.tdre = FALSE]
  <2>1. SetAcia(UpdateIRQ(a)) /\ UNCHANGED <<sci, kb, lost, cut>>
    BY <1>5 DEF Write_TDR
  <2>2. a \in Acias /\ a.rdrf = acia.rdrf
    BY <1>a DEF Acias
  <2> HIDE DEF a
  <2>3. acia'.rdrf = acia.rdrf
    BY <2>1, <2>2, <1>u
  <2> QED
    BY <2>1, <2>3 DEF Link!vars
<1>6. CASE Midi_Control_Write \/ Midi_Data_Read \/ Read_GPIP
  BY <1>6 DEF Midi_Control_Write, Midi_Data_Read, SetMidi, Read_GPIP, Link!vars
<1>7. CASE CustomReset
  BY <1>7, ResetRefines DEF CustomReset
<1> QED
  BY <1>1, <1>2, <1>3, <1>4, <1>5, <1>6, <1>7 DEF Program

-----------------------------------------------------------------------------
(* The clock *)

\* What the transmitter does in a tick.
LEMMA SenderTick ==
  ASSUME IInv, Tick
  PROVE  /\ sci.tx = "stop" => sci'.tdr = <<>> /\ kb' = kb
         /\ sci.tx = "data" => sci'.tdr = sci.tdr /\ kb' = kb
         /\ MayLoad => sci'.tdr = kb.ring[1] /\ kb'.ring = Tail(kb.ring)
         /\ sci.tx = "idle" /\ ~MayLoad => sci'.tdr = sci.tdr /\ kb' = kb
<1>1. sci' = ClockSci /\ kb' = IF MayLoad THEN [kb EXCEPT !.ring = Tail(@)] ELSE kb
  BY DEF Tick
<1>s. sci \in Scis /\ kb \in Kbs
  BY DEF IInv, TypeInv, KbFits
<1>2. CASE sci.tx = "stop"
  <2>1. ClockSci = [sci EXCEPT !.tx = "idle", !.tdr = <<>>] /\ ~MayLoad
    BY <1>2 DEF ClockSci, MayLoad
  <2> QED
    BY <1>1, <1>2, <1>s, <2>1 DEF Scis
<1>3. CASE sci.tx = "data"
  <2> DEFINE t == Tail(sci.tsr)
             x == IF Len(sci.tsr) = 1 THEN "stop" ELSE "data"
  <2>1. ClockSci = [sci EXCEPT !.tsr = t, !.tx = x] /\ ~MayLoad
    BY <1>3 DEF ClockSci, MayLoad
  <2> HIDE DEF t, x
  <2> QED
    BY <1>1, <1>3, <1>s, <2>1 DEF Scis
<1>4. CASE MayLoad
  <2> DEFINE b == kb.ring[1]
  <2>1. ClockSci = [sci EXCEPT !.tx = "data", !.tdr = b, !.tsr = b] /\ sci.tx = "idle"
    BY <1>4 DEF ClockSci, MayLoad
  <2> HIDE DEF b
  <2>2. ClockSci.tdr = b
    BY <2>1, <1>s DEF Scis
  <2>3. kb'.ring = Tail(kb.ring)
    <3> DEFINE r == Tail(kb.ring)
    <3>1. kb' = [kb EXCEPT !.ring = r]
      BY <1>1, <1>4
    <3> HIDE DEF r
    <3>2. kb'.ring = r
      BY <3>1, <1>s DEF Kbs
    <3> QED
      BY <3>2 DEF r
  <2> QED
    <3>1. sci'.tdr = kb.ring[1] /\ sci.tx = "idle"
      BY <1>1, <2>1, <2>2 DEF b
    <3> QED
      BY <1>4, <2>3, <3>1
<1>5. CASE sci.tx = "idle" /\ ~MayLoad
  <2>1. ClockSci = [sci EXCEPT !.delay = IF @ > 0 THEN @ - 1 ELSE @]
    BY <1>5 DEF ClockSci
  <2> QED
    BY <1>1, <1>5, <1>s, <2>1 DEF Scis
<1> QED
  BY <1>2, <1>3, <1>4, <1>5 DEF MayLoad

\* What the receiver shows after a tick.
LEMMA ReceiverTick ==
  ASSUME IInv, Tick
  PROVE  /\ \/ acia'.rdrf = acia.rdrf /\ lost' = lost
            \/ acia'.rdrf = TRUE /\ lost' = (lost \/ acia.rdrf)
         /\ acia.rx # "stop" => acia'.rdrf = acia.rdrf /\ lost' = lost
         /\ acia.rx = "stop" /\ LineBit = 1 =>
              acia'.rdrf = TRUE /\ lost' = (lost \/ acia.rdrf)
<1>1. PICK idle \in BOOLEAN : SetAcia(UpdateIRQ(ClockRx(ClockTx(acia, idle), LineBit)))
  BY DEF Tick
<1>l. lost' = (lost \/ (acia.rx = "stop" /\ acia.rdrf /\ acia'.overrun))
  BY DEF Tick
<1>t. acia \in Acias /\ lost \in BOOLEAN /\ RxFits(acia)
  BY DEF IInv, TypeInv
<1> DEFINE a == ClockTx(acia, idle)
           c == ClockRx(a, LineBit)
<1>2. a \in Acias /\ a.rx = acia.rx /\ a.rdrf = acia.rdrf /\ a.rsr = acia.rsr
  <2> DEFINE set == [acia EXCEPT !.tdre = TRUE]
  <2>1. set \in Acias /\ set.rx = acia.rx /\ set.rdrf = acia.rdrf /\ set.rsr = acia.rsr
    BY <1>t DEF Acias
  <2>2. a = set \/ a = acia
    BY DEF ClockTx
  <2> HIDE DEF set, a
  <2> QED
    BY <1>t, <2>1, <2>2
<1>c. acia' = UpdateIRQ(c)
  BY <1>1 DEF SetAcia
<1> HIDE DEF a
<1>3. c \in Acias /\ (a.rx # "stop" => c.rdrf = a.rdrf)
  <2>1. RxFits(a)
    BY <1>2, <1>t DEF RxFits
  <2> QED
    BY <1>2, <2>1, LineBitType, ClockRxFits
<1>4. a.rx = "stop" /\ LineBit = 1 => c.rdrf = TRUE /\ (a.rdrf => c.overrun = TRUE)
  <2> SUFFICES ASSUME a.rx = "stop", LineBit = 1
               PROVE  c.rdrf = TRUE /\ (a.rdrf => c.overrun = TRUE)
    OBVIOUS
  <2>1. CASE a.rdrf
    <3>1. c = [a EXCEPT !.rx = "idle", !.rsr = <<>>, !.overrun = TRUE]
      BY <2>1 DEF ClockRx
    <3>2. a.rdrf = TRUE
      BY <2>1, <1>2 DEF Acias
    <3> HIDE DEF c
    <3> QED
      BY <3>1, <3>2, <1>2 DEF Acias
  <2>2. CASE ~a.rdrf
    <3>1. c = [a EXCEPT !.rx = "idle", !.rsr = <<>>, !.rdrf = TRUE]
      BY <2>2 DEF ClockRx
    <3> HIDE DEF c
    <3> QED
      BY <2>2, <3>1, <1>2 DEF Acias
  <2> QED
    BY <2>1, <2>2
<1>5. a.rx = "stop" /\ LineBit = 0 => c.rdrf = a.rdrf
  <2> SUFFICES ASSUME a.rx = "stop", LineBit = 0
               PROVE  c.rdrf = a.rdrf
    OBVIOUS
  <2>1. c = [a EXCEPT !.rx = "idle", !.rsr = <<>>]
    BY DEF ClockRx
  <2> HIDE DEF c
  <2> QED
    BY <2>1, <1>2 DEF Acias
<1> HIDE DEF c
<1>6. acia'.rdrf = c.rdrf /\ acia'.overrun = c.overrun
  BY <1>3, <1>c, UpdateIRQKeeps
<1>7. LineBit \in {0, 1} /\ acia.rdrf \in BOOLEAN
  BY <1>t, LineBitType DEF Acias
<1>8. CASE acia.rx # "stop"
  BY <1>8, <1>l, <1>t, <1>2, <1>3, <1>6
<1>9. CASE acia.rx = "stop" /\ LineBit = 1
  BY <1>9, <1>l, <1>t, <1>2, <1>4, <1>6, <1>7
<1>10. CASE acia.rx = "stop" /\ LineBit = 0
  <2>1. acia'.rdrf = acia.rdrf
    BY <1>10, <1>2, <1>5, <1>6
  <2>2. CASE acia.rdrf /\ acia'.overrun
    <3>1. lost' = TRUE /\ acia.rdrf = TRUE
      BY <1>10, <2>2, <1>l, <1>7
    <3>2. acia'.rdrf = TRUE /\ lost' = (lost \/ acia.rdrf)
      BY <2>1, <3>1
    <3> QED
      BY <1>10, <3>2
  <2>3. CASE ~(acia.rdrf /\ acia'.overrun)
    <3>1. lost' = lost
      BY <2>3, <1>l, <1>t
    <3> QED
      BY <1>10, <2>1, <3>1
  <2> QED
    BY <2>2, <2>3
<1> QED
  BY <1>7, <1>8, <1>9, <1>10

LEMMA TickRefines ==
  ASSUME IInv, Tick
  PROVE  [Link!Next]_Link!vars
<1>1. IInv'
  BY TickStep
<1>t. /\ sci.tdr = <<>> <=> sci.tx = "idle"
      /\ sci'.tdr = <<>> <=> sci'.tx = "idle"
      /\ sci.tx \in {"idle", "data", "stop"} /\ cut \in BOOLEAN /\ cut' \in BOOLEAN
  BY <1>1 DEF IInv, TypeInv, TxFits, Scis
<1>c. cut' = (cut /\ (acia'.rx # "idle" \/ sci'.tx # "idle"))
  BY DEF Tick
<1>m. MayLoad => sci.tx = "idle" /\ kb.ring # <<>>
  BY DEF MayLoad
<1>2. CASE ~cut
  <2>1. acia.rx = sci.tx /\ cut' = FALSE /\ cut = FALSE
    BY <1>2, <1>c, <1>t DEF IInv, Together
  <2>2. CASE sci.tx = "stop"
    <3>1. LineBit = 1
      BY <2>2, LineBitType
    <3>2. Link!Arrive
      BY <2>1, <2>2, <3>1, <1>t, SenderTick, ReceiverTick DEF Link!Arrive
    <3> QED
      BY <3>2 DEF Link!Next
  <2>3. CASE sci.tx = "data" \/ (sci.tx = "idle" /\ ~MayLoad)
    BY <2>1, <2>3, SenderTick, ReceiverTick DEF Link!vars
  <2>4. CASE MayLoad
    <3>1. Link!Depart
      BY <2>1, <2>4, <1>m, <1>t, SenderTick, ReceiverTick DEF Link!Depart, Link!Take
    <3> QED
      BY <3>1 DEF Link!Next
  <2> QED
    BY <2>2, <2>3, <2>4, <1>t
<1>3. CASE cut
  <2>1. Link!Take \/ (sci'.tdr \in {sci.tdr, <<>>} /\ UNCHANGED kb.ring)
    BY <1>m, <1>t, SenderTick DEF Link!Take
  <2>2. cut' = TRUE \/ (cut' = FALSE /\ sci'.tdr = <<>>)
    BY <1>3, <1>c, <1>t
  <2>3. Link!Noise
    BY <1>3, <2>1, <2>2, ReceiverTick DEF Link!Noise
  <2> QED
    BY <2>3 DEF Link!Next
<1> QED
  BY <1>2, <1>3

-----------------------------------------------------------------------------
LEMMA InitRefines == Init => Link!Init
BY DEF Init, Link!Init

LEMMA NextRefines == IInv /\ [Next]_vars => [Link!Next]_Link!vars
<1> SUFFICES ASSUME IInv, [Next]_vars PROVE [Link!Next]_Link!vars
  OBVIOUS
<1>1. CASE Program
  BY <1>1, ProgramRefines
<1>2. CASE Keyboard \/ PressKey \/ AutoSend \/ ResetTimer
  BY <1>2, KeyboardRefines
<1>3. CASE Midi_Reset \/ Midi_Update
  BY <1>3 DEF Midi_Reset, Midi_Update, SetMidi, Link!vars
<1>4. CASE Reset_ST
  BY <1>4, ResetRefines DEF Reset_ST
<1>5. CASE Tick
  BY <1>5, TickRefines
<1>6. CASE UNCHANGED vars
  BY <1>6 DEF vars, Link!vars
<1> QED
  BY <1>1, <1>2, <1>3, <1>4, <1>5, <1>6 DEF Next, Host, Timers

\* The two ACIA, the bits and the ring are a link of bytes: a byte that leaves
\* the ring arrives or is counted as lost before the next leaves, unless a reset
\* cuts it (IKBD_SCI_Set_Line_TX, ACIA_Clock_RX, ACIA_MasterReset).
THEOREM LinkImplemented == Spec => ImplementsLink
<1> QED
  BY InitRefines, NextRefines, SpecIInv, PTL DEF Spec, ImplementsLink, Link!Spec
=============================================================================
