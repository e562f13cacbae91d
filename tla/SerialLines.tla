---------------------------- MODULE SerialLines ----------------------------
(***************************************************************************)
(* The serial lines of the keyboard and of MIDI: the two ACIA (acia.c,     *)
(* midi.c), the serial interface and the ring of bytes of the keyboard     *)
(* processor (ikbd.c), and the line of the MFP that both ACIA drive        *)
(* (GPIP 4, mfp.c).                                                        *)
(*                                                                         *)
(* The keyboard sends a start bit, Width bits of data and a stop bit, all  *)
(* of them modelled; the ACIA is set to that format.  The other direction  *)
(* has no bits: TDR is taken at any tick, and a command arrives at any      *)
(* time.  Bytes are told apart by their place in a packet.  RDR is left   *)
(* out: a byte that is received is in RSR.  So are custom programs of the  *)
(* keyboard processor, parity and framing errors, breaks, DCD and CTS, the *)
(* transmitter of MIDI, and GPIP 4 as an output.                           *)
(***************************************************************************)
EXTENDS Integers, Sequences

CONSTANTS
  Width,       \* bits of data of a byte
  RingSize,    \* SIZE_KEYBOARD_BUFFER
  Lengths,     \* bytes of the packets of keys, mouse and joystick
  Replies,     \* bytes of the packets that answer a command
  Delays,      \* delays of those, in bits
  Controls     \* interrupts a program enables in the ACIA of the keyboard

ASSUME ConstantsAssumption ==
  /\ Width \in Nat /\ Width >= 2
  /\ RingSize \in Nat \ {0}
  /\ Lengths \subseteq Nat \ {0} /\ Replies \subseteq Nat \ {0}
  /\ Delays \subseteq Nat
  /\ Controls \subseteq {"none", "rx", "tx", "both"}

VARIABLES
  acia,      \* the ACIA of the keyboard
  sci,       \* the transmitter of the keyboard processor
  kb,        \* the keyboard processor
  midi,      \* the ACIA of MIDI
  gpip,      \* bit 4 of GPIP
  stale,     \* history: GPIP 4 was reset, or a line was, and not computed since
  cut,       \* history: a reset has cut a byte, and the line was not idle since
  lost       \* history: a byte was lost and the program has not been told

vars == <<acia, sci, kb, midi, gpip, stale, cut, lost>>

-----------------------------------------------------------------------------
(* Bytes and packets *)

Bytes == [1 .. Width -> {0, 1}]
First == [i \in 1 .. Width |-> i % 2]          \* first byte of a packet
Data == [i \in 1 .. Width |-> (i + 1) % 2]    \* the others
Single == [i \in 1 .. Width |-> 1]            \* a byte alone: a key, a joystick

Packet(n) == IF n = 1 THEN <<Single>> ELSE [i \in 1 .. n |-> IF i = 1 THEN First ELSE Data]

\* Mutant of HasRoom: one byte too many
HasRoom_OffByOne(ring, n) == RingSize - Len(ring) >= n - 1
\* IKBD_OutputBuffer_CheckFreeCount
HasRoom(ring, n) == RingSize - Len(ring) >= n

\* Mutant of Put: no look at the room left
Put_Unbounded(ring, bytes) == ring \o bytes

\* IKBD_Send_Byte_Delay drops the bytes that find the ring full.
Put(ring, bytes) ==
  LET all == ring \o bytes IN SubSeq(all, 1, IF Len(all) <= RingSize THEN Len(all) ELSE RingSize)

\* A packet is put as a whole or dropped.
Send(ring, n) == IF n > 0 /\ HasRoom(ring, n) THEN Put(ring, Packet(n)) ELSE ring

BitSeq == UNION {[1 .. n -> {0, 1}] : n \in 0 .. Width}

TypeOK ==
  /\ acia \in [rie : BOOLEAN, tie : BOOLEAN, clocked : BOOLEAN,
               rdrf : BOOLEAN, ovrn : BOOLEAN, tdre : BOOLEAN,
               irq : BOOLEAN, line : {0, 1}, first : BOOLEAN, srRead : BOOLEAN,
               overrun : BOOLEAN,
               rx : {"idle", "data", "stop"}, rsr : BitSeq]
  /\ acia.rx = "data" => Len(acia.rsr) < Width
  /\ acia.rx = "stop" => Len(acia.rsr) = Width
  /\ sci \in [tx : {"idle", "data", "stop"}, tdr : Bytes \cup {<<>>}, tsr : BitSeq,
              delay : Nat]
  /\ sci.tx = "data" => sci.tsr # <<>>
  /\ (sci.tdr = <<>>) = (sci.tx = "idle") /\ (acia.rx = "idle" => acia.rsr = <<>>)
  /\ kb \in [ring : Seq(Bytes), paused : BOOLEAN, critical : BOOLEAN]
  /\ Len(kb.ring) <= RingSize
  /\ midi \in [rie : BOOLEAN, rdrf : BOOLEAN, irq : BOOLEAN, line : {0, 1}]
  /\ gpip \in {0, 1}
  /\ stale \in BOOLEAN /\ cut \in BOOLEAN /\ lost \in BOOLEAN

\* The program is started and has reset the devices once: ACIA_Init has cleared
\* the ACIA of the keyboard, its line is low for no cause and TDRE is clear until
\* the program sets it up; Midi_Reset has raised the line of the other.
Init ==
  /\ acia = [rie |-> FALSE, tie |-> FALSE, clocked |-> FALSE,
             rdrf |-> FALSE, ovrn |-> FALSE, tdre |-> FALSE,
             irq |-> FALSE, line |-> 0, first |-> TRUE, srRead |-> FALSE, overrun |-> FALSE,
             rx |-> "idle", rsr |-> <<>>]
  /\ sci = [tx |-> "idle", tdr |-> <<>>, tsr |-> <<>>, delay |-> 0]
  /\ kb = [ring |-> <<>>, paused |-> FALSE, critical |-> TRUE]
  /\ midi = [rie |-> FALSE, rdrf |-> FALSE, irq |-> FALSE, line |-> 1]
  /\ gpip = 0
  /\ stale = TRUE /\ cut = FALSE /\ lost = FALSE

-----------------------------------------------------------------------------
(* The interrupt line *)

\* MFP_Main_Compute_GPIP_LINE_ACIA
GpipOf(line1, line2) == IF line1 = 0 \/ line2 = 0 THEN 0 ELSE 1

\* What ACIA_UpdateIRQ computes.
Requests(a) == (a.rie /\ (a.rdrf \/ a.overrun)) \/ (a.tie /\ a.tdre)

\* Mutant of UpdateIRQ: the transmitter's cause is compared with SR, the
\* receiver's is only added.
UpdateIRQ_Sticky(a) ==
  LET new == Requests(a) \/ (a.irq /\ a.rie)
  IN [a EXCEPT !.irq = new, !.line = IF new = a.irq THEN @ ELSE IF new THEN 0 ELSE 1]

\* ACIA_UpdateIRQ: the line moves only when the IRQ bit of SR does.
UpdateIRQ(a) ==
  LET new == Requests(a)
  IN [a EXCEPT !.irq = new, !.line = IF new = a.irq THEN @ ELSE IF new THEN 0 ELSE 1]

\* The ACIA of the keyboard becomes a; if it set its line, GPIP 4 is computed
\* again (MFP_GPIP_Set_Line_Input).
SetAcia(a) ==
  /\ acia' = a
  /\ IF a.irq = acia.irq THEN UNCHANGED <<gpip, stale>>
     ELSE gpip' = GpipOf(a.line, midi.line) /\ stale' = FALSE

\* MIDI_UpdateIRQ
MidiRequests(m) == m.rie /\ m.rdrf

SetMidi(m) ==
  LET new == MidiRequests(m)
      moved == [m EXCEPT !.irq = new, !.line = IF new = m.irq THEN @ ELSE IF new THEN 0 ELSE 1]
  IN /\ midi' = moved
     /\ IF new = m.irq THEN UNCHANGED <<gpip, stale>>
        ELSE gpip' = GpipOf(acia.line, moved.line) /\ stale' = FALSE
     /\ UNCHANGED <<acia, sci, kb, cut, lost>>

-----------------------------------------------------------------------------
(* The program and the ACIA of the keyboard *)

\* A byte is on its way between the two shift registers.
Busy == acia.rx # "idle" \/ sci.tx # "idle"

\* ACIA_Write_CR with a divider: the word format is the keyboard's.
Write_CR(c) ==
  /\ SetAcia(UpdateIRQ([acia EXCEPT !.rie = c \in {"rx", "both"}, !.tie = c \in {"tx", "both"},
                                    !.clocked = TRUE]))
  /\ UNCHANGED <<sci, kb, midi, cut, lost>>

\* ACIA_MasterReset raises the line whatever it was.
MasterReset ==
  [acia EXCEPT !.rdrf = FALSE, !.ovrn = FALSE, !.tdre = TRUE, !.irq = FALSE,
               !.line = 1, !.first = FALSE, !.overrun = FALSE, !.rx = "idle", !.rsr = <<>>]

\* ACIA_Write_CR with 3 in the bits of the divider
Write_CR_Reset(c) ==
  LET a == UpdateIRQ([MasterReset EXCEPT !.rie = c \in {"rx", "both"}, !.tie = c \in {"tx", "both"}])
  IN /\ acia' = a
     /\ gpip' = GpipOf(a.line, midi.line)
     /\ stale' = FALSE
     /\ cut' = (cut \/ Busy)
     /\ lost' = FALSE
     /\ UNCHANGED <<sci, kb, midi>>

Read_SR ==
  /\ acia' = [acia EXCEPT !.srRead = TRUE]
  /\ lost' = (lost /\ ~acia.ovrn)
  /\ UNCHANGED <<sci, kb, midi, gpip, stale, cut>>

\* Mutant of Read_RDR: a read of SR before the overrun was shown clears it.
Read_RDR_ClearsNew ==
  /\ SetAcia(UpdateIRQ([acia EXCEPT !.rdrf = FALSE, !.srRead = FALSE, !.overrun = FALSE,
                                    !.ovrn = (@ \/ acia.overrun) /\ ~acia.srRead]))
  /\ UNCHANGED <<sci, kb, midi, cut, lost>>

\* ACIA_Read_RDR: OVRN is cleared if SR was read, then set if a byte was lost.
Read_RDR ==
  /\ SetAcia(UpdateIRQ([acia EXCEPT !.rdrf = FALSE, !.srRead = FALSE, !.overrun = FALSE,
                                    !.ovrn = (@ /\ ~acia.srRead) \/ acia.overrun]))
  /\ UNCHANGED <<sci, kb, midi, cut, lost>>

Write_TDR ==
  /\ SetAcia(UpdateIRQ([acia EXCEPT !.tdre = FALSE]))
  /\ UNCHANGED <<sci, kb, midi, cut, lost>>

-----------------------------------------------------------------------------
(* The keyboard processor *)

\* Bytes of the keyboard are ignored during its reset, and before the program
\* has set the ACIA up (IKBD_Send_Byte_Delay).
Ignored == kb.critical \/ ~acia.clocked

\* The ring after packets of m and of n bytes, perhaps none.
SendAll(ring, m, n) == IF Ignored THEN ring ELSE Send(Send(ring, m), n)

\* IKBD_SendAutoJoysticksMonitoring does not look for room for both bytes.
SendMonitoring(ring) ==
  IF Ignored THEN ring ELSE Put(ring, <<Single, Single>>)

\* IKBD_PressSTKey
PressKey ==
  /\ kb' = [kb EXCEPT !.ring = SendAll(@, 1, 0)]
  /\ UNCHANGED <<acia, sci, midi, gpip, stale, cut, lost>>

\* There is room for an answer of n bytes, so that it is sent, after a delay.
Answers(n) == ~Ignored /\ HasRoom(kb.ring, n)

\* The ring after up to two packets of the mouse and of joysticks, or after the
\* joysticks the program monitors (a mode the model leaves open).
Autos(ring) ==
  {ring, SendMonitoring(ring)} \cup {SendAll(ring, m, n) : m \in Lengths, n \in Lengths \cup {0}}

\* IKBD_SendAutoKeyboardCommands, called from a timer, and at its start the
\* report of IKBD_SendOnMouseAction, whose delay replaces the one in progress
AutoSend ==
  /\ ~kb.critical
  /\ \/ \E ring \in Autos(kb.ring) : kb' = [kb EXCEPT !.ring = ring]
        /\ UNCHANGED sci
     \/ \E n \in Replies, d \in Delays \ {0} :
          /\ Answers(n)
          /\ \E ring \in Autos(Send(kb.ring, n)) : kb' = [kb EXCEPT !.ring = ring]
          /\ sci' = [sci EXCEPT !.delay = d]
  /\ UNCHANGED <<acia, midi, gpip, stale, cut, lost>>

\* IKBD_InterruptHandler_ResetTimer: the version of the ROM, after a delay, or
\* after none, which leaves the one in progress
ResetTimer ==
  /\ kb.critical
  /\ \E d \in Delays \cup {sci.delay} :
       /\ kb' = [kb EXCEPT !.critical = FALSE, !.ring = IF acia.clocked THEN Put(@, Packet(1)) ELSE @]
       /\ sci' = [sci EXCEPT !.delay = IF acia.clocked THEN d ELSE @]
  /\ UNCHANGED <<acia, midi, gpip, stale, cut, lost>>

\* IKBD_Boot_ROM
BootRom == [ring |-> <<>>, paused |-> FALSE, critical |-> TRUE]

\* A byte from the program ends a command (IKBD_RunKeyboardCommand): every
\* command but a pause lets the output go on.
Command(k, s) ==
  /\ acia.clocked
  /\ kb' = k /\ sci' = s
  /\ UNCHANGED <<acia, midi, gpip, stale, cut, lost>>

Ready == [kb EXCEPT !.paused = FALSE]

Cmd_StartKeyboardTransfer == Command(Ready, sci)
Cmd_StopKeyboardTransfer == Command([Ready EXCEPT !.paused = ~kb.critical], sci)
Cmd_Reset == Command(BootRom, sci)

\* The joysticks are reported at once, if they moved.
Cmd_ReturnJoystickAuto ==
  \E n \in Lengths : Command([Ready EXCEPT !.ring = SendAll(@, n, 0)], sci)

\* Mutant of Cmd_Return: the delay starts before the look at the room left.
Cmd_Return_DelaysFirst(n, d) ==
  Command([Ready EXCEPT !.ring = SendAll(@, n, 0)], [sci EXCEPT !.delay = d])

\* A command that is answered after a delay (JOYSTICK INTERROGATE, the clock,
\* the reports of modes), or not at all for want of room
Cmd_Return(n, d) ==
  IF Answers(n)
  THEN Command([Ready EXCEPT !.ring = Send(@, n)], [sci EXCEPT !.delay = d])
  ELSE Command(Ready, sci)

-----------------------------------------------------------------------------
(* The clock of the ACIA (ACIA_InterruptHandler_IKBD) *)

\* ACIA_Clock_TX: TDR is taken when the transmitter is idle.
ClockTx(a, idle) == IF idle THEN [a EXCEPT !.tdre = TRUE] ELSE a

\* IKBD_Check_New_TDR
MayLoad == sci.tx = "idle" /\ sci.delay = 0 /\ kb.ring # <<>> /\ ~kb.paused

\* The bit the keyboard puts on the line (IKBD_SCI_Set_Line_TX).
LineBit ==
  CASE sci.tx = "data" -> sci.tsr[1]
    [] sci.tx = "idle" -> IF MayLoad THEN 0 ELSE 1
    [] OTHER -> 1

\* Mutant of ClockSci: the transmitter is idle before the stop bit.
ClockSci_NoStopBit ==
  CASE sci.tx = "data" /\ Len(sci.tsr) > 1 -> [sci EXCEPT !.tsr = Tail(@)]
    [] sci.tx = "data" -> [sci EXCEPT !.tsr = <<>>, !.tx = "idle", !.tdr = <<>>]
    [] MayLoad -> [sci EXCEPT !.tx = "data", !.tdr = kb.ring[1], !.tsr = kb.ring[1]]
    [] OTHER -> [sci EXCEPT !.delay = IF @ > 0 THEN @ - 1 ELSE @]

\* IKBD_SCI_Set_Line_TX
ClockSci ==
  CASE sci.tx = "stop" -> [sci EXCEPT !.tx = "idle", !.tdr = <<>>]
    [] sci.tx = "data" -> [sci EXCEPT !.tsr = Tail(@),
                                      !.tx = IF Len(sci.tsr) = 1 THEN "stop" ELSE "data"]
    [] MayLoad -> [sci EXCEPT !.tx = "data", !.tdr = kb.ring[1], !.tsr = kb.ring[1]]
    [] OTHER -> [sci EXCEPT !.delay = IF @ > 0 THEN @ - 1 ELSE @]

\* Mutant of ClockRx: the bits are shifted the other way.
ClockRx_Reversed(a, bit) ==
  CASE a.rx = "idle" -> IF bit = 0 THEN [a EXCEPT !.rx = "data"] ELSE a
    [] a.rx = "data" -> [a EXCEPT !.rsr = <<bit>> \o @,
                                  !.rx = IF Len(a.rsr) = Width - 1 THEN "stop" ELSE "data"]
    [] OTHER -> IF bit = 0 THEN [a EXCEPT !.rx = "idle", !.rsr = <<>>]
                ELSE IF a.rdrf THEN [a EXCEPT !.rx = "idle", !.rsr = <<>>, !.overrun = TRUE]
                ELSE [a EXCEPT !.rx = "idle", !.rsr = <<>>, !.rdrf = TRUE]

\* ACIA_Clock_RX: a byte with a bad stop bit is not announced; one that finds
\* RDR full is lost.
ClockRx(a, bit) ==
  CASE a.rx = "idle" -> IF bit = 0 THEN [a EXCEPT !.rx = "data"] ELSE a
    [] a.rx = "data" -> [a EXCEPT !.rsr = Append(@, bit),
                                  !.rx = IF Len(a.rsr) = Width - 1 THEN "stop" ELSE "data"]
    [] OTHER -> IF bit = 0 THEN [a EXCEPT !.rx = "idle", !.rsr = <<>>]
                ELSE IF a.rdrf THEN [a EXCEPT !.rx = "idle", !.rsr = <<>>, !.overrun = TRUE]
                ELSE [a EXCEPT !.rx = "idle", !.rsr = <<>>, !.rdrf = TRUE]

Tick ==
  /\ acia.clocked
  /\ sci' = ClockSci
  /\ kb' = IF MayLoad THEN [kb EXCEPT !.ring = Tail(@)] ELSE kb
  /\ \E idle \in BOOLEAN : SetAcia(UpdateIRQ(ClockRx(ClockTx(acia, idle), LineBit)))
  /\ cut' = (cut /\ (acia'.rx # "idle" \/ sci'.tx # "idle"))
  /\ lost' = (lost \/ (acia.rx = "stop" /\ acia.rdrf /\ acia'.overrun))
  /\ UNCHANGED midi

-----------------------------------------------------------------------------
(* MIDI: whole bytes, whose times are left out *)

Midi_Control_Write == \E rie \in BOOLEAN : SetMidi([midi EXCEPT !.rie = rie])

Midi_Data_Read == SetMidi([midi EXCEPT !.rdrf = FALSE])

\* Midi_InterruptHandler_Update: a byte of the host replaces one not read yet.
Midi_Update == SetMidi([midi EXCEPT !.rdrf = TRUE])

\* Midi_Reset, alone when the user enables MIDI (change.c): the line is raised
\* without a look at GPIP 4.
MidiAfterReset == [rie |-> FALSE, rdrf |-> FALSE, irq |-> FALSE, line |-> 1]

Midi_Reset ==
  /\ midi' = MidiAfterReset
  /\ stale' = (stale \/ midi.line = 0)
  /\ UNCHANGED <<acia, sci, kb, gpip, cut, lost>>

-----------------------------------------------------------------------------
(* Reading GPIP, and resets *)

\* MFP_GPIP_ReadByte_Main computes the bit again, without an interrupt.
Read_GPIP ==
  /\ gpip' = GpipOf(acia.line, midi.line)
  /\ stale' = FALSE
  /\ UNCHANGED <<acia, sci, kb, midi, cut, lost>>

\* IKBD_Reset stops the transmitter of the keyboard, MFP_Reset clears GPIP; the
\* ACIA of the keyboard has no reset and goes on.
ResetDevices ==
  /\ sci' = [sci EXCEPT !.tx = "idle", !.tdr = <<>>, !.tsr = <<>>, !.delay = 0]
  /\ kb' = BootRom
  /\ gpip' = 0
  /\ stale' = TRUE
  /\ cut' = (cut \/ Busy)
  /\ UNCHANGED <<acia, lost>>

\* The RESET instruction (customreset)
CustomReset == ResetDevices /\ UNCHANGED midi

\* Reset_ST
Reset_ST == ResetDevices /\ midi' = MidiAfterReset

-----------------------------------------------------------------------------
Program ==
  \/ \E c \in Controls : Write_CR(c) \/ Write_CR_Reset(c)
  \/ Read_SR \/ Read_RDR \/ Write_TDR
  \/ Midi_Control_Write \/ Midi_Data_Read
  \/ Read_GPIP
  \/ CustomReset

Keyboard ==
  \/ Cmd_StartKeyboardTransfer \/ Cmd_StopKeyboardTransfer \/ Cmd_Reset
  \/ Cmd_ReturnJoystickAuto
  \/ \E n \in Replies, d \in Delays \ {0} : Cmd_Return(n, d)

Host == PressKey \/ Midi_Reset \/ Reset_ST

Timers == Tick \/ AutoSend \/ ResetTimer \/ Midi_Update

Next == Program \/ Keyboard \/ Host \/ Timers

Spec == Init /\ [][Next]_vars

\* The timer of the ACIA restarts itself at every tick, and a timer that is due
\* is called (module CycInt).
Fairness == WF_vars(Tick)

FairSpec == Spec /\ Fairness

-----------------------------------------------------------------------------
(* Properties *)

\* An ACIA requests an interrupt exactly while it has a cause, and its line is
\* low exactly then, on every path that changes a cause; only before its first
\* master reset may the line of the keyboard's be low for no cause.  GPIP 4 is
\* low exactly while one of the lines is, unless GPIP 4 was reset or the line of
\* MIDI was, and nobody has moved a line or read GPIP since: then the next fall
\* of the line may pass unseen.
\* (ACIA_Init, ACIA_UpdateIRQ, MIDI_UpdateIRQ, MFP_GPIP_Set_Line_Input)
IrqFollows ==
  /\ acia.irq = Requests(acia)
  /\ acia.irq => acia.line = 0
  /\ acia.line = 0 => acia.irq \/ acia.first
  /\ midi.irq = MidiRequests(midi) /\ (midi.line = 0) = midi.irq
  /\ stale \/ gpip = GpipOf(acia.line, midi.line)

\* A byte the program did not fetch in time is never lost in silence: until it
\* has read SR with OVRN set, the overrun is in the ACIA or in SR.
\* (ACIA_Clock_RX, ACIA_Read_SR, ACIA_Read_RDR)
NoSilentLoss == lost => acia.overrun \/ acia.ovrn

\* No packet of the keyboard is cut: after the first byte of a packet the ring
\* holds all the others, however full it was.  The two bytes of joystick
\* monitoring are the exception, in the code too.
\* (IKBD_OutputBuffer_CheckFreeCount, IKBD_Send_Byte_Delay)
PacketsWhole ==
  \A i \in DOMAIN kb.ring :
    kb.ring[i] = First =>
      \E n \in Lengths \cup Replies :
        /\ i + n - 1 <= Len(kb.ring)
        /\ \A j \in 1 .. n - 1 : kb.ring[i + j] = Data
        /\ i + n <= Len(kb.ring) => kb.ring[i + n] # Data

\* The byte that is announced is the one the keyboard took from its ring,
\* unless a reset has cut it: transmitter and receiver keep in step whatever
\* the program reads and writes meanwhile.
\* (ACIA_Clock_RX, IKBD_SCI_Set_Line_TX)
DeliversBytes ==
  [][acia'.rdrf /\ ~acia.rdrf /\ ~cut => acia.rsr = sci.tdr]_vars

\* Bytes do not stay in the ring: unless the program has paused the keyboard
\* one is sent again and again.  Every answer and every report of the mouse
\* restarts the delay of all the bytes that wait, but takes room in the ring
\* with it, and one that finds none leaves the delay alone.
\* (IKBD_SCI_Set_Line_TX, IKBD_Send_Byte_Delay, IKBD_Cmd_ReturnJoystick,
\* IKBD_SendOnMouseAction)
KeepsSending == []<>(kb.ring = <<>> \/ kb.paused \/ sci.tx # "idle")

\* The bits, the two ACIA and the resets make a link of bytes of the ring: each
\* byte that leaves it arrives or is counted as lost before the next leaves,
\* unless a reset cuts it, and no reset is forgotten while its noise lasts.
\* (IKBD_SCI_Set_Line_TX, ACIA_Clock_RX, ACIA_MasterReset, IKBD_Reset)
Link == INSTANCE ByteLink WITH
  Byte <- Bytes, NoByte <- <<>>,
  ring <- kb.ring, flight <- sci.tdr, full <- acia.rdrf, torn <- cut

ImplementsLink == Link!Spec
=============================================================================
