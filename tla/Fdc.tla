-------------------------------- MODULE Fdc --------------------------------
(***************************************************************************)
(* The floppy controller (fdc.c): the commands as chains of timer events,  *)
(* the registers a program may write meanwhile, Force Interrupt, the       *)
(* interrupt line it shares with the hard disks (GPIP 5), disks that come  *)
(* and go, and the resets.                                                 *)
(*                                                                         *)
(* There is one drive, selected or not; the last track is MaxHead.  Delays *)
(* are left out: an event is immediate (the handler goes on) or pending.   *)
(* The contents of tracks are a choice between the answers a disk can      *)
(* give; the image is one of sectors (ST, STX) or a stream of bits (SCP,   *)
(* KFS).  Left out are the DMA but for the bytes that are left to write,   *)
(* the result bits of the status register, which no step depends on, the   *)
(* IPF emulation, FDC_Skip_FdcCycles_MFM, whose loop never turns, and what *)
(* is written to FDC_DRIVES[-1].                                           *)
(***************************************************************************)
EXTENDS Integers

CONSTANTS
  MaxTR,       \* last value of the track register (255)
  MaxHead,     \* FDC_PHYSICAL_MAX_TRACK
  MaxSR,       \* last value of the sector register (255)
  Sectors,     \* sectors of a track
  Bytes,       \* bytes of a sector, of an ID field, of a track
  SpinUp,      \* FDC_DELAY_IP_SPIN_UP
  MotorOff,    \* FDC_DELAY_IP_MOTOR_OFF
  Search,      \* FDC_DELAY_IP_ADDRESS_ID
  Kinds,       \* commands the program gives, among AllKinds
  FlagSets,    \* and the flags it gives them
  Conds,       \* conditions of Force Interrupt
  Tracks       \* values the program writes to TR and DR

TypeI == {"restore", "seek", "stepin", "stepout"}
TypeII == {"read", "write"}
TypeIII == {"address", "readtrack", "writetrack"}
AllKinds == TypeI \cup TypeII \cup TypeIII
Flags == {"nospin", "verify", "update", "settle", "multi"}

ASSUME ConstantsAssumption ==
  /\ MaxTR \in Nat /\ MaxHead \in Nat \ {0} /\ MaxHead < MaxTR
  /\ MaxSR \in Nat /\ MaxHead <= MaxSR /\ Sectors \subseteq 0 .. MaxSR /\ Sectors # 0 .. MaxSR
  /\ Bytes \in Nat \ {0}
  /\ SpinUp \in Nat \ {0} /\ MotorOff \in Nat \ {0} /\ Search \in Nat \ {0}
  /\ Kinds \subseteq AllKinds
  /\ FlagSets \subseteq SUBSET Flags
  /\ Conds \subseteq SUBSET {"immediate", "index"}
  /\ Tracks \subseteq 0 .. MaxTR

VARIABLES
  fdc,         \* the controller, its timer and the head of the drive
  selected,    \* DriveSelSignal >= 0
  disk,        \* DiskInserted and the type of the image
  warm         \* history: a warm reset, and no command nor RESET since

vars == <<fdc, selected, disk, warm>>

Max2(a, b) == IF a > b THEN a ELSE b
MaxPulses == Max2(SpinUp, Max2(MotorOff, Search))    \* more are not counted

Steps == {"start", "spin_up", "head_load", "motor_on", "loop", "verify", "head_ok",
          "next_header", "check_header", "transfer_start", "transfer", "crc", "multi",
          "rnf", "complete", "index", "stop", "stop_wait"}

TypeOK ==
  /\ fdc \in [cmd : AllKinds \cup {"none", "motor_stop"}, flags : SUBSET Flags, step : Steps,
              timer : {"none", "pending", "handler"}, busy : BOOLEAN, motor : BOOLEAN,
              replace : BOOLEAN, mode : {"timer", "stream"}, ip : 0 .. MaxPulses, left : 0 .. Bytes,
              tr : 0 .. MaxTR, dr : 0 .. MaxTR, sr : 0 .. MaxSR, head : 0 .. MaxHead,
              irq : SUBSET {"complete", "forced", "index", "hdc"},
              cond : SUBSET {"immediate", "index"}, line : {0, 1}]
  /\ selected \in BOOLEAN /\ disk \in {"none", "sectors", "stream"} /\ warm \in BOOLEAN

-----------------------------------------------------------------------------
(* The interrupt *)

\* FDC_SetIRQ: the line is moved by the first source only.
SetIRQ(f, source) ==
  [f EXCEPT !.line = IF f.irq = {} THEN 0 ELSE @,
            !.irq = IF source = "hdc" THEN {"hdc"} ELSE (@ \ {"hdc"}) \cup {source}]

\* Mutant of ClearIRQ: a forced interrupt is cleared like the others.
ClearIRQ_Forced(f) == [f EXCEPT !.irq = {}, !.line = 1]

\* FDC_ClearIRQ
ClearIRQ(f) ==
  IF "forced" \in f.irq THEN [f EXCEPT !.irq = {"forced"}]
  ELSE [f EXCEPT !.irq = {}, !.line = 1]

\* Mutant of ClearHdcIRQ: the line is not the hard disk's alone.
ClearHdcIRQ_Line(f) == [f EXCEPT !.irq = @ \ {"hdc"}, !.line = 1]

\* FDC_ClearHdcIRQ
ClearHdcIRQ(f) ==
  [f EXCEPT !.irq = @ \ {"hdc"}, !.line = IF f.irq \subseteq {"hdc"} THEN 1 ELSE @]

\* A forced interrupt whose command was cancelled is a common one now.
Unforce(f) == IF "immediate" \in f.cond THEN f ELSE [f EXCEPT !.irq = @ \ {"forced"}]

-----------------------------------------------------------------------------
(* Index pulses *)

Ready == selected /\ disk # "none"

\* FDC_IndexPulse_Increase
Pulse(f) ==
  LET g == [f EXCEPT !.ip = IF @ < MaxPulses THEN @ + 1 ELSE @]
  IN IF "index" \in f.cond THEN SetIRQ(g, "index") ELSE g

\* FDC_IndexPulse_CheckUpdate: the pulses of a bit stream that is read are
\* those of the stream.
Timed(f) == f.motor /\ Ready /\ f.mode = "timer"

\* FDC_UpdateAll: the disk may have passed its index if the motor turns it.
UpdateAll(f) == {f} \cup (IF Timed(f) THEN {Pulse(f)} ELSE {})

\* FDC_MFM_Process_MultiBits: reading a stream may pass its index; nothing is
\* read of a side, a track or a density that is not there.
Streamed(f) == {f} \cup (IF Ready /\ disk = "stream" THEN {Pulse(f)} ELSE {})

\* FDC_LoadTrack_MFM has loaded the track of a stream.
Loaded(f) == [f EXCEPT !.mode = IF disk = "stream" THEN "stream" ELSE "timer"]

\* It has failed, as it can for a stream only.
NotLoaded(f) == IF disk = "stream" THEN {[f EXCEPT !.mode = "timer"]} ELSE {}

-----------------------------------------------------------------------------
(* What a step leaves behind: the next step after a delay, or at once *)

After(f, step) == [f EXCEPT !.step = step, !.timer = "pending"]
Now(f, step) == [f EXCEPT !.step = step, !.timer = "handler"]
Stay(f) == After(f, f.step)

\* The motor stop sequence takes the place of the command; what is kept of a
\* command (its flags, whether it may be replaced) means nothing after it.
Stopping(f) ==
  [f EXCEPT !.busy = FALSE, !.cmd = "motor_stop", !.step = "stop", !.flags = {}, !.replace = FALSE]

\* Mutant of CmdComplete: the program is told only of success.
CmdComplete_Silent(f) ==
  Now(Stopping(IF f.step \in {"rnf", "start"} THEN f ELSE SetIRQ(f, "complete")), "stop")

\* FDC_CmdCompleteCommon(true), which starts the motor stop sequence
CmdComplete(f) == Now(Stopping(SetIRQ(f, "complete")), "stop")

\* FDC_UpdateMotorStop
MotorStop(f) ==
  IF f.step = "stop" THEN After([f EXCEPT !.ip = 0, !.mode = IF selected THEN "timer" ELSE @], "stop_wait")
  ELSE IF f.ip < MotorOff THEN Stay(f)
  ELSE [f EXCEPT !.ip = 0, !.motor = FALSE, !.cmd = "none", !.timer = "none"]

-----------------------------------------------------------------------------
(* Type I: restore, seek, step (FDC_UpdateRestoreCmd, FDC_UpdateSeekCmd,   *)
(* FDC_UpdateStepCmd).  Each operator is a case of the switch, and gives    *)
(* the controllers it may leave.                                           *)

\* Restore: as many attempts as the track register has values
RestoreLoop(f) ==
  IF f.tr = 0 THEN {CmdComplete(f)}
  ELSE IF selected /\ f.head = 0 THEN {Now([f EXCEPT !.tr = 0], "verify")}
  ELSE {After([f EXCEPT !.tr = @ - 1, !.head = IF selected THEN @ - 1 ELSE @], "loop")}

\* Mutant of Seek: the head has no last track.
Seek_NoLastTrack(f) ==
  LET d == IF f.dr < f.tr THEN -1 ELSE 1
      g == [f EXCEPT !.tr = @ + d]
  IN IF f.tr = f.dr THEN {Now(f, "verify")}
     ELSE IF ~selected THEN {Stay(g)}
     ELSE IF f.head = 0 /\ d = -1 THEN {Now([g EXCEPT !.tr = 0], "verify")}
     ELSE {Stay([g EXCEPT !.head = @ + d])}

\* One track of a seek; the step stays what it was.
Seek(f) ==
  LET d == IF f.dr < f.tr THEN -1 ELSE 1
      g == [f EXCEPT !.tr = @ + d]
  IN IF f.tr = f.dr THEN {Now(f, "verify")}
     ELSE IF ~selected THEN {Stay(g)}
     ELSE IF f.head = MaxHead /\ d = 1 THEN {Now(g, "verify")}
     ELSE IF f.head = 0 /\ d = -1 THEN {Now([g EXCEPT !.tr = 0], "verify")}
     ELSE {Stay([g EXCEPT !.head = @ + d])}

Step(f) ==
  LET d == IF f.cmd = "stepin" THEN 1 ELSE -1
      g == [f EXCEPT !.tr = IF "update" \in f.flags THEN (@ + d) % (MaxTR + 1) ELSE @]
  IN IF ~selected THEN {After(g, "verify")}
     ELSE IF f.head + d \notin 0 .. MaxHead THEN {Now(g, "verify")}
     ELSE {After([g EXCEPT !.head = @ + d], "verify")}

MotorOnI(f) ==
  LET g == [f EXCEPT !.replace = FALSE]
  IN CASE f.cmd = "restore" -> RestoreLoop([g EXCEPT !.tr = MaxTR, !.step = "loop"])
       [] f.cmd = "seek" -> Seek(g)
       [] OTHER -> Step(g)

\* The search for an ID field ends after too many turns of the disk; a disk
\* that is there may still not give one (side, track, density, end of data).
NextHeaderI(f) ==
  IF f.ip >= Search THEN {After(f, "complete")}
  ELSE UNION {{After(g, "next_header")} \cup (IF Ready THEN {After(g, "check_header")} ELSE {}) :
                g \in Streamed(f)}

HeadOk(f) ==
  LET g == [f EXCEPT !.ip = 0]
  IN IF selected THEN NextHeaderI(Loaded(g)) \cup {After(h, "complete") : h \in NotLoaded(g)}
     ELSE NextHeaderI(g)

\* FDC_VerifyTrack: an ID field may be wrong on purpose.
CheckHeaderI(f) ==
  {Now(f, "next_header")} \cup (IF Ready /\ f.tr = f.head THEN {After(f, "complete")} ELSE {})

TypeIStep(f) ==
  CASE f.step = "motor_on" -> MotorOnI(f)
    [] f.step = "loop" -> RestoreLoop(f)
    [] f.step = "verify" -> {After(f, IF "verify" \in f.flags THEN "head_ok" ELSE "complete")}
    [] f.step = "head_ok" -> HeadOk(f)
    [] f.step = "next_header" -> NextHeaderI(f)
    [] f.step = "check_header" -> CheckHeaderI(f)
    [] f.step = "complete" -> {CmdComplete(f)}

-----------------------------------------------------------------------------
(* Types II and III: read and write sectors, read address, read and write  *)
(* track (FDC_UpdateReadSectorsCmd and those that follow)                  *)

\* Sectors and addresses start with the search for a header.
MotorOnSector(f) ==
  LET g == [f EXCEPT !.replace = FALSE, !.ip = 0]
  IN IF ~selected THEN {Stay(g)}
     ELSE {Now(Loaded(g), "next_header")}
          \cup (IF f.cmd = "write" THEN {} ELSE {Now(h, "rnf") : h \in NotLoaded(g)})

\* Tracks start at the index.
MotorOnTrack(f) ==
  IF ~Ready THEN {Stay(f)}
  ELSE IF f.cmd = "writetrack" THEN {After(f, "index")}
  ELSE {After(g, "index") : g \in Streamed(Loaded(f))} \cup {After(h, "complete") : h \in NotLoaded(f)}

MotorOnII(f) == IF f.cmd \in {"readtrack", "writetrack"} THEN MotorOnTrack(f) ELSE MotorOnSector(f)

\* A command of type II can still be replaced while the head settles.
HeadLoad(f) ==
  LET g == IF f.cmd \in TypeIII THEN [f EXCEPT !.replace = FALSE] ELSE f
  IN IF "settle" \in f.flags THEN {After(g, "motor_on")} ELSE MotorOnII(g)

\* The header is found, or it is not this time.
Headers(f) ==
  UNION {{Stay(g)} \cup (IF Ready
                         THEN {After(g, IF f.cmd = "address" THEN "transfer_start" ELSE "check_header")}
                         ELSE {}) : g \in Streamed(f)}

\* Mutant of NextHeaderII: the turns of the disk are not counted.
NextHeaderII_Endless(f) == Headers(f)

NextHeaderII(f) == IF f.ip >= Search THEN {Now(f, "rnf")} ELSE Headers(f)

\* The registers are compared now, with the ID field read a moment ago.
CheckHeaderII(f) ==
  IF ~selected THEN {Stay(f)}
  ELSE {Now(f, "next_header")}
       \cup (IF f.tr = f.head /\ f.sr \in Sectors THEN {After(f, "transfer_start")} ELSE {})

TransferStart(f) ==
  LET g == [f EXCEPT !.left = Bytes]
  IN IF ~selected THEN {Stay(f)}
     ELSE CASE f.cmd = "read" -> {After(h, "transfer") : h \in Streamed(g)}
                                   \cup {Now(h, "rnf") : h \in Streamed(f)}
            [] f.cmd = "write" -> {Now(g, "transfer")}
            [] OTHER -> {After([g EXCEPT !.sr = f.head], "transfer")}

\* A disk that is protected, or whose density the machine does not handle
Index(f) ==
  LET g == [f EXCEPT !.left = Bytes]
  IN IF ~selected THEN {Stay(f)}
     ELSE IF f.cmd = "readtrack" THEN {After(h, "transfer") : h \in Streamed(g)}
     ELSE {Now(g, "transfer"), CmdComplete(f)}

\* One byte.  A read takes the last byte and ends; a write finds none left.
Transfer(f) ==
  IF f.cmd \in {"write", "writetrack"}
  THEN IF f.left > 0 THEN {Stay([f EXCEPT !.left = @ - 1])}
       ELSE IF f.cmd = "write" THEN {After(f, "crc")} ELSE {Now(f, "complete")}
  ELSE IF f.left > 1 THEN {Stay([f EXCEPT !.left = @ - 1])}
       ELSE {After([f EXCEPT !.left = 0], IF f.cmd = "read" THEN "crc" ELSE "complete")}

\* A bad CRC ends a read, a sector that cannot be written is one not found.
Crc(f) == {Now(f, "multi"), IF f.cmd = "read" THEN CmdComplete(f) ELSE Now(f, "rnf")}

Multi(f) ==
  LET g == [f EXCEPT !.sr = (@ + 1) % (MaxSR + 1)]
  IN IF "multi" \notin f.flags THEN {After(f, "complete")}
     ELSE IF f.cmd = "read" THEN {Now([g EXCEPT !.ip = 0], "next_header")}
     ELSE {Now(g, "motor_on")}

TypeIIStep(f) ==
  CASE f.step = "head_load" -> HeadLoad(f)
    [] f.step = "motor_on" -> MotorOnII(f)
    [] f.step = "next_header" -> NextHeaderII(f)
    [] f.step = "check_header" -> CheckHeaderII(f)
    [] f.step = "transfer_start" -> TransferStart(f)
    [] f.step = "index" -> Index(f)
    [] f.step = "transfer" -> Transfer(f)
    [] f.step = "crc" -> Crc(f)
    [] f.step = "multi" -> Multi(f)
    [] f.step \in {"rnf", "complete"} -> {CmdComplete(f)}

-----------------------------------------------------------------------------
(* The handler *)

\* FDC_Set_MotorON
SetMotorOn(f) ==
  LET g == [f EXCEPT !.motor = TRUE, !.mode = IF Ready THEN "timer" ELSE @]
  IN IF "nospin" \notin f.flags /\ ~f.motor THEN {After([g EXCEPT !.ip = 0], "spin_up")}
     ELSE {Now(g, IF f.cmd \in TypeI THEN "motor_on" ELSE "head_load")}

\* Once the disk turns fast enough the code falls through to the next case.
SpinningUp(f) ==
  IF f.ip < SpinUp THEN {Stay(f)}
  ELSE IF f.cmd \in TypeI THEN MotorOnI(f) ELSE HeadLoad(f)

RunCommand(f) ==
  IF f.cmd = "motor_stop" THEN {MotorStop(f)}
  ELSE IF f.step = "start" THEN SetMotorOn(f)
  ELSE IF f.step = "spin_up" THEN SpinningUp(f)
  ELSE IF f.cmd \in TypeI THEN TypeIStep(f)
  ELSE TypeIIStep(f)

\* A write looks at the protection of the disk, which the user may change, at
\* every event.
Protected(f) == IF f.cmd = "write" /\ Ready THEN {CmdComplete(f)} ELSE {}

\* FDC_InterruptHandler_Update, one turn of its loop; f is the controller after
\* FDC_UpdateAll.
Turn(f) ==
  /\ fdc.timer # "none"
  /\ fdc' \in IF f.cmd = "none" THEN {[f EXCEPT !.timer = "none"]}
              ELSE RunCommand(f) \cup Protected(f)
  /\ UNCHANGED <<selected, disk, warm>>

Update == Turn(fdc)
UpdateAtIndex == Timed(fdc) /\ Turn(Pulse(fdc))

-----------------------------------------------------------------------------
(* The program *)

\* The handler is not interrupted.
Outside == fdc.timer # "handler"

TypeOf(kind) == CASE kind \in TypeI -> 1 [] kind \in TypeII -> 2 [] OTHER -> 3

\* FDC_WriteCommandRegister: a busy controller takes only a command of the
\* same type I or II, and only before the disk turns.
Accepts(f, kind) ==
  f.busy => f.replace /\ TypeOf(kind) = TypeOf(f.cmd) /\ TypeOf(kind) < 3

\* FDC_ExecuteCommand, types I to III
Execute(f, kind, flags) ==
  [ClearIRQ(Unforce(f)) EXCEPT !.cond = {}, !.cmd = kind, !.flags = flags, !.busy = TRUE,
     !.step = "start", !.timer = "pending", !.replace = TRUE]

WriteCommand(kind, flags) ==
  /\ Outside
  /\ \E f \in UpdateAll(fdc) :
       IF Accepts(f, kind) THEN fdc' = Execute(f, kind, flags) /\ warm' = FALSE
       ELSE fdc' = f /\ UNCHANGED warm
  /\ UNCHANGED <<selected, disk>>

\* Mutant of TypeIV: the motor stops by the timer of the command that ran.
TypeIV_NoTimer(f, cond) ==
  LET g == [Unforce(f) EXCEPT !.cond = cond, !.motor = @ \/ ~f.busy]
      h == IF "immediate" \in cond THEN SetIRQ(g, "forced") ELSE ClearIRQ(g)
  IN Stopping(h)

\* Force Interrupt (FDC_TypeIV_ForceInterrupt): the command that runs is
\* replaced by the motor stop sequence, after a delay, without its interrupt.
TypeIV(f, cond) ==
  LET g == [Unforce(f) EXCEPT !.cond = cond, !.motor = @ \/ ~f.busy]
      h == IF "immediate" \in cond THEN SetIRQ(g, "forced") ELSE ClearIRQ(g)
  IN After(Stopping(h), "stop")

ForceInterrupt(cond) ==
  /\ Outside
  /\ \E f \in UpdateAll(fdc) : fdc' = TypeIV(f, cond)
  /\ warm' = FALSE
  /\ UNCHANGED <<selected, disk>>

\* Reading the status register (FDC_DiskControllerStatus_ReadWord)
ReadStatus ==
  /\ Outside
  /\ \E f \in UpdateAll(fdc) : fdc' = ClearIRQ(Unforce(f))
  /\ UNCHANGED <<selected, disk, warm>>

\* The track, sector and data registers can be written at any time.
WriteRegister ==
  /\ Outside
  /\ \E f \in UpdateAll(fdc) :
       \/ \E t \in Tracks : fdc' \in {[f EXCEPT !.tr = t], [f EXCEPT !.dr = t]}
       \/ \E s \in Sectors : fdc' = [f EXCEPT !.sr = s]
  /\ UNCHANGED <<selected, disk, warm>>

\* A change of direction of the DMA (FDC_ResetDMA) forgets the bytes to write.
ResetDMA ==
  /\ Outside
  /\ fdc' = [fdc EXCEPT !.left = IF fdc.cmd \in {"write", "writetrack"} THEN 0 ELSE @]
  /\ UNCHANGED <<selected, disk, warm>>

\* FDC_SetDriveSide
SetDriveSide == Outside /\ selected' = ~selected /\ UNCHANGED <<fdc, disk, warm>>

\* A hard disk on the same line: a command byte clears its interrupt and may
\* raise it (Acsi_WriteCommandByte), so does the end of a transfer
\* (HDC_ACSI_InterruptHandler_Update), and the SCSI chip of the Falcon clears
\* all of them (ncr5380.c).
HdcSetIRQ == Outside /\ fdc' = SetIRQ(fdc, "hdc") /\ UNCHANGED <<selected, disk, warm>>
HdcClearIRQ == Outside /\ fdc' = ClearHdcIRQ(fdc) /\ UNCHANGED <<selected, disk, warm>>
ScsiClearIRQ == Outside /\ fdc' = ClearIRQ(fdc) /\ UNCHANGED <<selected, disk, warm>>

-----------------------------------------------------------------------------
(* The user and the resets *)

InsertFloppy ==
  /\ Outside
  /\ disk = "none" /\ disk' \in {"sectors", "stream"}
  /\ fdc' = [fdc EXCEPT !.mode = "timer"]
  /\ UNCHANGED <<selected, warm>>

EjectFloppy ==
  /\ Outside
  /\ disk # "none" /\ disk' = "none"
  /\ fdc' = [fdc EXCEPT !.mode = "timer"]
  /\ UNCHANGED <<selected, warm>>

\* FDC_Reset after MFP_Reset.  It does not stop the timer.
Reset(f) ==
  [Stopping(f) EXCEPT !.cmd = "none", !.motor = FALSE, !.sr = 1, !.cond = {},
                      !.irq = {}, !.line = 1, !.mode = "timer", !.ip = 0, !.left = 0]

\* The RESET instruction (customreset)
CustomReset == Outside /\ fdc' = Reset(fdc) /\ warm' = FALSE /\ UNCHANGED <<selected, disk>>

\* Reset_Cold: CycInt_Reset stops the timer.
ResetCold ==
  /\ Outside
  /\ fdc' = [Reset(fdc) EXCEPT !.tr = 0, !.dr = 0, !.timer = "none"]
  /\ warm' = FALSE
  /\ UNCHANGED <<selected, disk>>

\* Reset_Warm stops the timer and clears GPIP, and leaves the controller to the
\* RESET instruction of the TOS.
ResetWarm ==
  /\ Outside
  /\ fdc' = [fdc EXCEPT !.timer = "none", !.line = 0]
  /\ warm' = TRUE
  /\ UNCHANGED <<selected, disk>>

-----------------------------------------------------------------------------
Init ==
  /\ fdc = [cmd |-> "none", flags |-> {}, step |-> "stop", timer |-> "none", busy |-> FALSE,
            motor |-> FALSE, replace |-> FALSE, mode |-> "timer", ip |-> 0, left |-> 0,
            tr |-> 0, dr |-> 0, sr |-> 1, head |-> 0,
            irq |-> {}, cond |-> {}, line |-> 1]
  /\ selected = FALSE /\ disk \in {"none", "sectors", "stream"} /\ warm = FALSE

Commands ==
  \/ \E kind \in Kinds, flags \in FlagSets : WriteCommand(kind, flags)
  \/ \E cond \in Conds : ForceInterrupt(cond)

Program ==
  \/ Commands \/ ReadStatus \/ WriteRegister \/ ResetDMA \/ SetDriveSide
  \/ HdcSetIRQ \/ HdcClearIRQ \/ ScsiClearIRQ \/ CustomReset

User == InsertFloppy \/ EjectFloppy \/ ResetCold \/ ResetWarm

Next == Update \/ UpdateAtIndex \/ Program \/ User

Spec == Init /\ [][Next]_vars

\* A pending timer is called (module CycInt), and a disk that is timed passes its
\* index now and then between two events of a command that waits; most events do
\* not see it, being much closer to each other than a turn takes.  Nothing is
\* said of the pulses of a bit stream.
Fairness == WF_vars(Update) /\ WF_vars(UpdateAtIndex)

FairSpec == Spec /\ Fairness

-----------------------------------------------------------------------------
(* Properties *)

\* The status register says busy exactly while a command runs, and what runs
\* has its timer event, whatever replaced or interrupted it: a controller that
\* lost it would be busy for ever.  After a warm reset, which stops the timer
\* only, it has lost it, until the RESET instruction or a new command.
\* (FDC_InterruptHandler_Update, FDC_ExecuteCommand, FDC_CmdCompleteCommon)
CommandHasEvent ==
  /\ fdc.busy = (fdc.cmd \in AllKinds)
  /\ fdc.cmd = "none" \/ fdc.timer # "none" \/ warm

\* The line is low exactly while a source, of the controller or of the hard
\* disk, is recorded; a warm reset alone lowers it without one.
\* (FDC_SetIRQ, FDC_ClearIRQ, FDC_ClearHdcIRQ)
IrqFollows ==
  /\ fdc.irq # {} => fdc.line = 0
  /\ fdc.line = 0 => fdc.irq # {} \/ warm

\* Force Interrupt with an immediate interrupt is stopped only by a command
\* that follows, and a reset, but for the interrupts of a hard disk, which take
\* its place.
\* (FDC_ClearIRQ, FDC_ExecuteCommand)
ForcedStays ==
  [][ /\ "forced" \in fdc.irq /\ "forced" \notin fdc'.irq
      /\ "immediate" \in fdc.cond /\ "hdc" \notin fdc'.irq
      => fdc'.cmd = "none"]_vars

\* A command that ends by its own events raises the interrupt the program waits
\* for, on each way out, errors included; only Force Interrupt and the resets
\* end one without.
\* (FDC_CmdCompleteCommon)
EndsWithIrq ==
  [][fdc.busy /\ ~fdc'.busy /\ (Update \/ UpdateAtIndex) => "complete" \in fdc'.irq]_vars

\* A command that the program leaves alone ends, found or not, if a disk whose
\* image is made of sectors goes on turning in the selected drive.  A search in
\* a bit stream counts the turns of what it reads, and may read nothing for ever.
\* (FDC_UpdateReadSectorsCmd and the other commands, FDC_IndexPulse_CheckUpdate)
CommandsEnd ==
  \/ []<>(~fdc.busy \/ ~selected \/ disk # "sectors" \/ warm)
  \/ []<><<fdc'.step = "start" \/ WriteRegister>>_fdc
=============================================================================
