--------------------------------- MODULE MFP ---------------------------------
(***************************************************************************)
(* The interrupt controller of the MFP 68901 (src/src/mfp.c), one of them  *)
(* or the two of a TT, and the path of its IRQ to the CPU                  *)
(* (M68000_Update_intlev in m68000.c, the SCU of a Mega STE or a TT in     *)
(* scu_vme.c, do_specialties, do_interrupt and iack_cycle in               *)
(* cpu/newcpu.c).                                                          *)
(*                                                                         *)
(* A channel is a number, which is also its priority; a pair of 8 bit      *)
(* registers is the set of the channels whose bit is set.  What happens in *)
(* the emulation thread between two instructions is split into phases:     *)
(*   insn      an instruction runs and may write to the MFPs              *)
(*   access    CycInt_Process_Clock before an access to an MFP            *)
(*   events    CycInt_Process at the end of the instruction               *)
(*   special   the start of do_specialties                                *)
(*   check     do_specialties looks for an interrupt                      *)
(*   iackMfp   CycInt_Process before the acknowledge of level 6           *)
(*   iackHbl   CycInt_Process before the acknowledge of level 2           *)
(*   exception the rest of the exception, and the loop of do_interrupt    *)
(* Timers and lines reach the controller as calls of MFP_InputOnChannel;   *)
(* the HBL stands for the interrupts that do not come from an MFP.         *)
(***************************************************************************)
EXTENDS Integers

CONSTANTS
  MFPs,        \* pMFP_Main, and pMFP_TT on a TT
  Main, TT,
  IntMax,      \* MFP_INT_MAX
  CE,          \* CpuRunCycleExact
  SCU_IsEnabled, \* a Mega STE or a TT: its SCU masks the levels
  Accurate,    \* m68k_accurate_ipl: the CPU looks at regs.ipl, not at intlev()
  IrqDelay,    \* MFP_IRQ_DELAY_TO_CPU
  Never,       \* UINT64_MAX
  Delays,      \* Interrupt_Delayed_Cycles of an input
  MaskedLevels, \* bound of the model: levels whose bit in the masks of the
               \* SCU a program changes
  InsnCycles,  \* bound of the model: cycles of an instruction
  MaxClock     \* bound of the model: last cycle

Channels == 0 .. IntMax
NONE == -1     \* no MFP_Current_Interrupt

MfpLevel == 6
HblLevel == 2

ASSUME ConstantsAssumption ==
  /\ Main \in MFPs /\ MFPs \subseteq {Main, TT} /\ Main # TT
  /\ IntMax \in Nat
  /\ CE \in BOOLEAN /\ Accurate \in BOOLEAN
  /\ SCU_IsEnabled \in BOOLEAN /\ (TT \in MFPs => SCU_IsEnabled)
  /\ IrqDelay \in Nat
  /\ Delays \subseteq Nat
  /\ MaskedLevels \subseteq {2, 6}
  /\ InsnCycles \in Nat
  /\ MaxClock \in Nat
  /\ Never \in Nat /\ MaxClock < Never

VARIABLES
  mfp,                \* the MFP_STRUCT of each MFP
  MFP_UpdateNeeded,
  spcMFP,             \* SPCFLAG_MFP
  IntState,           \* the levels that are set in SysIntState or, from the
                      \* VME bus and for level 6, in VmeIntState
  IntMask,            \* the levels that SysIntMask or VmeIntMask lets through
  pendingInterrupts,  \* the levels that are pending
  ipl_pin,            \* regs.ipl_pin, and regs.ipl[0] that follows it: kept
                      \* at 0 for the CPUs that never read it
  intmask,            \* regs.intmask
  clock,              \* CyclesGlobalClockCounter
  cycles,             \* cycles of the instruction not in clock yet
  phase

scu == <<IntState, IntMask>>
cpu == <<scu, pendingInterrupts, ipl_pin, intmask>>
time == <<clock, cycles>>
vars == <<mfp, MFP_UpdateNeeded, spcMFP, cpu, time, phase>>

Times == 0 .. MaxClock
Levels == {MfpLevel, HblLevel}
Phases == {"insn", "access", "events", "special", "check", "iackMfp", "iackHbl",
           "exception"}

MFP_STRUCT ==
  [IER : SUBSET Channels, IPR : SUBSET Channels,
   ISR : SUBSET Channels, IMR : SUBSET Channels,
   SEI : BOOLEAN,                          \* bit 3 of VR
   Pending_Time : [Channels -> Times \cup {Never}],
   Pending_Time_Min : Times \cup {Never},
   IRQ : BOOLEAN, IRQ_CPU : BOOLEAN, IRQ_Time : Times \cup {Never},
   Current_Interrupt : Channels \cup {NONE}]

TypeOK ==
  /\ mfp \in [MFPs -> MFP_STRUCT]
  /\ MFP_UpdateNeeded \in BOOLEAN
  /\ spcMFP \in BOOLEAN
  /\ IntState \subseteq Levels /\ IntMask \subseteq Levels
  /\ pendingInterrupts \subseteq Levels
  /\ ipl_pin \in Levels \cup {0}
  /\ intmask \in Levels \cup {0}
  /\ clock \in Times /\ cycles \in Times /\ clock + cycles \in Times
  /\ phase \in Phases

-----------------------------------------------------------------------------
(* The functions of mfp.c, on one MFP_STRUCT. *)

\* MFP_Reset
ResetMfp ==
  [IER |-> {}, IPR |-> {}, ISR |-> {}, IMR |-> {}, SEI |-> FALSE,
   Pending_Time |-> [i \in Channels |-> Never], Pending_Time_Min |-> Never,
   IRQ |-> FALSE, IRQ_CPU |-> FALSE, IRQ_Time |-> 0, Current_Interrupt |-> NONE]

\* No channel of the same or of a higher priority is in service.
Outranks(r, i) == \A j \in r.ISR : j < i

\* MFP_InterruptRequest
InterruptRequest(r, i) ==
  /\ i \in r.IPR \cap r.IMR
  /\ r.Pending_Time[i] <= r.Pending_Time_Min
  /\ Outranks(r, i)

Requests(r) == {i \in Channels : InterruptRequest(r, i)}

\* MFP_CheckPendingInterrupts: the highest of the requests.
Highest(S) == CHOOSE i \in S : \A j \in S : j <= i

\* MFP_UpdateIRQ; t is Event_Time.
UpdateIRQ(r, t) ==
  IF Requests(r) = {}
    THEN [r EXCEPT !.IRQ = FALSE, !.Pending_Time_Min = Never]
    ELSE [r EXCEPT
           !.IRQ = TRUE,
           !.IRQ_Time = IF r.IRQ THEN @
                        ELSE IF t # 0 THEN t
                        ELSE r.Pending_Time[Highest(Requests(r))],
           !.Current_Interrupt = Highest(Requests(r)),
           !.Pending_Time_Min = Never]

\* MFP_InputOnChannel, for an event that happened at t.
InputOnChannel(r, i, t) ==
  IF i \in r.IER
    THEN [r EXCEPT
           !.IPR = @ \cup {i},
           !.Pending_Time[i] = t,
           !.Pending_Time_Min = IF i \in r.IMR /\ t < @ THEN t ELSE @]
    ELSE [r EXCEPT !.IPR = @ \ {i}]

\* MFP_ProcessIACK, between its two calls of MFP_UpdateIRQ.  With no current
\* interrupt the bit is shifted out of the registers.
Acknowledge(r) ==
  [r EXCEPT
    !.IPR = @ \ {r.Current_Interrupt},
    !.ISR = IF r.SEI THEN @ \cup ({r.Current_Interrupt} \cap Channels)
                     ELSE @ \ {r.Current_Interrupt}]

\* Mutant of DelayIRQ: IRQ_CPU is kept when IRQ is dropped.
DelayIRQ_KeepsLevel(r) ==
  [r EXCEPT !.IRQ_CPU = @ \/ (r.IRQ /\ clock - r.IRQ_Time >= IrqDelay)]

\* MFP_DelayIRQ, on one MFP.
Propagated(r) == ~r.IRQ \/ clock - r.IRQ_Time >= IrqDelay
DelayIRQ(r) == IF Propagated(r) THEN [r EXCEPT !.IRQ_CPU = r.IRQ] ELSE r

-----------------------------------------------------------------------------
(* The levels of the CPU. *)

\* intlev: the highest level that is pending.
Intlev(p) ==
  IF MfpLevel \in p THEN MfpLevel ELSE IF HblLevel \in p THEN HblLevel ELSE 0

\* The levels that are set, whether or not the SCU lets them through.
Requested == IF SCU_IsEnabled THEN IntState ELSE pendingInterrupts

\* M68000_SetIRQ or M68000_ClearIRQ, after which the levels q are set: where
\* there is an SCU, SCU_UpdatePendingInts_CPU lets those of its mask through.
Forward(q, mask) ==
  IF SCU_IsEnabled THEN IntState' = q /\ pendingInterrupts' = q \cap mask
                   ELSE IntState' = IntState /\ pendingInterrupts' = q

\* M68000_Update_intlev, with the levels q and the MFPs f: doint is called
\* only when a level is pending.  What it writes matters to an Accurate CPU only.
Update_intlev(q, mask, f) ==
  /\ Forward(IF \E m \in MFPs : f[m].IRQ_CPU THEN q \cup {MfpLevel}
                                                ELSE q \ {MfpLevel}, mask)
  /\ ipl_pin' = IF Accurate /\ pendingInterrupts' # {} THEN Intlev(pendingInterrupts')
                ELSE ipl_pin

Init ==
  /\ mfp = [m \in MFPs |-> ResetMfp]
  /\ MFP_UpdateNeeded = FALSE
  /\ spcMFP = FALSE
  /\ IntState = {} /\ IntMask = {}
  /\ pendingInterrupts = {} /\ ipl_pin = 0 /\ intmask = 0
  /\ clock = 0 /\ cycles = 0
  /\ phase = "insn"

-----------------------------------------------------------------------------
(* The devices. *)

\* CycInt_Process or CycInt_Process_Clock runs, and calls handlers.
InHandlers ==
  \/ phase \in {"access", "events", "iackMfp", "iackHbl"}
  \/ phase = "exception" /\ CE

\* Mutant of Input: the delay of the event has the wrong sign.
Input_Late(m, i, d) ==
  /\ InHandlers \/ (phase = "insn" /\ d = 0)
  /\ d <= clock
  /\ mfp' = [mfp EXCEPT ![m] = InputOnChannel(@, i, clock + d)]
  /\ MFP_UpdateNeeded' = TRUE
  /\ UNCHANGED <<spcMFP, cpu, time, phase>>

\* Mutant of Input: the update is asked for only by a channel that becomes
\* pending.
Input_OnlyNew(m, i, d) ==
  /\ InHandlers \/ (phase = "insn" /\ d = 0)
  /\ d <= clock
  /\ mfp' = [mfp EXCEPT ![m] = InputOnChannel(@, i, clock - d)]
  /\ MFP_UpdateNeeded' = (MFP_UpdateNeeded \/ i \notin mfp[m].IPR)
  /\ UNCHANGED <<spcMFP, cpu, time, phase>>

\* MFP_InputOnChannel, called by the handler of a timer with the cycles since
\* it expired, or by a device whose line changes in an instruction.
Input(m, i, d) ==
  /\ InHandlers \/ (phase = "insn" /\ d = 0)
  /\ d <= clock
  /\ mfp' = [mfp EXCEPT ![m] = InputOnChannel(@, i, clock - d)]
  /\ MFP_UpdateNeeded' = TRUE
  /\ UNCHANGED <<spcMFP, cpu, time, phase>>

\* M68000_Exception called by the handler of the HBL.
Hbl ==
  /\ InHandlers
  /\ Update_intlev(Requested \cup {HblLevel}, IntMask, mfp)
  /\ UNCHANGED <<mfp, MFP_UpdateNeeded, spcMFP, IntMask, intmask, time, phase>>

-----------------------------------------------------------------------------
(* The instructions. *)

Elapse ==
  /\ phase = "insn"
  /\ cycles < InsnCycles
  /\ clock + cycles < MaxClock
  /\ cycles' = cycles + 1
  /\ UNCHANGED <<mfp, MFP_UpdateNeeded, spcMFP, cpu, clock, phase>>

\* MFP_UpdateTimers, before it updates the IRQ.
AccessMfp ==
  /\ phase = "insn" /\ CE
  /\ phase' = "access"
  /\ UNCHANGED <<mfp, MFP_UpdateNeeded, spcMFP, cpu, time>>

\* Mutant of TimersUpdated: the events of the instruction are left for later.
TimersUpdated_Skipped(m) == mfp[m]

\* The end of MFP_UpdateTimers: the IRQ of the MFP that is accessed.
TimersUpdated(m) ==
  IF CE /\ MFP_UpdateNeeded THEN UpdateIRQ(mfp[m], clock + cycles) ELSE mfp[m]

\* The MFP whose register is about to be written.
Accessed == phase = IF CE THEN "access" ELSE "insn"

\* A write to a register of m that ends with MFP_UpdateIRQ; r is the MFP with
\* the new register.
Written(m, r) ==
  /\ Accessed
  /\ phase' = "insn"
  /\ MFP_UpdateNeeded' = FALSE
  /\ spcMFP' = TRUE
  /\ mfp' = [mfp EXCEPT ![m] = UpdateIRQ(r, clock + cycles)]
  /\ UNCHANGED <<cpu, time>>

\* MFP_EnableA_WriteByte, MFP_EnableB_WriteByte
WriteEnable(m, v) ==
  LET r == TimersUpdated(m) IN Written(m, [r EXCEPT !.IER = v, !.IPR = @ \cap v])

\* MFP_PendingA_WriteByte, MFP_PendingB_WriteByte
WritePending(m, v) ==
  LET r == TimersUpdated(m) IN Written(m, [r EXCEPT !.IPR = @ \cap v])

\* MFP_InServiceA_WriteByte, MFP_InServiceB_WriteByte
WriteInService(m, v) ==
  LET r == TimersUpdated(m) IN Written(m, [r EXCEPT !.ISR = @ \cap v])

\* Mutant of WriteMask: the IRQ is left to the main loop.
WriteMask_NoUpdate(m, v) ==
  /\ Accessed
  /\ mfp' = [mfp EXCEPT ![m] = [TimersUpdated(m) EXCEPT !.IMR = v]]
  /\ MFP_UpdateNeeded' = TRUE
  /\ phase' = "insn"
  /\ UNCHANGED <<spcMFP, cpu, time>>

\* MFP_MaskA_WriteByte, MFP_MaskB_WriteByte
WriteMask(m, v) ==
  LET r == TimersUpdated(m) IN Written(m, [r EXCEPT !.IMR = v])

\* A write to a register that decides which channels are served.
WriteRegister(m) ==
  \E v \in SUBSET Channels :
    \/ WriteEnable(m, v) \/ WritePending(m, v)
    \/ WriteInService(m, v) \/ WriteMask(m, v)

\* MFP_VectorReg_WriteByte, when it goes back to automatic end of interrupt.
WriteAutomatic(m) ==
  LET r == TimersUpdated(m)
  IN  r.SEI /\ Written(m, [r EXCEPT !.SEI = FALSE, !.ISR = {}])

\* MFP_VectorReg_WriteByte otherwise: the IRQ is updated by MFP_UpdateTimers
\* only.
WriteSoftware(m) ==
  /\ Accessed
  /\ mfp' = [mfp EXCEPT ![m] = [TimersUpdated(m) EXCEPT !.SEI = TRUE]]
  /\ MFP_UpdateNeeded' = (MFP_UpdateNeeded /\ ~CE)
  /\ spcMFP' = (spcMFP \/ (MFP_UpdateNeeded /\ CE))
  /\ phase' = "insn"
  /\ UNCHANGED <<cpu, time>>

\* A change of SR.
SetIntmask(l) ==
  /\ phase = "insn"
  /\ intmask' = l
  /\ UNCHANGED <<mfp, MFP_UpdateNeeded, spcMFP, scu, pendingInterrupts, ipl_pin, time, phase>>

\* An access to SysIntMask (level 2) or VmeIntMask (level 6), which forgets
\* the requests of that register; to the model a read writes the mask it finds.
\* SCU_SysIntMask_WriteByte, SCU_VmeIntMask_WriteByte
AccessIntMask(l, on) ==
  /\ SCU_IsEnabled
  /\ phase = "insn"
  /\ IntMask' = IF on THEN IntMask \cup {l} ELSE IntMask \ {l}
  /\ Update_intlev(IntState \ {l}, IntMask', mfp)
  /\ UNCHANGED <<mfp, MFP_UpdateNeeded, spcMFP, intmask, time, phase>>

\* customreset, for the RESET instruction: the SCU is left alone.
Reset ==
  /\ phase = "insn"
  /\ mfp' = [m \in MFPs |-> ResetMfp]
  /\ pendingInterrupts' = {}
  /\ UNCHANGED <<MFP_UpdateNeeded, spcMFP, scu, ipl_pin, intmask, time, phase>>

EndInstruction ==
  /\ phase = "insn"
  /\ clock' = clock + cycles
  /\ cycles' = 0
  /\ phase' = "events"
  /\ UNCHANGED <<mfp, MFP_UpdateNeeded, spcMFP, cpu>>

-----------------------------------------------------------------------------
(* Between two instructions. *)

\* MFP_UpdateIRQ_All, called with no time when an input asked for it.
UpdateIRQ_All ==
  IF MFP_UpdateNeeded
    THEN /\ mfp' = [m \in MFPs |-> UpdateIRQ(mfp[m], 0)]
         /\ MFP_UpdateNeeded' = FALSE
         /\ spcMFP' = TRUE
    ELSE UNCHANGED <<mfp, MFP_UpdateNeeded, spcMFP>>

EndEvents ==
  /\ phase = "events"
  /\ UpdateIRQ_All
  /\ phase' = "special"
  /\ UNCHANGED <<cpu, time>>

\* Mutant of Specialties: one MFP that is propagated is enough.
Specialties_OneMfp ==
  /\ phase = "special"
  /\ IF spcMFP
       THEN /\ mfp' = [m \in MFPs |-> DelayIRQ(mfp[m])]
            /\ spcMFP' = (\A m \in MFPs : ~Propagated(mfp[m]))
            /\ Update_intlev(Requested, IntMask, mfp')
       ELSE UNCHANGED <<mfp, spcMFP, IntState, pendingInterrupts, ipl_pin>>
  /\ phase' = "check"
  /\ UNCHANGED <<MFP_UpdateNeeded, IntMask, intmask, time>>

\* do_specialties: the IRQs are propagated to the CPU.
Specialties ==
  /\ phase = "special"
  /\ IF spcMFP
       THEN /\ mfp' = [m \in MFPs |-> DelayIRQ(mfp[m])]
            /\ spcMFP' = (\E m \in MFPs : ~Propagated(mfp[m]))
            /\ Update_intlev(Requested, IntMask, mfp')
       ELSE UNCHANGED <<mfp, spcMFP, IntState, pendingInterrupts, ipl_pin>>
  /\ phase' = "check"
  /\ UNCHANGED <<MFP_UpdateNeeded, IntMask, intmask, time>>

\* The level do_specialties and do_interrupt compare with the mask.
Level == IF Accurate THEN ipl_pin ELSE Intlev(pendingInterrupts)

\* do_interrupt, called by do_specialties, or its loop after an exception.
TakeInterrupt ==
  /\ phase \in {"check", "exception"}
  /\ Level > intmask
  /\ phase' = IF Level = MfpLevel THEN "iackMfp" ELSE "iackHbl"
  /\ UNCHANGED <<mfp, MFP_UpdateNeeded, spcMFP, cpu, time>>

\* No interrupt is taken.  Unless the CPU looks at regs.ipl, one that could be
\* may have to wait for an instruction, until doint or a change of SR has set
\* SPCFLAG_INT.
NextInstruction ==
  /\ phase = "check"
  /\ Accurate => Level <= intmask
  /\ phase' = "insn"
  /\ UNCHANGED <<mfp, MFP_UpdateNeeded, spcMFP, cpu, time>>

\* The MFP that answers: the TT MFP comes first in the daisy chain.
Acknowledged == IF TT \in MFPs /\ mfp[TT].IRQ THEN TT ELSE Main

\* The cycles of an exception, before the acknowledge and after it.
ElapseException ==
  /\ phase \in {"iackMfp", "iackHbl", "exception"}
  /\ clock + cycles < MaxClock
  /\ clock' = clock + 1
  /\ UNCHANGED <<mfp, MFP_UpdateNeeded, spcMFP, cpu, cycles, phase>>

\* iack_cycle of level 6: MFP_ProcessIACK.
ProcessIACK ==
  /\ phase = "iackMfp"
  /\ mfp' = [mfp EXCEPT ![Acknowledged] = UpdateIRQ(Acknowledge(UpdateIRQ(@, clock)), clock)]
  /\ MFP_UpdateNeeded' = FALSE
  /\ spcMFP' = TRUE
  /\ Forward(Requested \ {MfpLevel}, IntMask)
  /\ intmask' = MfpLevel
  /\ phase' = "exception"
  /\ UNCHANGED <<IntMask, ipl_pin, time>>

\* iack_cycle of level 2.
ProcessHbl ==
  /\ phase = "iackHbl"
  /\ UpdateIRQ_All
  /\ Forward(Requested \ {HblLevel}, IntMask)
  /\ intmask' = HblLevel
  /\ phase' = "exception"
  /\ UNCHANGED <<IntMask, ipl_pin, time>>

\* The end of do_interrupt, which calls doint; only some CPUs look for another
\* interrupt first.
EndException ==
  /\ phase = "exception"
  /\ Accurate => Level <= intmask
  /\ ipl_pin' = IF Accurate THEN Intlev(pendingInterrupts) ELSE ipl_pin
  /\ phase' = "insn"
  /\ UNCHANGED <<mfp, MFP_UpdateNeeded, spcMFP, scu, pendingInterrupts, intmask, time>>

Next ==
  \/ \E m \in MFPs :
       \/ \E i \in Channels, d \in Delays : Input(m, i, d)
       \/ WriteRegister(m) \/ WriteAutomatic(m) \/ WriteSoftware(m)
  \/ Hbl \/ Elapse \/ AccessMfp
  \/ \E l \in Levels \cup {0} : SetIntmask(l)
  \/ \E l \in MaskedLevels, on \in BOOLEAN : AccessIntMask(l, on)
  \/ Reset \/ EndInstruction \/ EndEvents \/ Specialties
  \/ TakeInterrupt \/ NextInstruction
  \/ ElapseException \/ ProcessIACK \/ ProcessHbl \/ EndException

Spec == Init /\ [][Next]_vars

-----------------------------------------------------------------------------
\* Channel i of m is pending, and neither masked nor blocked by a channel in
\* service.
Serviceable(m, i) == i \in mfp[m].IPR \cap mfp[m].IMR /\ Outranks(mfp[m], i)

\* An MFP that drives its IRQ has an interrupt to give to the CPU: the current
\* one is enabled, pending, not masked, and above all that is in service.
\* (MFP_UpdateIRQ and every handler that changes a register)
IRQHasRequest ==
  \A m \in MFPs : mfp[m].IRQ =>
    /\ mfp[m].Current_Interrupt \in mfp[m].IER
    /\ Serviceable(m, mfp[m].Current_Interrupt)

\* The SCU, where there is one, lets level 6 through.
MfpLevelOpen == SCU_IsEnabled => MfpLevel \in IntMask

\* No change of an IRQ is lost on its way to the CPU: once SPCFLAG_MFP is
\* cleared, which the two MFPs of a TT share, the CPU side of each MFP is as
\* its IRQ, and level 6 is pending exactly when one of them is driven and the
\* SCU lets it through, whatever was acknowledged, masked or reset before.
\* (MFP_DelayIRQ, M68000_Update_intlev, SCU_UpdatePendingInts_CPU, iack_cycle)
IRQReachesCPU ==
  ~spcMFP =>
    /\ \A m \in MFPs : mfp[m].IRQ_CPU = mfp[m].IRQ
    /\ MfpLevel \in pendingInterrupts <=> MfpLevelOpen /\ \E m \in MFPs : mfp[m].IRQ

\* An acknowledge answers a request: exactly one channel stops to be pending,
\* which was enabled, not masked and above all that is in service, and with
\* software end of interrupt exactly this channel comes in service.
\* (MFP_ProcessIACK, iack_cycle)
AcknowledgesRequest ==
  [][ProcessIACK =>
       \E i \in mfp[Acknowledged].IER :
         /\ Serviceable(Acknowledged, i)
         /\ mfp'[Acknowledged].IPR = mfp[Acknowledged].IPR \ {i}
         /\ mfp'[Acknowledged].ISR =
              mfp[Acknowledged].ISR \cup (IF mfp[Acknowledged].SEI THEN {i} ELSE {})]_vars

\* An input the IRQ does not reflect yet is not forgotten: the main loop is
\* told to update the IRQ.  (MFP_InputOnChannel, mfp.c:1125)
InputsAwaitUpdate ==
  \A m \in MFPs : mfp[m].Pending_Time_Min # Never => MFP_UpdateNeeded

\* A write to a register leaves the IRQ exact: driven if and only if a channel
\* can be serviced, the highest of them the current interrupt, even when
\* several timers expired earlier in the instruction.
\* (MFP_UpdateTimers and the handlers of the register writes)
WriteIsExact ==
  [][\A m \in MFPs : WriteRegister(m) =>
         /\ mfp'[m].IRQ <=> \E i \in Channels : Serviceable(m, i)'
         /\ mfp'[m].IRQ => \A i \in Channels :
              Serviceable(m, i)' => i <= mfp'[m].Current_Interrupt]_vars

\* "Pending interrupts are blocked by in-service interrupts" (mfp.c:970): the
\* IRQ is not driven, and no update is due, only when every channel that is
\* pending and not masked is blocked by one in service.
BlockedOnlyByService ==
  \A m \in MFPs : ~mfp[m].IRQ /\ ~MFP_UpdateNeeded =>
    \A i \in Channels : ~Serviceable(m, i)
=============================================================================
