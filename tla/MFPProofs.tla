----------------------------- MODULE MFPProofs -----------------------------
(***************************************************************************)
(* MFP for any number of channels, one or two MFPs, and any bounds: the    *)
(* types, the soundness of the IRQ, its way to the CPU, what an            *)
(* acknowledge answers and what a write to a register leaves.              *)
(*                                                                         *)
(* The functions of mfp.c are reasoned about on one MFP_STRUCT, apart from *)
(* the state; Sound is what each of them keeps.                            *)
(***************************************************************************)
EXTENDS MFP, TLAPS, WellFoundedInduction

\* The part of the invariant about one MFP: only enabled channels are
\* pending, and the current interrupt can be serviced while IRQ is driven.
Sound(r) ==
  /\ r.IPR \subseteq r.IER
  /\ r.IRQ => /\ r.Current_Interrupt \in r.IPR \cap r.IMR
              /\ Outranks(r, r.Current_Interrupt)

\* A set of channels that is not empty has a highest channel.
LEMMA HighestExists ==
  ASSUME NEW S \in SUBSET Channels, S # {}
  PROVE  /\ Highest(S) \in S
         /\ \A j \in S : j <= Highest(S)
<1> DEFINE T == {IntMax - i : i \in S}
<1>1. S \subseteq 0 .. IntMax /\ IntMax \in Nat
  BY ConstantsAssumption DEF Channels
<1>2. T \subseteq Nat /\ T # {}
  <2>1. PICK i \in S : TRUE
    OBVIOUS
  <2>2. IntMax - i \in T
    BY <2>1
  <2>3. \A j \in S : j \in 0 .. IntMax
    BY <1>1
  <2>4. \A j \in S : IntMax - j \in Nat
    BY <1>1, <2>3
  <2>5. QED
    BY <2>2, <2>4
<1>3. PICK x \in T : \A y \in T : ~(<<y, x>> \in OpToRel(<, Nat))
  BY <1>2, NatLessThanWellFounded, WFMin
<1>4. \A y \in T : ~(y < x)
  BY <1>2, <1>3 DEF OpToRel
<1>5. PICK i \in S : x = IntMax - i
  BY <1>3
<1>6. \A j \in S : j <= i
  <2> SUFFICES ASSUME NEW j \in S PROVE j <= i
    OBVIOUS
  <2>1. ~(IntMax - j < IntMax - i)
    BY <1>4, <1>5
  <2>2. QED
    BY <1>1, <2>1
<1>7. QED
  BY <1>6 DEF Highest

-----------------------------------------------------------------------------
(* The functions of mfp.c keep an MFP_STRUCT, and Sound. *)

LEMMA ResetType == ResetMfp \in MFP_STRUCT /\ Sound(ResetMfp)
<1>1. NONE \in Channels \cup {NONE} /\ 0 \in Times /\ Never \in Times \cup {Never}
  BY ConstantsAssumption DEF Times
<1>2. QED
  BY <1>1 DEF ResetMfp, MFP_STRUCT, Sound

\* MFP_UpdateIRQ changes the IRQ, its time, the current interrupt and the
\* oldest pending time only.
LEMMA UpdateIRQKeeps ==
  ASSUME NEW r \in MFP_STRUCT, NEW t \in Times
  PROVE  /\ UpdateIRQ(r, t) \in MFP_STRUCT
         /\ UpdateIRQ(r, t).IER = r.IER
         /\ UpdateIRQ(r, t).IPR = r.IPR
         /\ UpdateIRQ(r, t).IMR = r.IMR
         /\ UpdateIRQ(r, t).ISR = r.ISR
         /\ UpdateIRQ(r, t).SEI = r.SEI
         /\ UpdateIRQ(r, t).IRQ_CPU = r.IRQ_CPU
         /\ UpdateIRQ(r, t).Pending_Time = r.Pending_Time
         /\ UpdateIRQ(r, t).Pending_Time_Min = Never
<1>1. CASE Requests(r) = {}
  BY <1>1 DEF UpdateIRQ, MFP_STRUCT
<1>2. CASE Requests(r) # {}
  <2> DEFINE h == Highest(Requests(r))
  <2>1. Requests(r) \in SUBSET Channels
    BY DEF Requests
  <2>2. h \in Channels
    BY <1>2, <2>1, HighestExists
  <2>3. r.Pending_Time[h] \in Times \cup {Never}
    BY <2>2 DEF MFP_STRUCT
  <2> HIDE DEF h
  <2>4. QED
    BY <1>2, <2>2, <2>3 DEF UpdateIRQ, MFP_STRUCT, h
<1>3. QED
  BY <1>1, <1>2

\* What MFP_UpdateIRQ decides.
LEMMA UpdateIRQDecides ==
  ASSUME NEW r \in MFP_STRUCT, NEW t \in Times
  PROVE  /\ UpdateIRQ(r, t).IRQ <=> Requests(r) # {}
         /\ UpdateIRQ(r, t).IRQ =>
              /\ UpdateIRQ(r, t).Current_Interrupt \in Requests(r)
              /\ \A i \in Requests(r) : i <= UpdateIRQ(r, t).Current_Interrupt
         /\ ~UpdateIRQ(r, t).IRQ =>
              UpdateIRQ(r, t).Current_Interrupt = r.Current_Interrupt
<1>1. CASE Requests(r) = {}
  BY <1>1 DEF UpdateIRQ, MFP_STRUCT
<1>2. CASE Requests(r) # {}
  <2> DEFINE h == Highest(Requests(r))
  <2>1. h \in Requests(r) /\ \A i \in Requests(r) : i <= h
    <3>1. Requests(r) \in SUBSET Channels
      BY DEF Requests
    <3>2. QED
      BY <1>2, <3>1, HighestExists
  <2>2. UpdateIRQ(r, t).Current_Interrupt = h /\ UpdateIRQ(r, t).IRQ = TRUE
    BY <1>2 DEF UpdateIRQ, MFP_STRUCT
  <2> HIDE DEF h
  <2>3. QED
    BY <1>2, <2>1, <2>2
<1>3. QED
  BY <1>1, <1>2

LEMMA UpdateIRQSound ==
  ASSUME NEW r \in MFP_STRUCT, NEW t \in Times, r.IPR \subseteq r.IER
  PROVE  Sound(UpdateIRQ(r, t))
<1> DEFINE u == UpdateIRQ(r, t)
<1>1. /\ u.IPR = r.IPR /\ u.IER = r.IER /\ u.IMR = r.IMR /\ u.ISR = r.ISR
      /\ u.IRQ => u.Current_Interrupt \in Requests(r)
  BY UpdateIRQKeeps, UpdateIRQDecides
<1> HIDE DEF u
<1>2. u.IRQ => /\ u.Current_Interrupt \in r.IPR \cap r.IMR
               /\ Outranks(r, u.Current_Interrupt)
  BY <1>1 DEF Requests, InterruptRequest
<1>3. Sound(u)
  BY <1>1, <1>2 DEF Sound, Outranks
<1>4. QED
  BY <1>3 DEF u

LEMMA InputKeeps ==
  ASSUME NEW r \in MFP_STRUCT, NEW i \in Channels, NEW t \in Times, Sound(r)
  PROVE  /\ InputOnChannel(r, i, t) \in MFP_STRUCT
         /\ Sound(InputOnChannel(r, i, t))
         /\ InputOnChannel(r, i, t).IRQ = r.IRQ
         /\ InputOnChannel(r, i, t).IRQ_CPU = r.IRQ_CPU
<1>1. CASE i \in r.IER
  <2> DEFINE u == InputOnChannel(r, i, t)
  <2>1. /\ u \in MFP_STRUCT
        /\ u.IPR = r.IPR \cup {i} /\ u.IER = r.IER /\ u.IMR = r.IMR /\ u.ISR = r.ISR
        /\ u.IRQ = r.IRQ /\ u.IRQ_CPU = r.IRQ_CPU
        /\ u.Current_Interrupt = r.Current_Interrupt
    BY <1>1 DEF InputOnChannel, MFP_STRUCT
  <2> HIDE DEF u
  <2>2. Sound(u)
    BY <1>1, <2>1 DEF Sound, Outranks
  <2>3. QED
    BY <2>1, <2>2 DEF u
<1>2. CASE i \notin r.IER
  <2> DEFINE u == InputOnChannel(r, i, t)
  <2>1. /\ u \in MFP_STRUCT
        /\ u.IPR = r.IPR \ {i} /\ u.IER = r.IER /\ u.IMR = r.IMR /\ u.ISR = r.ISR
        /\ u.IRQ = r.IRQ /\ u.IRQ_CPU = r.IRQ_CPU
        /\ u.Current_Interrupt = r.Current_Interrupt
    BY <1>2 DEF InputOnChannel, MFP_STRUCT
  <2> HIDE DEF u
  <2>2. r.IPR \ {i} = r.IPR
    BY <1>2 DEF Sound
  <2>3. Sound(u)
    BY <2>1, <2>2 DEF Sound, Outranks
  <2>4. QED
    BY <2>1, <2>3 DEF u
<1>3. QED
  BY <1>1, <1>2

LEMMA AcknowledgeKeeps ==
  ASSUME NEW r \in MFP_STRUCT, r.IPR \subseteq r.IER
  PROVE  /\ Acknowledge(r) \in MFP_STRUCT
         /\ Acknowledge(r).IPR = r.IPR \ {r.Current_Interrupt}
         /\ Acknowledge(r).IER = r.IER
         /\ Acknowledge(r).ISR = IF r.SEI THEN r.ISR \cup ({r.Current_Interrupt} \cap Channels)
                                          ELSE r.ISR \ {r.Current_Interrupt}
         /\ Acknowledge(r).IRQ_CPU = r.IRQ_CPU
  BY DEF Acknowledge, MFP_STRUCT

LEMMA DelayKeeps ==
  ASSUME NEW r \in MFP_STRUCT, Sound(r)
  PROVE  /\ DelayIRQ(r) \in MFP_STRUCT
         /\ Sound(DelayIRQ(r))
         /\ DelayIRQ(r).IRQ = r.IRQ
         /\ DelayIRQ(r).IRQ_CPU => r.IRQ \/ (r.IRQ_CPU /\ ~Propagated(r))
         /\ Propagated(r) => DelayIRQ(r).IRQ_CPU = r.IRQ
<1> DEFINE u == DelayIRQ(r)
<1>1. /\ u \in MFP_STRUCT
      /\ u.IPR = r.IPR /\ u.IER = r.IER /\ u.IMR = r.IMR /\ u.ISR = r.ISR
      /\ u.IRQ = r.IRQ /\ u.Current_Interrupt = r.Current_Interrupt
      /\ u.IRQ_CPU = IF Propagated(r) THEN r.IRQ ELSE r.IRQ_CPU
  BY DEF DelayIRQ, MFP_STRUCT
<1> HIDE DEF u
<1>2. Sound(u)
  BY <1>1 DEF Sound, Outranks
<1>3. u.IRQ_CPU => r.IRQ \/ (r.IRQ_CPU /\ ~Propagated(r))
  BY <1>1
<1>4. QED
  BY <1>1, <1>2, <1>3 DEF u

-----------------------------------------------------------------------------
(* The invariant.  IRQReachesCPU is not inductive: level 6 is acknowledged *)
(* by taking it back, which is right because the MFP that answers drives   *)
(* its IRQ, and level 2 is only taken when level 6 is not pending.  Both   *)
(* have to be carried from the check of do_specialties to the acknowledge, *)
(* through the handlers that run in between.  Behind an SCU the            *)
(* acknowledge of level 2 has the other levels forwarded again: the RESET  *)
(* instruction leaves the SCU with levels that are not pending any more,   *)
(* and level 6 must not be one of them when level 2 is taken.              *)

IRQSeen == \E m \in MFPs : mfp[m].IRQ
CPUSeen == \E m \in MFPs : mfp[m].IRQ_CPU

AllSound == \A m \in MFPs : Sound(mfp[m])

\* Level 6 as the CPU should see it.
LevelSeen == MfpLevelOpen /\ CPUSeen

CheckInv ==
  phase = "check" =>
    /\ MfpLevel \in pendingInterrupts <=> LevelSeen
    /\ \A m \in MFPs : mfp[m].IRQ_CPU => mfp[m].IRQ

IackInv ==
  ~Accurate =>
    /\ phase = "iackMfp" => IRQSeen
    /\ phase = "iackHbl" => ~LevelSeen /\ MfpLevel \notin pendingInterrupts
    /\ phase = "exception" =>
         intmask = MfpLevel \/ (~LevelSeen /\ MfpLevel \notin pendingInterrupts)

\* The levels that are pending are those the SCU lets through.
Agree == pendingInterrupts = IntState \cap IntMask

ScuInv ==
  SCU_IsEnabled =>
    /\ pendingInterrupts = {} \/ Agree
    /\ phase = "iackHbl" => Agree \/ MfpLevel \notin IntState \cap IntMask
    /\ phase = "exception" => Agree
    /\ Accurate /\ MfpLevel \in IntState \cap IntMask => ipl_pin = MfpLevel

Inv == TypeOK /\ AllSound /\ IRQReachesCPU /\ CheckInv /\ IackInv /\ ScuInv

LEMMA InitInv == Init => Inv
<1> SUFFICES ASSUME Init PROVE Inv
  OBVIOUS
<1>1. \A m \in MFPs : mfp[m] = ResetMfp
  BY DEF Init
<1>2. TypeOK
  <2>1. mfp \in [MFPs -> MFP_STRUCT]
    BY ResetType DEF Init
  <2>2. /\ clock \in Times /\ cycles \in Times /\ clock + cycles \in Times
        /\ phase \in Phases
    BY ConstantsAssumption DEF Init, Times, Phases
  <2>3. QED
    BY <2>1, <2>2 DEF Init, TypeOK
<1>3. AllSound
  BY <1>1, ResetType DEF AllSound
<1>4. \A m \in MFPs : mfp[m].IRQ = FALSE /\ mfp[m].IRQ_CPU = FALSE
  <2>1. ResetMfp.IRQ = FALSE /\ ResetMfp.IRQ_CPU = FALSE
    BY DEF ResetMfp
  <2>2. QED
    BY <1>1, <2>1
<1>5. IRQReachesCPU
  BY <1>4 DEF Init, IRQReachesCPU
<1>6. CheckInv /\ IackInv /\ ScuInv
  BY DEF Init, CheckInv, IackInv, ScuInv, Agree
<1>7. QED
  BY <1>2, <1>3, <1>5, <1>6 DEF Inv

-----------------------------------------------------------------------------
(* The devices. *)

\* What does not change mfp, the levels and SPCFLAG_MFP keeps most of Inv.
LEMMA SameMfp ==
  ASSUME Inv, UNCHANGED <<mfp, IntMask, pendingInterrupts, spcMFP>>
  PROVE  AllSound' /\ IRQReachesCPU'
  BY DEF Inv, AllSound, Sound, Outranks, IRQReachesCPU, MfpLevelOpen

\* What does not change the levels, and does not come to the acknowledge of
\* level 2 or to an exception, keeps ScuInv.
LEMMA SameScu ==
  ASSUME Inv, UNCHANGED <<scu, ipl_pin>>,
         pendingInterrupts' = pendingInterrupts \/ pendingInterrupts' = {},
         \/ phase' \notin {"iackHbl", "exception"}
         \/ phase' = phase /\ pendingInterrupts' = pendingInterrupts
  PROVE  ScuInv'
  BY DEF Inv, ScuInv, Agree, scu

LEMMA InputStep ==
  ASSUME Inv, NEW m \in MFPs, NEW i \in Channels, NEW d \in Delays, Input(m, i, d)
  PROVE  Inv'
<1> DEFINE u == InputOnChannel(mfp[m], i, clock - d)
<1>1. mfp[m] \in MFP_STRUCT /\ Sound(mfp[m]) /\ mfp \in [MFPs -> MFP_STRUCT]
  BY DEF Inv, TypeOK, AllSound
<1>2. clock - d \in Times
  BY ConstantsAssumption DEF Inv, TypeOK, Times, Input
<1>3. /\ u \in MFP_STRUCT /\ Sound(u)
      /\ u.IRQ = mfp[m].IRQ /\ u.IRQ_CPU = mfp[m].IRQ_CPU
  BY <1>1, <1>2, InputKeeps
<1>4. mfp' = [mfp EXCEPT ![m] = u]
  BY DEF Input
<1> HIDE DEF u
<1>5. \A k \in MFPs : /\ Sound(mfp'[k])
                      /\ mfp'[k].IRQ = mfp[k].IRQ /\ mfp'[k].IRQ_CPU = mfp[k].IRQ_CPU
  BY <1>1, <1>3, <1>4 DEF Inv, AllSound
<1>6. TypeOK'
  BY <1>1, <1>3, <1>4 DEF Inv, TypeOK, Input, cpu, scu, time
<1>7. AllSound'
  BY <1>5 DEF AllSound
<1>8. IRQSeen' = IRQSeen /\ LevelSeen' = LevelSeen
  BY <1>5 DEF Input, cpu, scu, IRQSeen, CPUSeen, LevelSeen, MfpLevelOpen
<1>9. IRQReachesCPU' /\ CheckInv' /\ IackInv'
  BY <1>5, <1>8
  DEF Inv, Input, cpu, scu, time, IRQReachesCPU, MfpLevelOpen, CheckInv, IackInv
<1>10. ScuInv'
  BY SameScu DEF Input, cpu
<1>11. QED
  BY <1>6, <1>7, <1>9, <1>10 DEF Inv

LEMMA IntlevType == \A p \in SUBSET Levels : Intlev(p) \in Levels \cup {0}
  BY DEF Intlev, Levels

\* What M68000_SetIRQ and M68000_ClearIRQ leave.
LEMMA ForwardKeeps ==
  ASSUME Inv, NEW q \in SUBSET Levels, IntMask' \subseteq Levels, Forward(q, IntMask')
  PROVE  /\ pendingInterrupts' \subseteq Levels /\ IntState' \subseteq Levels
         /\ SCU_IsEnabled => Agree'
         /\ MfpLevel \in pendingInterrupts' <=> MfpLevelOpen' /\ MfpLevel \in q
  BY DEF Forward, Agree, MfpLevelOpen, Inv, TypeOK

LEMMA RequestedType == Inv => Requested \subseteq Levels
  BY DEF Requested, Inv, TypeOK

\* What M68000_Update_intlev leaves when MFP f comes with it.
LEMMA UpdateIntlev ==
  ASSUME Inv, NEW p \in SUBSET Levels, IntMask' \subseteq Levels,
         Update_intlev(p, IntMask', mfp')
  PROVE  /\ pendingInterrupts' \subseteq Levels /\ IntState' \subseteq Levels
         /\ ipl_pin' \in Levels \cup {0}
         /\ MfpLevel \in pendingInterrupts' <=> LevelSeen'
         /\ ScuInv'
<1> DEFINE q == IF \E m \in MFPs : mfp'[m].IRQ_CPU THEN p \cup {MfpLevel} ELSE p \ {MfpLevel}
<1>1. /\ Forward(q, IntMask')
      /\ ipl_pin' = IF Accurate /\ pendingInterrupts' # {} THEN Intlev(pendingInterrupts')
                    ELSE ipl_pin
  BY DEF Update_intlev
<1>2. q \in SUBSET Levels /\ (MfpLevel \in q <=> CPUSeen')
  BY DEF Levels, CPUSeen
<1> HIDE DEF q
<1>3. /\ pendingInterrupts' \subseteq Levels /\ IntState' \subseteq Levels
      /\ SCU_IsEnabled => Agree'
      /\ MfpLevel \in pendingInterrupts' <=> LevelSeen'
  BY <1>1, <1>2, ForwardKeeps DEF LevelSeen
<1>4. ipl_pin' \in Levels \cup {0}
  BY <1>1, <1>3, IntlevType DEF Inv, TypeOK
<1>5. Accurate /\ MfpLevel \in pendingInterrupts' => ipl_pin' = MfpLevel
  BY <1>1 DEF Intlev
<1>6. ScuInv'
  BY <1>3, <1>5 DEF ScuInv, Agree
<1>7. QED
  BY <1>3, <1>4, <1>6

LEMMA HblStep == Inv /\ Hbl => Inv'
<1> SUFFICES ASSUME Inv, Hbl PROVE Inv'
  OBVIOUS
<1>1. /\ mfp' = mfp /\ IntMask' = IntMask
      /\ UNCHANGED <<MFP_UpdateNeeded, spcMFP, intmask, clock, cycles, phase>>
  BY DEF Hbl, time
<1>2. Update_intlev(Requested \cup {HblLevel}, IntMask', mfp')
  BY <1>1 DEF Hbl, Update_intlev, Forward
<1>3. Requested \cup {HblLevel} \in SUBSET Levels /\ IntMask' \subseteq Levels
  BY <1>1, RequestedType DEF Inv, TypeOK, Levels
<1>4. /\ pendingInterrupts' \subseteq Levels /\ IntState' \subseteq Levels
      /\ ipl_pin' \in Levels \cup {0}
      /\ MfpLevel \in pendingInterrupts' <=> LevelSeen'
      /\ ScuInv'
  BY <1>2, <1>3, UpdateIntlev
<1>5. IRQSeen' = IRQSeen /\ LevelSeen' = LevelSeen
  BY <1>1 DEF IRQSeen, CPUSeen, LevelSeen, MfpLevelOpen
<1>6. TypeOK'
  BY <1>1, <1>4 DEF Inv, TypeOK
<1>7. AllSound'
  BY <1>1 DEF Inv, AllSound, Sound, Outranks
<1>8. IRQReachesCPU'
  BY <1>1, <1>4 DEF Inv, IRQReachesCPU, LevelSeen, CPUSeen
<1>9. CheckInv'
  BY <1>1 DEF Hbl, InHandlers, CheckInv
<1>10. IackInv'
  BY <1>1, <1>4, <1>5 DEF Inv, IackInv
<1>11. QED
  BY <1>4, <1>6, <1>7, <1>8, <1>9, <1>10 DEF Inv

-----------------------------------------------------------------------------
(* The instructions. *)

LEMMA TimersUpdatedKeeps ==
  ASSUME Inv, NEW m \in MFPs
  PROVE  TimersUpdated(m) \in MFP_STRUCT /\ Sound(TimersUpdated(m))
<1>1. mfp[m] \in MFP_STRUCT /\ Sound(mfp[m]) /\ clock + cycles \in Times
  BY DEF Inv, TypeOK, AllSound
<1>2. UpdateIRQ(mfp[m], clock + cycles) \in MFP_STRUCT
  BY <1>1, UpdateIRQKeeps
<1>3. mfp[m].IPR \subseteq mfp[m].IER
  BY <1>1 DEF Sound
<1>4. Sound(UpdateIRQ(mfp[m], clock + cycles))
  BY <1>1, <1>3, UpdateIRQSound
<1>5. QED
  BY <1>1, <1>2, <1>4 DEF TimersUpdated

\* A write that leaves the instruction running keeps Inv.
LEMMA WrittenStep ==
  ASSUME Inv, NEW m \in MFPs, NEW r \in MFP_STRUCT, r.IPR \subseteq r.IER, Written(m, r)
  PROVE  Inv'
<1> DEFINE u == UpdateIRQ(r, clock + cycles)
<1>1. clock + cycles \in Times /\ mfp \in [MFPs -> MFP_STRUCT]
  BY DEF Inv, TypeOK
<1>2. u \in MFP_STRUCT /\ Sound(u)
  BY <1>1, UpdateIRQKeeps, UpdateIRQSound
<1>3. /\ mfp' = [mfp EXCEPT ![m] = u] /\ spcMFP' = TRUE /\ MFP_UpdateNeeded' = FALSE
      /\ phase' = "insn" /\ UNCHANGED <<cpu, time>>
  BY DEF Written
<1> HIDE DEF u
<1>4. TypeOK'
  BY <1>1, <1>2, <1>3 DEF Inv, TypeOK, cpu, scu, time, Phases
<1>5. AllSound'
  <2>1. \A k \in MFPs : mfp'[k] = IF k = m THEN u ELSE mfp[k]
    BY <1>1, <1>3
  <2>2. \A k \in MFPs : Sound(mfp'[k])
    BY <1>2, <2>1 DEF Inv, AllSound
  <2>3. QED
    BY <2>2 DEF AllSound, Sound, Outranks
<1>6. IRQReachesCPU' /\ CheckInv' /\ IackInv'
  BY <1>3 DEF IRQReachesCPU, CheckInv, IackInv
<1>7. ScuInv'
  BY <1>3, SameScu DEF cpu
<1>8. QED
  BY <1>4, <1>5, <1>6, <1>7 DEF Inv

LEMMA WriteRegisterStep ==
  ASSUME Inv, NEW m \in MFPs, WriteRegister(m)
  PROVE  Inv'
<1> DEFINE t == TimersUpdated(m)
<1>1. t \in MFP_STRUCT /\ t.IPR \subseteq t.IER
  BY TimersUpdatedKeeps DEF Sound
<1>2. PICK v \in SUBSET Channels : WriteEnable(m, v) \/ WritePending(m, v)
                                   \/ WriteInService(m, v) \/ WriteMask(m, v)
  BY DEF WriteRegister
<1> DEFINE e == [t EXCEPT !.IER = v, !.IPR = @ \cap v]
           p == [t EXCEPT !.IPR = @ \cap v]
           s == [t EXCEPT !.ISR = @ \cap v]
           k == [t EXCEPT !.IMR = v]
<1>3. Written(m, e) \/ Written(m, p) \/ Written(m, s) \/ Written(m, k)
  BY <1>2 DEF WriteEnable, WritePending, WriteInService, WriteMask
<1> HIDE DEF t
<1>4. /\ e \in MFP_STRUCT /\ e.IPR \subseteq e.IER
      /\ p \in MFP_STRUCT /\ p.IPR \subseteq p.IER
      /\ s \in MFP_STRUCT /\ s.IPR \subseteq s.IER
      /\ k \in MFP_STRUCT /\ k.IPR \subseteq k.IER
  BY <1>1 DEF MFP_STRUCT
<1> HIDE DEF e, p, s, k
<1>5. QED
  BY <1>3, <1>4, WrittenStep

LEMMA WriteAutomaticStep ==
  ASSUME Inv, NEW m \in MFPs, WriteAutomatic(m)
  PROVE  Inv'
<1> DEFINE t == TimersUpdated(m)
           a == [t EXCEPT !.SEI = FALSE, !.ISR = {}]
<1>1. t \in MFP_STRUCT /\ t.IPR \subseteq t.IER
  BY TimersUpdatedKeeps DEF Sound
<1>2. Written(m, a)
  BY DEF WriteAutomatic
<1> HIDE DEF t
<1>3. a \in MFP_STRUCT /\ a.IPR \subseteq a.IER
  BY <1>1 DEF MFP_STRUCT
<1> HIDE DEF a
<1>4. QED
  BY <1>2, <1>3, WrittenStep

LEMMA WriteSoftwareStep ==
  ASSUME Inv, NEW m \in MFPs, WriteSoftware(m)
  PROVE  Inv'
<1> DEFINE t == TimersUpdated(m)
           u == [t EXCEPT !.SEI = TRUE]
<1>1. t \in MFP_STRUCT /\ Sound(t)
  BY TimersUpdatedKeeps
<1>2. /\ mfp' = [mfp EXCEPT ![m] = u] /\ phase' = "insn" /\ UNCHANGED <<cpu, time>>
      /\ MFP_UpdateNeeded' = (MFP_UpdateNeeded /\ ~CE)
      /\ spcMFP' = (spcMFP \/ (MFP_UpdateNeeded /\ CE))
  BY DEF WriteSoftware
<1>3. ~spcMFP' => ~spcMFP /\ t = mfp[m]
  BY <1>2, ConstantsAssumption DEF TimersUpdated, Inv, TypeOK
<1> HIDE DEF t
<1>4. /\ u \in MFP_STRUCT /\ u.IPR = t.IPR /\ u.IER = t.IER /\ u.IMR = t.IMR
      /\ u.ISR = t.ISR /\ u.IRQ = t.IRQ /\ u.Current_Interrupt = t.Current_Interrupt
      /\ u.IRQ_CPU = t.IRQ_CPU
  BY <1>1 DEF MFP_STRUCT
<1> HIDE DEF u
<1>5. Sound(u)
  BY <1>1, <1>4 DEF Sound, Outranks
<1>6. \A k \in MFPs : mfp'[k] = IF k = m THEN u ELSE mfp[k]
  BY <1>2 DEF Inv, TypeOK
<1>7. TypeOK'
  BY <1>2, <1>4 DEF Inv, TypeOK, cpu, scu, time, Phases
<1>8. AllSound'
  <2>1. \A k \in MFPs : Sound(mfp'[k])
    BY <1>5, <1>6 DEF Inv, AllSound
  <2>2. QED
    BY <2>1 DEF AllSound, Sound, Outranks
<1>9. IRQReachesCPU'
  <2> SUFFICES ASSUME ~spcMFP' PROVE IRQReachesCPU'
    BY DEF IRQReachesCPU
  <2>1. \A k \in MFPs : mfp'[k].IRQ = mfp[k].IRQ /\ mfp'[k].IRQ_CPU = mfp[k].IRQ_CPU
    BY <1>3, <1>4, <1>6
  <2>2. QED
    BY <1>2, <1>3, <2>1 DEF Inv, IRQReachesCPU, MfpLevelOpen, cpu, scu
<1>10. CheckInv' /\ IackInv'
  BY <1>2 DEF CheckInv, IackInv
<1>11. ScuInv'
  BY <1>2, SameScu DEF cpu
<1>12. QED
  BY <1>7, <1>8, <1>9, <1>10, <1>11 DEF Inv

LEMMA ResetStep == Inv /\ Reset => Inv'
<1> SUFFICES ASSUME Inv, Reset PROVE Inv'
  OBVIOUS
<1>1. /\ mfp' = [m \in MFPs |-> ResetMfp] /\ pendingInterrupts' = {}
      /\ phase' = "insn"
      /\ UNCHANGED <<MFP_UpdateNeeded, spcMFP, scu, ipl_pin, intmask, clock, cycles>>
  BY DEF Reset, time
<1>2. \A m \in MFPs : mfp'[m] = ResetMfp
  BY <1>1
<1>3. ResetMfp.IRQ = FALSE /\ ResetMfp.IRQ_CPU = FALSE
  BY DEF ResetMfp
<1>4. TypeOK'
  BY <1>1, ResetType DEF Inv, TypeOK, Phases, scu
<1>5. AllSound'
  <2>1. \A k \in MFPs : Sound(mfp'[k])
    BY <1>2, ResetType
  <2>2. QED
    BY <2>1 DEF AllSound, Sound, Outranks
<1>6. IRQReachesCPU'
  BY <1>1, <1>2, <1>3 DEF IRQReachesCPU
<1>7. CheckInv' /\ IackInv'
  BY <1>1 DEF CheckInv, IackInv
<1>8. ScuInv'
  BY <1>1, SameScu
<1>9. QED
  BY <1>4, <1>5, <1>6, <1>7, <1>8 DEF Inv

\* An access to a mask of the SCU refreshes the levels at once.
LEMMA AccessIntMaskStep ==
  ASSUME Inv, NEW l \in MaskedLevels, NEW on \in BOOLEAN, AccessIntMask(l, on)
  PROVE  Inv'
<1>1. /\ mfp' = mfp /\ phase' = phase /\ phase = "insn"
      /\ UNCHANGED <<MFP_UpdateNeeded, spcMFP, intmask, clock, cycles>>
      /\ IntMask' = IF on THEN IntMask \cup {l} ELSE IntMask \ {l}
      /\ Update_intlev(IntState \ {l}, IntMask', mfp)
  BY DEF AccessIntMask, time
<1>2. Update_intlev(IntState \ {l}, IntMask', mfp')
  BY <1>1 DEF Update_intlev
<1>3. IntState \ {l} \in SUBSET Levels /\ IntMask' \subseteq Levels
  BY <1>1, ConstantsAssumption DEF Inv, TypeOK, Levels, MfpLevel, HblLevel
<1>4. /\ pendingInterrupts' \subseteq Levels /\ IntState' \subseteq Levels
      /\ ipl_pin' \in Levels \cup {0}
      /\ MfpLevel \in pendingInterrupts' <=> LevelSeen'
      /\ ScuInv'
  BY <1>2, <1>3, UpdateIntlev
<1>5. TypeOK'
  BY <1>1, <1>3, <1>4 DEF Inv, TypeOK
<1>6. AllSound'
  BY <1>1 DEF Inv, AllSound, Sound, Outranks
<1>7. IRQReachesCPU'
  BY <1>1, <1>4 DEF Inv, IRQReachesCPU, LevelSeen, CPUSeen
<1>8. CheckInv' /\ IackInv'
  BY <1>1 DEF CheckInv, IackInv
<1>9. QED
  BY <1>4, <1>5, <1>6, <1>7, <1>8 DEF Inv

\* What only changes the time, the mask or the phase within an instruction, or
\* goes from one to the next.
Quiet ==
  \/ Elapse \/ AccessMfp \/ (\E l \in Levels \cup {0} : SetIntmask(l))
  \/ EndInstruction \/ NextInstruction \/ EndException

LEMMA QuietStep == Inv /\ Quiet => Inv'
<1> SUFFICES ASSUME Inv, Quiet PROVE Inv'
  OBVIOUS
<1>1. UNCHANGED <<mfp, scu, pendingInterrupts, spcMFP, MFP_UpdateNeeded>>
  BY DEF Quiet, Elapse, AccessMfp, SetIntmask, EndInstruction, NextInstruction,
         EndException, cpu
<1>2. phase' \in {"insn", "access", "events"}
  BY DEF Quiet, Elapse, AccessMfp, SetIntmask, EndInstruction, NextInstruction,
         EndException
<1>3. clock' \in Times /\ cycles' \in Times /\ clock' + cycles' \in Times
  <2>1. CASE Elapse
    BY <2>1, ConstantsAssumption DEF Inv, TypeOK, Times, Elapse
  <2>2. CASE EndInstruction
    BY <2>2, ConstantsAssumption DEF Inv, TypeOK, Times, EndInstruction
  <2>3. CASE UNCHANGED time
    BY <2>3 DEF Inv, TypeOK, time
  <2>4. QED
    BY <2>1, <2>2, <2>3 DEF Quiet, AccessMfp, SetIntmask, NextInstruction, EndException
<1>4. ipl_pin' \in Levels \cup {0} /\ intmask' \in Levels \cup {0}
  <2>1. CASE EndException
    BY <2>1, IntlevType DEF Inv, TypeOK, EndException
  <2>2. CASE ~EndException
    BY <2>2 DEF Inv, TypeOK, Quiet, Elapse, AccessMfp, SetIntmask, EndInstruction,
                NextInstruction, cpu
  <2>3. QED
    BY <2>1, <2>2
<1>5. TypeOK'
  BY <1>1, <1>2, <1>3, <1>4 DEF Inv, TypeOK, Phases, scu
<1>6. AllSound' /\ IRQReachesCPU'
  BY <1>1, SameMfp DEF scu
<1>7. CheckInv' /\ IackInv'
  BY <1>2 DEF CheckInv, IackInv
<1>8. ScuInv'
  <2>1. CASE EndException
    <3>1. /\ phase = "exception"
          /\ ipl_pin' = IF Accurate THEN Intlev(pendingInterrupts) ELSE ipl_pin
      BY <2>1 DEF EndException
    <3>2. SCU_IsEnabled => Agree
      BY <3>1 DEF Inv, ScuInv
    <3>3. MfpLevel \in pendingInterrupts => Intlev(pendingInterrupts) = MfpLevel
      BY DEF Intlev
    <3>4. QED
      BY <1>1, <1>2, <3>1, <3>2, <3>3 DEF ScuInv, Agree, scu
  <2>2. CASE ~EndException
    <3>1. ipl_pin' = ipl_pin
      BY <2>2 DEF Quiet, Elapse, AccessMfp, SetIntmask, EndInstruction,
                  NextInstruction, cpu
    <3>2. QED
      BY <1>1, <1>2, <3>1, SameScu
  <2>3. QED
    BY <2>1, <2>2
<1>9. QED
  BY <1>5, <1>6, <1>7, <1>8 DEF Inv

-----------------------------------------------------------------------------
(* Between two instructions. *)

LEMMA UpdateIRQ_AllKeeps ==
  ASSUME Inv, UpdateIRQ_All
  PROVE  /\ mfp' \in [MFPs -> MFP_STRUCT]
         /\ MFP_UpdateNeeded' \in BOOLEAN /\ spcMFP' \in BOOLEAN
         /\ AllSound'
         /\ \A k \in MFPs : mfp'[k].IRQ_CPU = mfp[k].IRQ_CPU
         /\ ~spcMFP' => ~spcMFP /\ mfp' = mfp
<1>1. 0 \in Times
  BY ConstantsAssumption DEF Times
<1>2. CASE MFP_UpdateNeeded
  <2>1. /\ mfp' = [m \in MFPs |-> UpdateIRQ(mfp[m], 0)]
        /\ MFP_UpdateNeeded' = FALSE /\ spcMFP' = TRUE
    BY <1>2 DEF UpdateIRQ_All
  <2>2. ASSUME NEW k \in MFPs
        PROVE  /\ UpdateIRQ(mfp[k], 0) \in MFP_STRUCT /\ Sound(UpdateIRQ(mfp[k], 0))
               /\ UpdateIRQ(mfp[k], 0).IRQ_CPU = mfp[k].IRQ_CPU
    <3>1. mfp[k] \in MFP_STRUCT /\ Sound(mfp[k])
      BY DEF Inv, TypeOK, AllSound
    <3>2. mfp[k].IPR \subseteq mfp[k].IER
      BY <3>1 DEF Sound
    <3>3. QED
      BY <1>1, <3>1, <3>2, UpdateIRQKeeps, UpdateIRQSound
  <2>3. \A k \in MFPs : Sound(mfp'[k])
    BY <2>1, <2>2
  <2>4. AllSound'
    BY <2>3 DEF AllSound, Sound, Outranks
  <2>5. QED
    BY <2>1, <2>2, <2>4
<1>3. CASE ~MFP_UpdateNeeded
  <2>1. UNCHANGED <<mfp, MFP_UpdateNeeded, spcMFP>>
    BY <1>3 DEF UpdateIRQ_All
  <2>2. AllSound'
    BY <2>1 DEF Inv, AllSound, Sound, Outranks
  <2>3. QED
    BY <2>1, <2>2 DEF Inv, TypeOK
<1>4. QED
  BY <1>2, <1>3

LEMMA EndEventsStep == Inv /\ EndEvents => Inv'
<1> SUFFICES ASSUME Inv, EndEvents PROVE Inv'
  OBVIOUS
<1>1. UpdateIRQ_All /\ phase' = "special" /\ UNCHANGED <<cpu, time>>
  BY DEF EndEvents
<1>2. TypeOK' /\ AllSound'
  BY <1>1, UpdateIRQ_AllKeeps DEF Inv, TypeOK, cpu, scu, time, Phases
<1>3. IRQReachesCPU'
  BY <1>1, UpdateIRQ_AllKeeps DEF Inv, IRQReachesCPU, MfpLevelOpen, cpu, scu
<1>4. CheckInv' /\ IackInv'
  BY <1>1 DEF CheckInv, IackInv
<1>5. ScuInv'
  BY <1>1, SameScu DEF cpu
<1>6. QED
  BY <1>2, <1>3, <1>4, <1>5 DEF Inv

LEMMA SpecialtiesStep == Inv /\ Specialties => Inv'
<1> SUFFICES ASSUME Inv, Specialties PROVE Inv'
  OBVIOUS
<1>1. phase' = "check" /\ UNCHANGED <<MFP_UpdateNeeded, IntMask, intmask, clock, cycles>>
  BY DEF Specialties, time
<1>2. CASE ~spcMFP
  <2>1. UNCHANGED <<mfp, spcMFP, IntState, pendingInterrupts, ipl_pin>>
    BY <1>2 DEF Specialties
  <2>2. TypeOK'
    BY <1>1, <2>1 DEF Inv, TypeOK, Phases
  <2>3. AllSound' /\ IRQReachesCPU'
    BY <1>1, <2>1, SameMfp
  <2>4. CheckInv'
    BY <1>1, <1>2, <2>1
    DEF Inv, IRQReachesCPU, CheckInv, LevelSeen, MfpLevelOpen, CPUSeen
  <2>5. IackInv' /\ ScuInv'
    BY <1>1, <2>1, SameScu DEF IackInv, scu
  <2>6. QED
    BY <2>2, <2>3, <2>4, <2>5 DEF Inv
<1>3. CASE spcMFP
  <2>1. /\ mfp' = [m \in MFPs |-> DelayIRQ(mfp[m])]
        /\ spcMFP' = (\E m \in MFPs : ~Propagated(mfp[m]))
        /\ Update_intlev(Requested, IntMask', mfp')
    BY <1>1, <1>3 DEF Specialties, Update_intlev, Forward
  <2>2. ASSUME NEW k \in MFPs
        PROVE  /\ mfp'[k] \in MFP_STRUCT /\ Sound(mfp'[k])
               /\ mfp'[k].IRQ = mfp[k].IRQ
               /\ mfp'[k].IRQ_CPU => mfp[k].IRQ
               /\ Propagated(mfp[k]) => mfp'[k].IRQ_CPU = mfp[k].IRQ
    <3>1. mfp[k] \in MFP_STRUCT /\ Sound(mfp[k]) /\ mfp'[k] = DelayIRQ(mfp[k])
      BY <2>1 DEF Inv, TypeOK, AllSound
    <3>2. ~Propagated(mfp[k]) => mfp[k].IRQ
      BY <3>1 DEF Propagated
    <3>3. QED
      BY <3>1, <3>2, DelayKeeps
  <2>3. /\ pendingInterrupts' \subseteq Levels /\ IntState' \subseteq Levels
        /\ ipl_pin' \in Levels \cup {0}
        /\ MfpLevel \in pendingInterrupts' <=> LevelSeen'
        /\ ScuInv'
    <3>1. Requested \in SUBSET Levels /\ IntMask' \subseteq Levels
      BY <1>1, RequestedType DEF Inv, TypeOK
    <3>2. QED
      BY <2>1, <3>1, UpdateIntlev
  <2>4. mfp' \in [MFPs -> MFP_STRUCT] /\ spcMFP' \in BOOLEAN
    BY <2>1, <2>2
  <2>5. TypeOK'
    BY <1>1, <2>3, <2>4 DEF Inv, TypeOK, Phases
  <2>6. AllSound'
    BY <2>2 DEF AllSound, Sound, Outranks
  <2>7. CheckInv'
    BY <2>2, <2>3 DEF CheckInv, CPUSeen
  <2>8. IRQReachesCPU'
    <3> SUFFICES ASSUME ~spcMFP' PROVE IRQReachesCPU'
      BY DEF IRQReachesCPU
    <3>1. \A k \in MFPs : mfp'[k].IRQ_CPU = mfp'[k].IRQ
      BY <2>1, <2>2
    <3>2. QED
      BY <2>3, <3>1 DEF IRQReachesCPU, LevelSeen, CPUSeen
  <2>9. IackInv'
    BY <1>1 DEF IackInv
  <2>10. QED
    BY <2>3, <2>5, <2>6, <2>7, <2>8, <2>9 DEF Inv
<1>4. QED
  BY <1>2, <1>3

LEMMA TakeInterruptStep == Inv /\ TakeInterrupt => Inv'
<1> SUFFICES ASSUME Inv, TakeInterrupt PROVE Inv'
  OBVIOUS
<1>1. /\ UNCHANGED <<mfp, MFP_UpdateNeeded, spcMFP, IntState, IntMask,
                      pendingInterrupts, ipl_pin, intmask, clock, cycles>>
      /\ phase \in {"check", "exception"} /\ phase' \in {"iackMfp", "iackHbl"}
      /\ phase' = "iackMfp" <=> Level = MfpLevel
      /\ Level > intmask
  BY DEF TakeInterrupt, cpu, scu, time
<1>2. TypeOK'
  BY <1>1 DEF Inv, TypeOK, Phases
<1>3. AllSound' /\ IRQReachesCPU'
  BY <1>1, SameMfp
<1>4. CheckInv'
  BY <1>1 DEF CheckInv
<1>5. IRQSeen' = IRQSeen /\ LevelSeen' = LevelSeen
  BY <1>1 DEF IRQSeen, CPUSeen, LevelSeen, MfpLevelOpen
<1>6. IackInv'
  <2> SUFFICES ASSUME ~Accurate PROVE IackInv'
    BY DEF IackInv
  <2>1. Level = MfpLevel <=> MfpLevel \in pendingInterrupts
    BY DEF Level, Intlev, MfpLevel, HblLevel
  <2>2. CASE phase = "check"
    <3>1. MfpLevel \in pendingInterrupts <=> LevelSeen
      BY <2>2 DEF Inv, CheckInv
    <3>2. LevelSeen => IRQSeen
      BY <2>2 DEF Inv, CheckInv, LevelSeen, CPUSeen, IRQSeen
    <3>3. QED
      BY <1>1, <1>5, <2>1, <3>1, <3>2 DEF IackInv
  <2>3. CASE phase = "exception"
    <3>1. intmask # MfpLevel
      BY <1>1 DEF Level, Intlev, MfpLevel, HblLevel
    <3>2. ~LevelSeen /\ MfpLevel \notin pendingInterrupts
      BY <2>3, <3>1 DEF Inv, IackInv
    <3>3. QED
      BY <1>1, <1>5, <2>1, <3>2 DEF IackInv
  <2>4. QED
    BY <1>1, <2>2, <2>3
<1>7. ScuInv'
  <2>1. CASE phase = "exception"
    BY <1>1, <2>1 DEF Inv, ScuInv, Agree
  <2>2. CASE phase = "check" /\ Accurate
    <3>1. phase' = "iackHbl" => ipl_pin # MfpLevel
      BY <1>1, <2>2 DEF Level
    <3>2. QED
      BY <1>1, <2>2, <3>1 DEF Inv, ScuInv, Agree
  <2>3. CASE phase = "check" /\ ~Accurate
    <3>1. pendingInterrupts # {}
      BY <1>1, <2>3 DEF Level, Intlev, Inv, TypeOK, Levels, MfpLevel, HblLevel
    <3>2. QED
      BY <1>1, <2>3, <3>1 DEF Inv, ScuInv, Agree
  <2>4. QED
    BY <1>1, <2>1, <2>2, <2>3, ConstantsAssumption
<1>8. QED
  BY <1>2, <1>3, <1>4, <1>6, <1>7 DEF Inv

LEMMA ElapseExceptionStep == Inv /\ ElapseException => Inv'
<1> SUFFICES ASSUME Inv, ElapseException PROVE Inv'
  OBVIOUS
<1>1. /\ UNCHANGED <<mfp, MFP_UpdateNeeded, spcMFP, IntState, IntMask,
                      pendingInterrupts, ipl_pin, intmask, cycles, phase>>
      /\ clock' = clock + 1 /\ clock + cycles < MaxClock
  BY DEF ElapseException, cpu, scu
<1>2. clock' \in Times /\ clock' + cycles' \in Times
  BY <1>1, ConstantsAssumption DEF Inv, TypeOK, Times
<1>3. TypeOK'
  BY <1>1, <1>2 DEF Inv, TypeOK
<1>4. AllSound' /\ IRQReachesCPU'
  BY <1>1, SameMfp
<1>5. CheckInv' /\ IackInv' /\ ScuInv'
  BY <1>1
  DEF Inv, CheckInv, IackInv, IRQSeen, LevelSeen, CPUSeen, MfpLevelOpen, ScuInv, Agree
<1>6. QED
  BY <1>3, <1>4, <1>5 DEF Inv

LEMMA AcknowledgedType == Acknowledged \in MFPs
  BY ConstantsAssumption DEF Acknowledged

LEMMA ProcessIACKStep == Inv /\ ProcessIACK => Inv'
<1> SUFFICES ASSUME Inv, ProcessIACK PROVE Inv'
  OBVIOUS
<1> DEFINE a == Acknowledged
           r == mfp[a]
           v == UpdateIRQ(r, clock)
           k == Acknowledge(v)
           u == UpdateIRQ(k, clock)
<1>1. a \in MFPs /\ clock \in Times /\ r \in MFP_STRUCT /\ Sound(r)
  BY AcknowledgedType DEF Inv, TypeOK, AllSound
<1>2. /\ mfp' = [mfp EXCEPT ![a] = u]
      /\ phase' = "exception" /\ intmask' = MfpLevel
      /\ MFP_UpdateNeeded' = FALSE /\ spcMFP' = TRUE
      /\ IntMask' = IntMask
      /\ Forward(Requested \ {MfpLevel}, IntMask')
      /\ UNCHANGED <<ipl_pin, clock, cycles>>
  BY DEF ProcessIACK, Forward, time
<1> HIDE DEF a, r
<1>3. v \in MFP_STRUCT /\ v.IPR \subseteq v.IER
  BY <1>1, UpdateIRQKeeps DEF Sound
<1> HIDE DEF v
<1>4. k \in MFP_STRUCT /\ k.IPR \subseteq k.IER
  BY <1>3, AcknowledgeKeeps
<1> HIDE DEF k
<1>5. u \in MFP_STRUCT /\ Sound(u)
  BY <1>1, <1>4, UpdateIRQKeeps, UpdateIRQSound
<1> HIDE DEF u
<1>6. /\ pendingInterrupts' \subseteq Levels /\ IntState' \subseteq Levels
      /\ SCU_IsEnabled => Agree'
      /\ MfpLevel \notin pendingInterrupts'
  <2>1. Requested \ {MfpLevel} \in SUBSET Levels /\ IntMask' \subseteq Levels
    BY <1>2, RequestedType DEF Inv, TypeOK
  <2>2. QED
    BY <1>2, <2>1, ForwardKeeps
<1>7. TypeOK'
  BY <1>2, <1>5, <1>6 DEF Inv, TypeOK, Phases, Levels
<1>8. ScuInv'
  BY <1>2, <1>6 DEF ScuInv, Agree
<1>9. AllSound'
  <2>1. \A j \in MFPs : mfp'[j] = IF j = a THEN u ELSE mfp[j]
    BY <1>2 DEF Inv, TypeOK
  <2>2. \A j \in MFPs : Sound(mfp'[j])
    BY <1>5, <2>1 DEF Inv, AllSound
  <2>3. QED
    BY <2>2 DEF AllSound, Sound, Outranks
<1>10. IRQReachesCPU' /\ CheckInv' /\ IackInv'
  BY <1>2 DEF IRQReachesCPU, CheckInv, IackInv
<1>11. QED
  BY <1>9, <1>10, <1>7, <1>8 DEF Inv

LEMMA ProcessHblStep == Inv /\ ProcessHbl => Inv'
<1> SUFFICES ASSUME Inv, ProcessHbl PROVE Inv'
  OBVIOUS
<1>1. /\ UpdateIRQ_All /\ phase = "iackHbl" /\ phase' = "exception" /\ intmask' = HblLevel
      /\ IntMask' = IntMask
      /\ Forward(Requested \ {HblLevel}, IntMask')
      /\ UNCHANGED <<ipl_pin, clock, cycles>>
  BY DEF ProcessHbl, Forward, time
<1>2. /\ pendingInterrupts' \subseteq Levels /\ IntState' \subseteq Levels
      /\ SCU_IsEnabled => Agree'
      /\ MfpLevel \in pendingInterrupts' <=>
           MfpLevelOpen' /\ MfpLevel \in Requested \ {HblLevel}
  <2>1. Requested \ {HblLevel} \in SUBSET Levels /\ IntMask' \subseteq Levels
    BY <1>1, RequestedType DEF Inv, TypeOK
  <2>2. QED
    BY <1>1, <2>1, ForwardKeeps
<1>3. TypeOK' /\ AllSound'
  BY <1>1, <1>2, UpdateIRQ_AllKeeps DEF Inv, TypeOK, Phases, Levels
<1>4. MfpLevel \in pendingInterrupts' <=> MfpLevel \in pendingInterrupts
  <2>1. MfpLevel \in pendingInterrupts' <=> MfpLevelOpen /\ MfpLevel \in Requested
    BY <1>1, <1>2 DEF MfpLevelOpen, MfpLevel, HblLevel
  <2>2. SCU_IsEnabled =>
          (MfpLevel \in IntState \cap IntMask <=> MfpLevel \in pendingInterrupts)
    BY <1>1 DEF Inv, ScuInv, Agree
  <2>3. QED
    BY <2>1, <2>2, ConstantsAssumption DEF MfpLevelOpen, Requested
<1>5. IRQReachesCPU'
  BY <1>1, <1>4, UpdateIRQ_AllKeeps DEF Inv, IRQReachesCPU, MfpLevelOpen
<1>6. LevelSeen' = LevelSeen
  BY <1>1, UpdateIRQ_AllKeeps DEF CPUSeen, LevelSeen, MfpLevelOpen
<1>7. CheckInv' /\ IackInv'
  BY <1>1, <1>4, <1>6 DEF Inv, CheckInv, IackInv
<1>8. ScuInv'
  <2> SUFFICES ASSUME SCU_IsEnabled PROVE ScuInv'
    BY DEF ScuInv
  <2>1. IntState' = IntState \ {HblLevel}
    BY <1>1 DEF Forward, Requested
  <2>2. QED
    BY <1>1, <1>2, <2>1 DEF Inv, ScuInv, Agree
<1>9. QED
  BY <1>3, <1>5, <1>7, <1>8 DEF Inv

LEMMA NextInv == Inv /\ [Next]_vars => Inv'
<1> SUFFICES ASSUME Inv, [Next]_vars PROVE Inv'
  OBVIOUS
<1>1. ASSUME NEW m \in MFPs, NEW i \in Channels, NEW d \in Delays, Input(m, i, d)
      PROVE  Inv'
  BY <1>1, InputStep
<1>2. ASSUME NEW m \in MFPs, WriteRegister(m) \/ WriteAutomatic(m) \/ WriteSoftware(m)
      PROVE  Inv'
  BY <1>2, WriteRegisterStep, WriteAutomaticStep, WriteSoftwareStep
<1>3. CASE Hbl
  BY <1>3, HblStep
<1>4. CASE Quiet
  BY <1>4, QuietStep
<1>5. CASE Reset
  BY <1>5, ResetStep
<1>6. CASE EndEvents
  BY <1>6, EndEventsStep
<1>7. CASE Specialties
  BY <1>7, SpecialtiesStep
<1>8. CASE TakeInterrupt
  BY <1>8, TakeInterruptStep
<1>9. CASE ProcessIACK
  BY <1>9, ProcessIACKStep
<1>10. CASE ProcessHbl
  BY <1>10, ProcessHblStep
<1>11. CASE ElapseException
  BY <1>11, ElapseExceptionStep
<1>12. CASE UNCHANGED vars
  <2>1. TypeOK'
    BY <1>12 DEF Inv, TypeOK, vars, cpu, scu, time
  <2>2. AllSound' /\ IRQReachesCPU'
    BY <1>12, SameMfp DEF vars, cpu, scu
  <2>3. CheckInv' /\ IackInv' /\ ScuInv'
    BY <1>12
    DEF Inv, CheckInv, IackInv, ScuInv, Agree, IRQSeen, LevelSeen, MfpLevelOpen,
        CPUSeen, vars, cpu, scu
  <2>4. QED
    BY <2>1, <2>2, <2>3 DEF Inv
<1>13. ASSUME NEW l \in MaskedLevels, NEW on \in BOOLEAN, AccessIntMask(l, on)
       PROVE  Inv'
  BY <1>13, AccessIntMaskStep
<1>14. QED
  BY <1>1, <1>2, <1>3, <1>4, <1>5, <1>6, <1>7, <1>8, <1>9, <1>10, <1>11, <1>12,
     <1>13
  DEF Next, Quiet

\* The inductive invariant holds in every state of the controller.
THEOREM Invariance == Spec => []Inv
<1>1. Init => Inv
  BY InitInv
<1>2. Inv /\ [Next]_vars => Inv'
  BY NextInv
<1>3. QED
  BY <1>1, <1>2, PTL DEF Spec

\* The variables keep their types: no handler leaves a register, a pending
\* time or a current interrupt out of its range.
THEOREM TypeCorrect == Spec => []TypeOK
<1>1. Inv => TypeOK
  BY DEF Inv
<1>2. QED
  BY <1>1, Invariance, PTL

\* An MFP drives its IRQ only for a channel that can be serviced, whatever is
\* written to its registers and whenever its inputs come.
THEOREM IRQCorrect == Spec => []IRQHasRequest
<1>1. Inv => IRQHasRequest
  BY DEF Inv, AllSound, Sound, IRQHasRequest, Serviceable
<1>2. QED
  BY <1>1, Invariance, PTL

\* Once SPCFLAG_MFP is cleared the CPU side of every MFP is as its IRQ, and
\* level 6 is pending exactly when one is driven and the SCU lets it through,
\* also after a RESET instruction, which leaves the SCU alone.
THEOREM LevelCorrect == Spec => []IRQReachesCPU
<1>1. Inv => IRQReachesCPU
  BY DEF Inv
<1>2. QED
  BY <1>1, Invariance, PTL

-----------------------------------------------------------------------------
(* What an acknowledge answers. *)

\* The MFP that answers drives its IRQ, when one of them does.
LEMMA AcknowledgedHasIRQ == IRQSeen => mfp[Acknowledged].IRQ
  BY ConstantsAssumption DEF IRQSeen, Acknowledged

\* Until the acknowledge the interrupt may only be replaced by one that can be
\* serviced too.
LEMMA CurrentCanBeServed ==
  ASSUME NEW r \in MFP_STRUCT, NEW t \in Times, Sound(r), r.IRQ
  PROVE  /\ UpdateIRQ(r, t).Current_Interrupt \in r.IPR \cap r.IMR
         /\ Outranks(r, UpdateIRQ(r, t).Current_Interrupt)
<1> DEFINE c == UpdateIRQ(r, t).Current_Interrupt
<1>1. CASE UpdateIRQ(r, t).IRQ
  <2>1. c \in Requests(r)
    BY <1>1, UpdateIRQDecides
  <2> HIDE DEF c
  <2>2. c \in r.IPR \cap r.IMR /\ Outranks(r, c)
    BY <2>1 DEF Requests, InterruptRequest
  <2>3. QED
    BY <2>2 DEF c
<1>2. CASE ~UpdateIRQ(r, t).IRQ
  <2>1. c = r.Current_Interrupt
    BY <1>2, UpdateIRQDecides
  <2>2. QED
    BY <2>1 DEF Sound
<1>3. QED
  BY <1>1, <1>2

LEMMA AcknowledgeAnswers ==
  ASSUME Inv, ~Accurate, ProcessIACK
  PROVE  \E i \in mfp[Acknowledged].IER :
           /\ Serviceable(Acknowledged, i)
           /\ mfp'[Acknowledged].IPR = mfp[Acknowledged].IPR \ {i}
           /\ mfp'[Acknowledged].ISR =
                mfp[Acknowledged].ISR \cup (IF mfp[Acknowledged].SEI THEN {i} ELSE {})
<1> DEFINE a == Acknowledged
           r == mfp[a]
           v == UpdateIRQ(r, clock)
           k == Acknowledge(v)
           u == UpdateIRQ(k, clock)
           i == v.Current_Interrupt
<1>1. /\ a \in MFPs /\ clock \in Times /\ r \in MFP_STRUCT /\ Sound(r)
      /\ mfp \in [MFPs -> MFP_STRUCT]
  BY AcknowledgedType DEF Inv, TypeOK, AllSound
<1>2. r.IRQ
  BY AcknowledgedHasIRQ DEF Inv, IackInv, ProcessIACK
<1>3. mfp' = [mfp EXCEPT ![a] = u]
  BY DEF ProcessIACK
<1>4. i \in r.IPR \cap r.IMR /\ Outranks(r, i)
  BY <1>1, <1>2, CurrentCanBeServed
<1>5. i \in r.IER /\ i \in Channels
  BY <1>1, <1>4 DEF Sound, MFP_STRUCT
<1> HIDE DEF r
<1>6. /\ v \in MFP_STRUCT /\ v.IPR = r.IPR /\ v.IER = r.IER /\ v.ISR = r.ISR
      /\ v.SEI = r.SEI
  BY <1>1, UpdateIRQKeeps
<1>7. v.IPR \subseteq v.IER
  BY <1>1, <1>6 DEF Sound
<1> HIDE DEF v
<1>8. /\ k \in MFP_STRUCT
      /\ k.IPR = r.IPR \ {i}
      /\ k.ISR = IF r.SEI THEN r.ISR \cup ({i} \cap Channels) ELSE r.ISR \ {i}
  BY <1>6, <1>7, AcknowledgeKeeps
<1> HIDE DEF k
<1>9. u.IPR = k.IPR /\ u.ISR = k.ISR
  BY <1>1, <1>8, UpdateIRQKeeps
<1> HIDE DEF u, i
<1>10. mfp'[a].IPR = r.IPR \ {i}
  BY <1>1, <1>3, <1>8, <1>9
<1>11. mfp'[a].ISR = r.ISR \cup (IF r.SEI THEN {i} ELSE {})
  <2>1. mfp'[a].ISR = IF r.SEI THEN r.ISR \cup ({i} \cap Channels) ELSE r.ISR \ {i}
    BY <1>1, <1>3, <1>8, <1>9
  <2>2. {i} \cap Channels = {i}
    BY <1>5
  <2>3. i \notin r.ISR
    BY <1>4, <1>5 DEF Outranks, Channels
  <2>4. CASE r.SEI
    BY <2>1, <2>2, <2>4
  <2>5. CASE ~r.SEI
    BY <2>1, <2>3, <2>5
  <2>6. QED
    BY <2>4, <2>5
<1>12. Serviceable(a, i)
  BY <1>4 DEF Serviceable, r
<1> HIDE DEF a
<1>13. \E j \in r.IER : /\ Serviceable(a, j)
                       /\ mfp'[a].IPR = r.IPR \ {j}
                       /\ mfp'[a].ISR = r.ISR \cup (IF r.SEI THEN {j} ELSE {})
  BY <1>5, <1>10, <1>11, <1>12
<1>14. QED
  BY <1>13 DEF r, a

\* Where the CPU compares intlev() with the mask, every acknowledge takes a
\* channel that was asked for from IPR, and no other: the CPU that looks at
\* regs.ipl instead is the one of the run mfp_ipl.
THEOREM AcknowledgeCorrect ==
  ASSUME ~Accurate
  PROVE  Spec => AcknowledgesRequest
<1> DEFINE A == ProcessIACK =>
                  \E i \in mfp[Acknowledged].IER :
                    /\ Serviceable(Acknowledged, i)
                    /\ mfp'[Acknowledged].IPR = mfp[Acknowledged].IPR \ {i}
                    /\ mfp'[Acknowledged].ISR =
                         mfp[Acknowledged].ISR
                           \cup (IF mfp[Acknowledged].SEI THEN {i} ELSE {})
<1>1. Inv /\ [Next]_vars => [A]_vars
  BY AcknowledgeAnswers
<1>2. Spec => [][A]_vars
  BY <1>1, Invariance, PTL DEF Spec
<1>3. QED
  BY <1>2 DEF AcknowledgesRequest

-----------------------------------------------------------------------------
(* What is not in the IRQ yet, with one MFP.  With two, the update of one  *)
(* clears MFP_UpdateNeeded for both.                                       *)

AllUpdated == \A m \in MFPs : mfp[m].Pending_Time_Min = Never

\* MFP_UpdateTimers leaves no input behind in the MFP that is accessed.
LEMMA NoInputLeft ==
  ASSUME Inv, InputsAwaitUpdate, NEW m \in MFPs
  PROVE  CE \/ ~MFP_UpdateNeeded => TimersUpdated(m).Pending_Time_Min = Never
<1>1. mfp[m] \in MFP_STRUCT /\ clock + cycles \in Times
  BY DEF Inv, TypeOK
<1>2. CASE MFP_UpdateNeeded
  BY <1>1, <1>2, UpdateIRQKeeps DEF TimersUpdated
<1>3. CASE ~MFP_UpdateNeeded
  BY <1>3 DEF TimersUpdated, InputsAwaitUpdate
<1>4. QED
  BY <1>2, <1>3

LEMMA WrittenUpdates ==
  ASSUME Inv, MFPs = {Main}, NEW m \in MFPs, NEW r \in MFP_STRUCT, Written(m, r)
  PROVE  AllUpdated'
<1> DEFINE u == UpdateIRQ(r, clock + cycles)
<1>1. clock + cycles \in Times /\ mfp \in [MFPs -> MFP_STRUCT]
  BY DEF Inv, TypeOK
<1>2. u.Pending_Time_Min = Never
  BY <1>1, UpdateIRQKeeps
<1>3. mfp' = [mfp EXCEPT ![m] = u]
  BY DEF Written
<1> HIDE DEF u
<1>4. \A k \in MFPs : mfp'[k] = u
  BY <1>1, <1>3
<1>5. QED
  BY <1>2, <1>4 DEF AllUpdated

\* Every write that updates the IRQ is a Written with an MFP_STRUCT.
LEMMA WritesUpdate ==
  ASSUME Inv, NEW m \in MFPs, WriteRegister(m) \/ WriteAutomatic(m)
  PROVE  \E r \in MFP_STRUCT : /\ Written(m, r)
                               /\ r.Pending_Time = TimersUpdated(m).Pending_Time
                               /\ r.Pending_Time_Min = TimersUpdated(m).Pending_Time_Min
<1> DEFINE t == TimersUpdated(m)
           e(v) == [t EXCEPT !.IER = v, !.IPR = @ \cap v]
           p(v) == [t EXCEPT !.IPR = @ \cap v]
           s(v) == [t EXCEPT !.ISR = @ \cap v]
           k(v) == [t EXCEPT !.IMR = v]
           a == [t EXCEPT !.SEI = FALSE, !.ISR = {}]
           Keeps(r) == /\ r \in MFP_STRUCT
                       /\ r.Pending_Time = t.Pending_Time
                       /\ r.Pending_Time_Min = t.Pending_Time_Min
<1>1. t \in MFP_STRUCT
  BY TimersUpdatedKeeps
<1>2. \/ Written(m, a)
      \/ \E v \in SUBSET Channels : \/ Written(m, e(v)) \/ Written(m, p(v))
                                    \/ Written(m, s(v)) \/ Written(m, k(v))
  BY DEF WriteRegister, WriteAutomatic, WriteEnable, WritePending, WriteInService,
         WriteMask
<1> HIDE DEF t
<1>3. \A v \in SUBSET Channels : Keeps(e(v)) /\ Keeps(p(v)) /\ Keeps(s(v)) /\ Keeps(k(v))
  BY <1>1 DEF MFP_STRUCT
<1>4. Keeps(a)
  BY <1>1 DEF MFP_STRUCT
<1> HIDE DEF e, p, s, k, a
<1>5. \E r : Written(m, r) /\ Keeps(r)
  BY <1>2, <1>3, <1>4
<1>6. QED
  BY <1>5 DEF t

LEMMA InputsStep ==
  ASSUME Inv, InputsAwaitUpdate, MFPs = {Main}, [Next]_vars
  PROVE  InputsAwaitUpdate'
<1>1. AllUpdated' => InputsAwaitUpdate'
  BY DEF AllUpdated, InputsAwaitUpdate
<1>2. MFP_UpdateNeeded' = TRUE => InputsAwaitUpdate'
  BY DEF InputsAwaitUpdate
<1>3. UNCHANGED <<mfp, MFP_UpdateNeeded>> => InputsAwaitUpdate'
  BY DEF InputsAwaitUpdate
<1>4. ASSUME NEW m \in MFPs, NEW i \in Channels, NEW d \in Delays, Input(m, i, d)
      PROVE  InputsAwaitUpdate'
  BY <1>2, <1>4 DEF Input
<1>5. ASSUME NEW m \in MFPs, WriteRegister(m) \/ WriteAutomatic(m)
      PROVE  InputsAwaitUpdate'
  BY <1>1, <1>5, WritesUpdate, WrittenUpdates
<1>6. ASSUME NEW m \in MFPs, WriteSoftware(m)
      PROVE  InputsAwaitUpdate'
  <2> DEFINE t == TimersUpdated(m)
             u == [t EXCEPT !.SEI = TRUE]
  <2>1. /\ mfp' = [mfp EXCEPT ![m] = u]
        /\ MFP_UpdateNeeded' = (MFP_UpdateNeeded /\ ~CE)
    BY <1>6 DEF WriteSoftware
  <2>2. t \in MFP_STRUCT
    BY TimersUpdatedKeeps
  <2>3. CE \/ ~MFP_UpdateNeeded => t.Pending_Time_Min = Never
    BY NoInputLeft
  <2> HIDE DEF t
  <2>4. u.Pending_Time_Min = t.Pending_Time_Min
    BY <2>2 DEF MFP_STRUCT
  <2> HIDE DEF u
  <2>5. \A k \in MFPs : mfp'[k] = u
    BY <2>1 DEF Inv, TypeOK
  <2>6. CASE CE \/ ~MFP_UpdateNeeded
    BY <1>1, <2>3, <2>4, <2>5, <2>6 DEF AllUpdated
  <2>7. CASE ~CE /\ MFP_UpdateNeeded
    BY <1>2, <2>1, <2>7
  <2>8. QED
    BY <2>6, <2>7
<1>7. CASE Reset
  <2>1. \A m \in MFPs : mfp'[m] = ResetMfp
    BY <1>7 DEF Reset
  <2>2. ResetMfp.Pending_Time_Min = Never
    BY DEF ResetMfp
  <2>3. QED
    BY <1>1, <2>1, <2>2 DEF AllUpdated
<1>8. CASE UpdateIRQ_All
  <2>1. CASE MFP_UpdateNeeded
    <3>1. mfp' = [m \in MFPs |-> UpdateIRQ(mfp[m], 0)]
      BY <1>8, <2>1 DEF UpdateIRQ_All
    <3>2. \A m \in MFPs : mfp[m] \in MFP_STRUCT /\ 0 \in Times
      BY ConstantsAssumption DEF Inv, TypeOK, Times
    <3>3. \A m \in MFPs : UpdateIRQ(mfp[m], 0).Pending_Time_Min = Never
      BY <3>2, UpdateIRQKeeps
    <3>4. QED
      BY <1>1, <3>1, <3>3 DEF AllUpdated
  <2>2. QED
    BY <1>3, <1>8, <2>1 DEF UpdateIRQ_All
<1>9. CASE Specialties
  <2>1. \A m \in MFPs : mfp'[m] = mfp[m] \/ mfp'[m] = DelayIRQ(mfp[m])
    BY <1>9 DEF Specialties
  <2>2. \A m \in MFPs : DelayIRQ(mfp[m]).Pending_Time_Min = mfp[m].Pending_Time_Min
    <3>1. \A m \in MFPs : mfp[m] \in MFP_STRUCT
      BY DEF Inv, TypeOK
    <3>2. \A r \in MFP_STRUCT : DelayIRQ(r).Pending_Time_Min = r.Pending_Time_Min
      BY DEF DelayIRQ, MFP_STRUCT
    <3>3. QED
      BY <3>1, <3>2
  <2>3. MFP_UpdateNeeded' = MFP_UpdateNeeded
    BY <1>9 DEF Specialties
  <2>4. QED
    BY <2>1, <2>2, <2>3 DEF InputsAwaitUpdate
<1>10. CASE ProcessIACK
  <2> DEFINE r == Acknowledge(UpdateIRQ(mfp[Acknowledged], clock))
  <2>1. mfp' = [mfp EXCEPT ![Acknowledged] = UpdateIRQ(r, clock)]
    BY <1>10 DEF ProcessIACK
  <2>2. /\ mfp[Acknowledged] \in MFP_STRUCT /\ clock \in Times /\ Sound(mfp[Acknowledged])
        /\ mfp \in [MFPs -> MFP_STRUCT] /\ Acknowledged \in MFPs
    BY AcknowledgedType DEF Inv, TypeOK, AllSound
  <2>3. /\ UpdateIRQ(mfp[Acknowledged], clock) \in MFP_STRUCT
        /\ UpdateIRQ(mfp[Acknowledged], clock).IPR
             \subseteq UpdateIRQ(mfp[Acknowledged], clock).IER
    BY <2>2, UpdateIRQKeeps DEF Sound
  <2>4. r \in MFP_STRUCT
    BY <2>3, AcknowledgeKeeps
  <2> HIDE DEF r
  <2>5. UpdateIRQ(r, clock).Pending_Time_Min = Never
    BY <2>2, <2>4, UpdateIRQKeeps
  <2>6. \A m \in MFPs : mfp'[m] = UpdateIRQ(r, clock)
    BY <2>1, <2>2
  <2>7. QED
    BY <1>1, <2>5, <2>6 DEF AllUpdated
<1>11. CASE UNCHANGED <<mfp, MFP_UpdateNeeded>>
  BY <1>3, <1>11
<1>12. QED
  BY <1>4, <1>5, <1>6, <1>7, <1>8, <1>9, <1>10, <1>11
  DEF Next, vars, Hbl, Elapse, AccessMfp, SetIntmask, EndInstruction, EndEvents,
      AccessIntMask, TakeInterrupt, NextInstruction, ElapseException, ProcessHbl,
      EndException

\* With one MFP no input is forgotten: MFP_UpdateNeeded stays until the IRQ
\* reflects it.
THEOREM InputsCorrect ==
  ASSUME MFPs = {Main}
  PROVE  Spec => []InputsAwaitUpdate
<1>1. Init => InputsAwaitUpdate
  <2>1. ResetMfp.Pending_Time_Min = Never
    BY DEF ResetMfp
  <2>2. QED
    BY <2>1 DEF Init, InputsAwaitUpdate
<1>2. Inv /\ InputsAwaitUpdate /\ [Next]_vars => InputsAwaitUpdate'
  BY InputsStep
<1>3. QED
  BY <1>1, <1>2, Invariance, PTL DEF Spec

\* Without an oldest pending time, MFP_InterruptRequest is about the registers
\* only.
LEMMA RequestsAreServiceable ==
  ASSUME NEW r \in MFP_STRUCT, r.Pending_Time_Min = Never
  PROVE  \A i \in Channels :
           i \in Requests(r) <=> i \in r.IPR \cap r.IMR /\ Outranks(r, i)
<1>1. \A i \in Channels : r.Pending_Time[i] \in Times \cup {Never}
  BY DEF MFP_STRUCT
<1>2. \A x \in Times \cup {Never} : x <= Never
  BY ConstantsAssumption DEF Times
<1>3. QED
  BY <1>1, <1>2 DEF Requests, InterruptRequest

LEMMA WriteDecides ==
  ASSUME Inv, InputsAwaitUpdate, CE, NEW m \in MFPs, WriteRegister(m)
  PROVE  /\ mfp'[m].IRQ <=> \E i \in Channels : Serviceable(m, i)'
         /\ mfp'[m].IRQ => \A i \in Channels :
              Serviceable(m, i)' => i <= mfp'[m].Current_Interrupt
<1>1. PICK r \in MFP_STRUCT :
        /\ Written(m, r)
        /\ r.Pending_Time_Min = TimersUpdated(m).Pending_Time_Min
  BY WritesUpdate
<1>2. r.Pending_Time_Min = Never
  BY <1>1, NoInputLeft
<1> DEFINE u == UpdateIRQ(r, clock + cycles)
<1>3. clock + cycles \in Times /\ mfp \in [MFPs -> MFP_STRUCT]
  BY DEF Inv, TypeOK
<1>4. /\ u.IPR = r.IPR /\ u.IMR = r.IMR /\ u.ISR = r.ISR
      /\ u.IRQ <=> Requests(r) # {}
      /\ u.IRQ => \A i \in Requests(r) : i <= u.Current_Interrupt
  BY <1>3, UpdateIRQKeeps, UpdateIRQDecides
<1>5. mfp' = [mfp EXCEPT ![m] = u]
  BY <1>1 DEF Written
<1> HIDE DEF u
<1>6. mfp'[m] = u
  BY <1>3, <1>5
<1>7. \A i \in Channels : Serviceable(m, i)' <=> i \in Requests(r)
  BY <1>2, <1>4, <1>6, RequestsAreServiceable DEF Serviceable, Outranks
<1>8. Requests(r) \subseteq Channels
  BY DEF Requests
<1>9. QED
  BY <1>4, <1>6, <1>7, <1>8

\* On a machine with one MFP and a cycle exact CPU, a write to a register
\* leaves the IRQ as the registers say, whatever expired in the instruction.
THEOREM WriteCorrect ==
  ASSUME CE, MFPs = {Main}
  PROVE  Spec => WriteIsExact
<1> DEFINE A == \A m \in MFPs : WriteRegister(m) =>
                  /\ mfp'[m].IRQ <=> \E i \in Channels : Serviceable(m, i)'
                  /\ mfp'[m].IRQ => \A i \in Channels :
                       Serviceable(m, i)' => i <= mfp'[m].Current_Interrupt
<1>1. Inv /\ InputsAwaitUpdate => A
  BY WriteDecides
<1>2. Spec => [][A]_vars
  BY <1>1, Invariance, InputsCorrect, PTL
<1>3. QED
  BY <1>2 DEF WriteIsExact
=============================================================================
