------------------------------- MODULE CycInt -------------------------------
(***************************************************************************)
(* The internal timers of Hatari (src/src/cycInt.c, includes/cycInt.h): a  *)
(* table of handlers, the active ones chained in a doubly linked list that *)
(* is sorted by date and always ends with handler 0, and the loop of the   *)
(* CPU that calls the handlers whose date is reached.                      *)
(*                                                                         *)
(* Dates are in internal units, Scale of them per CPU cycle, so that a     *)
(* device that counts MFP cycles may fall between two CPU cycles.  The     *)
(* walk of CycInt_InsertInt is a step per iteration of its while loop.     *)
(*                                                                         *)
(* CycInt_AddAbsoluteInterrupt, and the CycInt_DelayedCycles it reads,     *)
(* have no caller in the source and are left out.                          *)
(***************************************************************************)
EXTENDS Integers

CONSTANTS
  Handlers,    \* the interrupt ids but INTERRUPT_NULL
  Vbl,         \* INTERRUPT_VIDEO_VBL, the only one that is modified
  Blitter,     \* INTERRUPT_BLITTER, whose handler may run CycInt_Process
  AutoSend,    \* INTERRUPT_IKBD_AUTOSEND, whose handler polls the user first
  Commands,    \* GuiEvent_EventHandler carries out commands: not in libretro
  Scale,       \* internal units in a CPU cycle, 1 << CYCINT_SHIFT
  CE,          \* CpuRunCycleExact
  Never,       \* UINT64_MAX
  Delays,      \* the delays, in internal units, devices ask for
  Changes,     \* the changes, in internal units, of CycInt_ModifyInterrupt
  BusCycles,   \* the cycles of one access to the bus
  MaxClock,    \* bound of the model: the last CPU cycle
  MaxOps       \* bound of the model: operations of an instruction or handler

NULL == 0      \* INTERRUPT_NULL
NONE == -1     \* no previous or no next handler

Interrupts == Handlers \cup {NULL}

ASSUME ConstantsAssumption ==
  /\ Handlers \subseteq Nat \ {0}
  /\ Vbl \in Handlers
  /\ AutoSend \notin {Vbl, Blitter}
  /\ Commands \in BOOLEAN
  /\ Scale \in Nat \ {0}
  /\ CE \in BOOLEAN
  /\ Never \in Nat \ {0}
  /\ Delays \subseteq Nat
  /\ Changes \subseteq Int
  /\ BusCycles \subseteq Nat \ {0}
  /\ MaxClock \in Nat /\ MaxClock * Scale < Never
  /\ MaxOps \in Nat

VARIABLES
  Active, Cycles, IntList_Prev, IntList_Next,  \* InterruptHandlers[]
  ActiveInt,                    \* CycInt_ActiveInt
  ActiveInt_Cycles,             \* CycInt_ActiveInt_Cycles
  PendingInterruptCount,
  clock,                        \* CyclesGlobalClockCounter
  currcycle,                    \* cycles of the instruction not in clock yet
  limit,                        \* the clock CycInt_Process compares with
  phase,                        \* where the emulation thread is
  running,                      \* the handler that runs, or NULL
  nested,                       \* the handler that runs a nested loop, or NULL
  inserting, cursor,            \* IntId and n of CycInt_InsertInt, or NULL
  ops,                          \* operations of the instruction or handler
  over                          \* history: over[i] was active when i was inserted

list == <<Active, Cycles, IntList_Prev, IntList_Next, ActiveInt, ActiveInt_Cycles>>
loop == <<PendingInterruptCount, limit, phase, running, nested>>
time == <<clock, currcycle>>
vars == <<list, loop, time, inserting, cursor, ops, over>>

Phases == {"cpu", "process", "called", "handler"}

TypeOK ==
  /\ Active \in [Interrupts -> BOOLEAN]
  /\ Cycles \in [Interrupts -> Nat]
  /\ IntList_Prev \in [Interrupts -> Interrupts \cup {NONE}]
  /\ IntList_Next \in [Interrupts -> Interrupts \cup {NONE}]
  /\ ActiveInt \in Interrupts
  /\ ActiveInt_Cycles \in Nat
  /\ PendingInterruptCount \in Int
  /\ clock \in Nat /\ currcycle \in Nat /\ limit \in Nat
  /\ phase \in Phases
  /\ running \in Interrupts /\ nested \in Interrupts
  /\ inserting \in Interrupts /\ cursor \in Interrupts
  /\ ops \in 0..MaxOps
  /\ over \in [Handlers -> SUBSET Handlers]

\* Cycles_GetClockCounterImmediate, in internal units.
Immediate == (clock + currcycle) * Scale

Armed == {i \in Handlers : Active[i]}

-----------------------------------------------------------------------------
(* The table and its list. *)

\* The table CycInt_Reset leaves.
NoneActive == [i \in Interrupts |-> i = NULL]

\* Mutant of NoCycles: handler 0 is not put at the end of time.
NoCycles_Zero == [i \in Interrupts |-> 0]
NoCycles == [i \in Interrupts |-> IF i = NULL THEN Never ELSE 0]
NoLinks == [i \in Interrupts |-> NONE]

Init ==
  /\ Active = NoneActive /\ Cycles = NoCycles
  /\ IntList_Prev = NoLinks /\ IntList_Next = NoLinks
  /\ ActiveInt = NULL /\ ActiveInt_Cycles = Never
  /\ PendingInterruptCount = 0
  /\ clock = 0 /\ currcycle = 0 /\ limit = 0
  /\ phase = "cpu"
  /\ running = NULL /\ nested = NULL
  /\ inserting = NULL /\ cursor = NULL
  /\ ops = 0
  /\ over = [i \in Handlers |-> {}]

\* Mutant of PrevWithout: the new head keeps its link to the old one.
PrevWithout_KeepsLink(i) == [IntList_Prev EXCEPT ![IntList_Next[i]] = i]

\* Links without i: what CycInt_RemovePendingInterrupt leaves of the list.
PrevWithout(i) ==
  IF i = ActiveInt THEN [IntList_Prev EXCEPT ![IntList_Next[i]] = NONE]
                   ELSE [IntList_Prev EXCEPT ![IntList_Next[i]] = IntList_Prev[i]]
NextWithout(i) ==
  IF i = ActiveInt THEN IntList_Next ELSE [IntList_Next EXCEPT ![IntList_Prev[i]] = IntList_Next[i]]

\* Mutant of FirstWithout: the wrong end of the list.
FirstWithout_Prev(i) == IF i = ActiveInt THEN IntList_Prev[i] ELSE ActiveInt
FirstWithout(i) == IF i = ActiveInt THEN IntList_Next[i] ELSE ActiveInt

Unlink(i) ==
  /\ IntList_Prev' = PrevWithout(i)
  /\ IntList_Next' = NextWithout(i)
  /\ ActiveInt' = FirstWithout(i)
  /\ ActiveInt_Cycles' = IF i = ActiveInt THEN Cycles[IntList_Next[i]] ELSE ActiveInt_Cycles

Forget(i) == over' = [k \in Handlers |-> IF k = i THEN {} ELSE over[k] \ {i}]
Remember(i) ==
  over' = [k \in Handlers |-> IF k = i THEN Armed \ {i} ELSE over[k] \ {i}]

\* The operations devices call: in an instruction, or in a handler once it
\* has acknowledged its interrupt.  What AutoSend does before is Command.
MayCall == phase \in {"cpu", "handler"} /\ inserting = NULL

Count == ops < MaxOps /\ ops' = ops + 1

\* Handler i leaves the list if it is in it, and waits for the date d: the
\* part of the Add and Modify functions that precedes CycInt_InsertInt,
\* whose walk starts at the head of the list.
Rearm(i, d) ==
  /\ d \in 1 .. Never - 1
  /\ Count
  /\ IF Active[i] THEN Unlink(i)
                  ELSE UNCHANGED <<IntList_Prev, IntList_Next, ActiveInt, ActiveInt_Cycles>>
  /\ Active' = [Active EXCEPT ![i] = TRUE]
  /\ Cycles' = [Cycles EXCEPT ![i] = d]
  /\ Remember(i)
  /\ inserting' = i
  /\ cursor' = IF Active[i] THEN FirstWithout(i) ELSE ActiveInt
  /\ UNCHANGED <<loop, time>>

\* CycInt_AddRelativeInterrupt, and CycInt_AddRelativeInterruptWithOffset
\* with no offset.
AddRelativeInterrupt(i, t) ==
  /\ MayCall
  /\ Rearm(i, t + Immediate)

\* MFP_StartTimer_AB and _CD with bFirstTimer = false, called by the handler
\* of a timer: CycInt_AddRelativeInterruptWithOffset goes back by the delay
\* of the handler, less the periods that were missed.  The FDC, ACIA and SCC
\* handlers do the same with a delay shorter than their period.
PendingCyclesOver(t) ==
  IF -PendingInterruptCount > t THEN (-PendingInterruptCount) % t
                                ELSE -PendingInterruptCount
RestartTimer(t) ==
  /\ MayCall
  /\ phase = "handler"
  /\ running \notin {Vbl, Blitter, AutoSend}
  /\ t > 0
  /\ Rearm(running, t + Immediate - PendingCyclesOver(t))

\* CycInt_ModifyInterrupt: a write of the CPU or the blitter to a register of the
\* shifter, on the last line of the screen, where the HBL has armed the VBL.  One
\* that is not active would be armed, relative to the date it had last.
ModifyInterrupt(t) ==
  /\ MayCall
  /\ phase = "handler" => running = Blitter
  /\ Rearm(Vbl, Cycles[Vbl] + t)

\* Mutant of WalkStep: a handler goes after those of the same date.
WalkStep_Ties ==
  /\ inserting # NULL
  /\ Cycles[inserting] >= Cycles[cursor]
  /\ cursor' = IntList_Next[cursor]
  /\ UNCHANGED <<list, loop, time, inserting, ops, over>>

\* CycInt_InsertInt: one iteration of the loop that searches the position.
WalkStep ==
  /\ inserting # NULL
  /\ Cycles[inserting] > Cycles[cursor]
  /\ cursor' = IntList_Next[cursor]
  /\ UNCHANGED <<list, loop, time, inserting, ops, over>>

\* CycInt_InsertInt: the position is found, before the handler at cursor.
Link ==
  /\ inserting # NULL
  /\ Cycles[inserting] <= Cycles[cursor]
  /\ IF cursor = ActiveInt
       THEN /\ ActiveInt' = inserting
            /\ ActiveInt_Cycles' = Cycles[inserting]
            /\ IntList_Prev' = [IntList_Prev EXCEPT ![cursor] = inserting, ![inserting] = NONE]
            /\ IntList_Next' = [IntList_Next EXCEPT ![inserting] = cursor]
       ELSE /\ IntList_Prev' = [IntList_Prev EXCEPT ![cursor] = inserting,
                                    ![inserting] = IntList_Prev[cursor]]
            /\ IntList_Next' = [IntList_Next EXCEPT ![inserting] = cursor,
                                    ![IntList_Prev[cursor]] = inserting]
            /\ UNCHANGED <<ActiveInt, ActiveInt_Cycles>>
  /\ inserting' = NULL
  /\ cursor' = NULL
  /\ UNCHANGED <<Active, Cycles, loop, time, ops, over>>

\* CycInt_RemovePendingInterrupt
RemovePendingInterrupt(i) ==
  /\ MayCall
  /\ Active[i]
  /\ Count
  /\ Active' = [Active EXCEPT ![i] = FALSE]
  /\ Unlink(i)
  /\ Forget(i)
  /\ UNCHANGED <<Cycles, loop, time, inserting, cursor>>

\* CycInt_Reset, called by Reset_ST: in the CPU loop, or in the handler of the
\* VBL, which runs the shortcut keys.
Reset ==
  /\ MayCall
  /\ running \in {NULL, Vbl}
  /\ Count
  /\ Active' = NoneActive /\ Cycles' = NoCycles
  /\ IntList_Prev' = NoLinks /\ IntList_Next' = NoLinks
  /\ ActiveInt' = NULL /\ ActiveInt_Cycles' = Never
  /\ PendingInterruptCount' = 0
  /\ over' = [i \in Handlers |-> {}]
  /\ UNCHANGED <<limit, phase, running, nested, time, inserting, cursor>>

-----------------------------------------------------------------------------
(* The CPU and the loop that calls the handlers. *)

\* Cycles of the instruction: a cycle exact CPU keeps them in currcycle until
\* the end of the instruction, other CPUs (and the blitter, in its handler)
\* add them to the clock.
AddCycles(c) ==
  /\ MayCall
  /\ phase = "handler" => running = Blitter /\ ~CE
  /\ clock + currcycle + c <= MaxClock
  /\ IF CE THEN currcycle' = currcycle + c /\ clock' = clock
           ELSE clock' = clock + c /\ currcycle' = currcycle
  /\ UNCHANGED <<list, loop, inserting, cursor, ops, over>>

\* CycInt_Process, with the cycles of the instruction added to the clock: at
\* the end of an instruction, before an interrupt is acknowledged by the CPU,
\* in an exception, and in the transfers of the blitter.
Process ==
  /\ phase = "cpu" /\ inserting = NULL
  /\ clock' = clock + currcycle
  /\ currcycle' = 0
  /\ limit' = clock'
  /\ phase' = "process"
  /\ ops' = 0
  /\ UNCHANGED <<list, PendingInterruptCount, running, nested, inserting, cursor, over>>

\* Blitter_FlushCycles called by Blitter_InterruptHandler: handlers are called
\* in the middle of a handler.
ProcessNested ==
  /\ phase = "handler" /\ inserting = NULL
  /\ running = Blitter /\ nested = NULL /\ ~CE
  /\ Count
  /\ limit' = clock
  /\ phase' = "process"
  /\ running' = NULL
  /\ nested' = running
  /\ UNCHANGED <<list, PendingInterruptCount, time, inserting, cursor, over>>

\* CycInt_Process_Clock called by MFP_UpdateTimers when the instruction
\* accesses an MFP: the clock includes the cycles of the instruction so far.
UpdateTimers ==
  /\ phase = "cpu" /\ inserting = NULL
  /\ CE
  /\ Count
  /\ limit' = clock + currcycle
  /\ phase' = "process"
  /\ UNCHANGED <<list, PendingInterruptCount, running, nested, time, inserting,
                 cursor, over>>

\* Mutant of CallActiveHandler: the clock is not shifted to internal units.
CallActiveHandler_Unshifted ==
  /\ phase = "process"
  /\ ActiveInt_Cycles <= limit
  /\ PendingInterruptCount' = ActiveInt_Cycles - limit
  /\ running' = ActiveInt
  /\ phase' = "called"
  /\ UNCHANGED <<list, limit, nested, time, inserting, cursor, ops, over>>

\* Mutant of CallActiveHandler: CyclesGlobalClockCounter instead of Clock.
CallActiveHandler_Global ==
  /\ phase = "process"
  /\ ActiveInt_Cycles <= limit * Scale
  /\ PendingInterruptCount' = ActiveInt_Cycles - clock * Scale
  /\ running' = ActiveInt
  /\ phase' = "called"
  /\ UNCHANGED <<list, limit, nested, time, inserting, cursor, ops, over>>

\* CycInt_CallActiveHandler
CallActiveHandler ==
  /\ phase = "process"
  /\ ActiveInt_Cycles <= limit * Scale
  /\ PendingInterruptCount' = ActiveInt_Cycles - limit * Scale
  /\ running' = ActiveInt
  /\ phase' = "called"
  /\ UNCHANGED <<list, limit, nested, time, inserting, cursor, ops, over>>

\* IKBD_InterruptHandler_AutoSend calls GuiEvent_EventHandler before it
\* acknowledges: a command of the user may reset the machine (Reset_ST), which
\* empties the list and starts other timers; i is the first of them.
Command(i, t) ==
  /\ phase = "called"
  /\ running = AutoSend /\ Commands
  /\ Immediate + t \in 1 .. Never - 1
  /\ Count
  /\ Active' = [NoneActive EXCEPT ![i] = TRUE]
  /\ Cycles' = [NoCycles EXCEPT ![i] = Immediate + t]
  /\ IntList_Prev' = [NoLinks EXCEPT ![NULL] = i]
  /\ IntList_Next' = [NoLinks EXCEPT ![i] = NULL]
  /\ ActiveInt' = i /\ ActiveInt_Cycles' = Immediate + t
  /\ PendingInterruptCount' = 0
  /\ over' = [k \in Handlers |-> {}]
  /\ UNCHANGED <<limit, phase, running, nested, time, inserting, cursor>>

\* The handler of the VBL acknowledges only if it is still the head.
Acknowledges == running # Vbl \/ ActiveInt = Vbl

\* Mutant of AcknowledgeInterrupt: the new head keeps its link to the old one.
AcknowledgeInterrupt_KeepsPrev ==
  /\ phase = "called"
  /\ Active' = [Active EXCEPT ![ActiveInt] = FALSE]
  /\ ActiveInt' = IntList_Next[ActiveInt]
  /\ ActiveInt_Cycles' = Cycles[IntList_Next[ActiveInt]]
  /\ Forget(ActiveInt)
  /\ phase' = "handler"
  /\ ops' = IF nested = NULL THEN 0 ELSE ops
  /\ UNCHANGED <<Cycles, IntList_Prev, IntList_Next, PendingInterruptCount, limit,
                 running, nested, time, inserting, cursor>>

\* CycInt_AcknowledgeInterrupt, which handlers call before they change the list:
\* the head leaves it, whichever handler runs.
AcknowledgeInterrupt ==
  /\ phase = "called"
  /\ IF Acknowledges
       THEN /\ Active' = [Active EXCEPT ![ActiveInt] = FALSE]
            /\ ActiveInt' = IntList_Next[ActiveInt]
            /\ ActiveInt_Cycles' = Cycles[IntList_Next[ActiveInt]]
            /\ IntList_Prev' = [IntList_Prev EXCEPT ![IntList_Next[ActiveInt]] = NONE]
            /\ Forget(ActiveInt)
            /\ UNCHANGED <<Cycles, IntList_Next>>
       ELSE UNCHANGED <<list, over>>
  /\ phase' = "handler"
  /\ ops' = IF nested = NULL THEN 0 ELSE ops
  /\ UNCHANGED <<PendingInterruptCount, limit, running, nested, time, inserting, cursor>>

\* The handler returns to the loop, which reads the clock again unless it was
\* called by MFP_UpdateTimers.
Return ==
  /\ phase = "handler" /\ inserting = NULL
  /\ phase' = "process"
  /\ running' = NULL
  /\ limit' = IF CE THEN limit ELSE clock
  /\ UNCHANGED <<list, PendingInterruptCount, nested, time, inserting, cursor,
                 ops, over>>

\* Mutant of EndProcess: a handler due exactly now is left for later.
EndProcess_OffByOne ==
  /\ phase = "process"
  /\ ActiveInt_Cycles >= limit * Scale
  /\ phase' = IF nested = NULL THEN "cpu" ELSE "handler"
  /\ running' = nested
  /\ nested' = NULL
  /\ limit' = 0
  /\ UNCHANGED <<list, PendingInterruptCount, time, inserting, cursor,
                 ops, over>>

\* No handler is due: back to the instruction, or to the handler that ran a
\* nested loop.
EndProcess ==
  /\ phase = "process"
  /\ ActiveInt_Cycles > limit * Scale
  /\ phase' = IF nested = NULL THEN "cpu" ELSE "handler"
  /\ running' = nested
  /\ nested' = NULL
  /\ limit' = 0
  /\ UNCHANGED <<list, PendingInterruptCount, time, inserting, cursor,
                 ops, over>>

Next ==
  \/ \E i \in Handlers :
       \/ RemovePendingInterrupt(i)
       \/ \E t \in Delays : AddRelativeInterrupt(i, t) \/ Command(i, t)
  \/ \E t \in Delays : RestartTimer(t)
  \/ \E t \in Changes : ModifyInterrupt(t)
  \/ WalkStep \/ Link \/ Reset
  \/ \E c \in BusCycles : AddCycles(c)
  \/ Process \/ ProcessNested \/ UpdateTimers
  \/ CallActiveHandler \/ AcknowledgeInterrupt \/ Return \/ EndProcess

Spec == Init /\ [][Next]_vars

\* The emulation is one thread: once in a loop or a function it goes on.
Fairness ==
  /\ WF_vars(WalkStep) /\ WF_vars(Link)
  /\ WF_vars(Process)
  /\ WF_vars(CallActiveHandler) /\ WF_vars(AcknowledgeInterrupt)
  /\ WF_vars(Return) /\ WF_vars(EndProcess)

FairSpec == Spec /\ Fairness

-----------------------------------------------------------------------------
(* The list. *)

\* The handlers in the list: all the active ones, but the one whose position
\* is being searched.
Listed == {i \in Interrupts : Active[i]} \ ({inserting} \ {NULL})

\* The order of the list: by date, and the last one inserted first.
Before(i, j) ==
  Cycles[i] < Cycles[j] \/ (Cycles[i] = Cycles[j] /\ i # NULL /\ j \in over[i])

\* j is the successor of i in the order.
Follows(i, j) ==
  /\ Before(i, j)
  /\ \A k \in Listed : Before(i, k) => k = j \/ Before(j, k)

\* INTERRUPT_NULL is always active, later than any other.
NullLast ==
  /\ Active[NULL] /\ Cycles[NULL] = Never /\ IntList_Next[NULL] = NONE
  /\ \A i \in Handlers : Cycles[i] < Never

HeadFirst ==
  /\ ActiveInt \in Listed
  /\ ActiveInt_Cycles = Cycles[ActiveInt]
  /\ IntList_Prev[ActiveInt] = NONE
  /\ \A j \in Listed \ {ActiveInt} : Before(ActiveInt, j)

ForwardLinks ==
  \A i \in Listed \ {NULL} :
    /\ IntList_Next[i] \in Listed
    /\ IntList_Prev[IntList_Next[i]] = i
    /\ Follows(i, IntList_Next[i])

BackwardLinks ==
  \A j \in Listed \ {ActiveInt} :
    /\ IntList_Prev[j] \in Listed
    /\ IntList_Next[IntList_Prev[j]] = j

\* The list holds every active handler, sorted by date, linked both ways, and
\* its head is the earliest, with its date cached in CycInt_ActiveInt_Cycles.
\* (CycInt_InsertInt, CycInt_AcknowledgeInterrupt,
\* CycInt_RemovePendingInterrupt; also after a command that resets the machine in
\* a handler, which then takes another handler off the list.)
ListSound == NullLast /\ HeadFirst /\ ForwardLinks /\ BackwardLinks

\* The assertion of CycInt_InsertInt (cycInt.c:285): the walk finds a position
\* before the end of the list.
WalkAssertion ==
  inserting # NULL /\ Cycles[inserting] > Cycles[cursor] => IntList_Next[cursor] >= 0

\* When CycInt_Process or CycInt_Process_Clock gives control back, no handler
\* is left that is due at the clock it was called with: events are seen by the
\* instruction that follows in the order they happened.
NoneLeftDue ==
  [][phase = "process" /\ phase' # "called" =>
       \A i \in Handlers : Active[i] => Cycles[i] > limit * Scale]_vars

\* A timer restarted by its handler keeps to the grid of its period, however
\* late the handler was called and whatever the instruction that called it:
\* it does not drift, and it does not run again for the periods it missed.
\* (MFP_StartTimer_AB and _CD, CycInt_CallActiveHandler, MFP_UpdateTimers)
NoDrift ==
  [][\A t \in Delays \ {0} : RestartTimer(t) /\ ops = 0 =>
       /\ (Cycles'[running] - Cycles[running]) % t = 0
       /\ Cycles'[running] > Cycles[running]
       /\ Cycles'[running] \in Immediate .. Immediate + t]_vars

\* The promise of the timers to the devices, unless commands reset the machine in
\* the middle of a handler.
Queue == INSTANCE TimerQueue WITH
  Timers <- Handlers,
  NoTimer <- NULL,
  Dates <- 0..Never,
  armed <- Armed,
  date <- [i \in Handlers |-> Cycles[i]],
  over <- over,
  now <- Immediate,
  firing <- IF phase = "called" THEN running ELSE NULL

TimersFireInOrder == Queue!Spec

\* A handler that is due is called, unless it is cancelled or postponed.
DueIsCalled ==
  \A i \in Handlers :
    Active[i] /\ Cycles[i] <= clock * Scale
      ~> running = i \/ ~Active[i] \/ Cycles[i] > clock * Scale
=============================================================================
