-------------------------- MODULE CycIntRefinement --------------------------
(***************************************************************************)
(* CycInt implements TimerQueue: the sorted list, its cursor and its       *)
(* cached head do what a set of dated timers promises.                     *)
(***************************************************************************)
EXTENDS CycIntProofs

\* The abstract state of the queue.
Date == [i \in Handlers |-> Cycles[i]]
Firing == IF phase = "called" THEN running ELSE NULL

LEMMA InitRefines == Init => Queue!Init
<1> SUFFICES ASSUME Init PROVE Queue!Init
  OBVIOUS
<1>1. Armed = {} /\ Date = [i \in Handlers |-> 0]
  BY ConstantsAssumption DEF Init, Armed, NoneActive, NoCycles, Date, Interrupts, NULL
<1>2. Immediate = 0 /\ Firing = NULL
  BY ConstantsAssumption DEF Init, Immediate, Firing
<1>3. QED
  BY <1>1, <1>2 DEF Init, Queue!Init, Date, Firing

LEMMA RearmRefines ==
  ASSUME Inv, MayCall, NEW x \in Handlers, NEW d, Rearm(x, d)
  PROVE  Queue!Next
<1>1. Firing = NULL /\ Firing' = NULL /\ Immediate' = Immediate
  BY DEF MayCall, Rearm, Firing, Immediate, loop, time
<1>2. Armed' = Armed \cup {x} /\ Remember(x)
  BY DEF Rearm, Inv, TypeOK, Armed, Interrupts
<1>3. Date' = [Date EXCEPT ![x] = d]
  <2>1. /\ Cycles' = [Cycles EXCEPT ![x] = d]
        /\ Cycles \in [Interrupts -> Nat]
        /\ Handlers \subseteq Interrupts
    BY DEF Rearm, Inv, TypeOK, Interrupts
  <2>2. QED
    BY <2>1 DEF Date
<1>4. d \in 0..Never
  BY ConstantsAssumption DEF Rearm
<1>5. Queue!Schedule(x, d)
  BY <1>1, <1>2, <1>3 DEF Queue!Schedule, Remember, Date, Firing
<1>6. QED
  BY <1>4, <1>5 DEF Queue!Next

LEMMA CallRefines ==
  ASSUME Inv, CallActiveHandler
  PROVE  Queue!Next
<1>1. Inv'
  BY LoopInv
<1>2. ActiveInt # NULL /\ ActiveInt \in Armed /\ ActiveInt \in Handlers
  BY <1>1 DEF CallActiveHandler, Inv, PhaseInv, ListSound, HeadFirst, Listed, Armed,
              Interrupts
<1>3. Firing = NULL /\ Firing' = ActiveInt
  BY DEF CallActiveHandler, Firing
<1>4. Cycles[ActiveInt] <= Immediate
  <2>1. Cycles[ActiveInt] <= limit * Scale /\ Cycles[ActiveInt] \in Nat
    BY DEF CallActiveHandler, Inv, TypeOK, ListSound, HeadFirst
  <2>2. /\ limit \in Nat /\ clock + currcycle \in Nat /\ Scale \in Nat
        /\ limit <= clock + currcycle
    BY ConstantsAssumption DEF Inv, TypeOK, PhaseInv
  <2>3. limit * Scale <= (clock + currcycle) * Scale
    BY <2>2, SMT
  <2>4. limit * Scale \in Nat /\ (clock + currcycle) * Scale \in Nat
    BY <2>2
  <2>5. QED
    BY <2>1, <2>3, <2>4 DEF Immediate
<1>5. \A j \in Armed \ {ActiveInt} : Before(ActiveInt, j)
  <2>1. inserting = NULL
    BY DEF Inv, PhaseInv, CallActiveHandler
  <2>2. Armed \subseteq Listed
    BY <2>1 DEF Listed, Armed, Interrupts
  <2>3. QED
    BY <2>2 DEF Inv, ListSound, HeadFirst
<1>6. \A j \in Armed \ {ActiveInt} : Queue!Before(ActiveInt, j)
  <2>1. \A j \in Handlers : Date[j] = Cycles[j]
    BY DEF Date
  <2>2. QED
    BY <1>2, <1>5, <2>1 DEF Before, Queue!Before, Armed, Date
<1>7. UNCHANGED <<Armed, Date, over, Immediate>>
  BY DEF CallActiveHandler, Armed, Date, Immediate, list, time
<1>8. Queue!Fire(ActiveInt)
  <2>1. Date[ActiveInt] <= Immediate
    BY <1>2, <1>4 DEF Date
  <2>2. QED
    BY <1>2, <1>3, <1>6, <1>7, <2>1 DEF Queue!Fire, Date, Firing
<1>9. QED
  BY <1>2, <1>8 DEF Queue!Next

LEMMA AdvanceRefines ==
  ASSUME Inv, NEW c \in BusCycles, AddCycles(c)
  PROVE  Queue!Next
<1>1. Firing = NULL /\ Firing' = NULL
  BY DEF AddCycles, MayCall, Firing, loop
<1>2. UNCHANGED <<Armed, Date, over>>
  BY DEF AddCycles, Armed, Date, list
<1>3. /\ clock \in Nat /\ currcycle \in Nat /\ c \in Nat \ {0}
      /\ MaxClock \in Nat /\ Scale \in Nat \ {0} /\ Never \in Nat
      /\ MaxClock * Scale < Never
  BY ConstantsAssumption DEF Inv, TypeOK
<1>4. /\ clock' + currcycle' = clock + currcycle + c
      /\ clock + currcycle + c <= MaxClock
  BY <1>3 DEF AddCycles
<1>5. Immediate' = (clock + currcycle + c) * Scale
  BY <1>4 DEF Immediate
<1>6. /\ (clock + currcycle) * Scale < (clock + currcycle + c) * Scale
      /\ (clock + currcycle + c) * Scale <= MaxClock * Scale
  BY <1>3, <1>4, SMT
<1>7. (clock + currcycle + c) * Scale \in Nat /\ MaxClock * Scale \in Nat
  BY <1>3
<1>8. Immediate' > Immediate /\ Immediate' \in 0..Never
  BY <1>3, <1>5, <1>6, <1>7 DEF Immediate
<1>9. Queue!Advance(Immediate')
  BY <1>1, <1>2, <1>8 DEF Queue!Advance, Date, Firing
<1>10. QED
  BY <1>8, <1>9 DEF Queue!Next

LEMMA NextRefines == ~Commands /\ Inv /\ [Next]_vars => [Queue!Next]_Queue!vars
<1> SUFFICES ASSUME ~Commands, Inv, [Next]_vars PROVE [Queue!Next]_Queue!vars
  OBVIOUS
<1>0. ASSUME NEW i \in Handlers, NEW t \in Delays, Command(i, t) PROVE FALSE
  BY <1>0 DEF Command
<1>1. ASSUME NEW i \in Handlers, RemovePendingInterrupt(i) PROVE Queue!Next
  <2>1. /\ Firing = NULL /\ Firing' = NULL
        /\ UNCHANGED <<Date, Immediate>>
        /\ Armed' = Armed \ {i}
    BY <1>1 DEF RemovePendingInterrupt, MayCall, Firing, Date, Immediate, Armed,
                Inv, TypeOK, Interrupts, loop, time
  <2>2. Queue!Cancel(i)
    BY <1>1, <2>1 DEF RemovePendingInterrupt, Forget, Queue!Cancel, Queue!Disarm,
                      Date, Firing
  <2>3. QED
    BY <2>2 DEF Queue!Next
<1>2. ASSUME NEW i \in Handlers, NEW t \in Delays, AddRelativeInterrupt(i, t)
      PROVE  Queue!Next
  BY <1>2, RearmRefines DEF AddRelativeInterrupt
<1>3. ASSUME NEW t \in Delays, RestartTimer(t) PROVE Queue!Next
  <2>1. running \in Handlers
    BY <1>3 DEF Inv, TypeOK, PhaseInv, RestartTimer, Interrupts
  <2>2. MayCall /\ Rearm(running, t + Immediate - PendingCyclesOver(t))
    BY <1>3 DEF RestartTimer
  <2>3. QED
    BY <2>1, <2>2, RearmRefines
<1>4. ASSUME NEW t \in Changes, ModifyInterrupt(t) PROVE Queue!Next
  <2>1. MayCall /\ Rearm(Vbl, Cycles[Vbl] + t) /\ Vbl \in Handlers
    BY <1>4, ConstantsAssumption DEF ModifyInterrupt
  <2>2. QED
    BY <2>1, RearmRefines
<1>5. CASE Reset
  <2>1. /\ Firing = NULL /\ Firing' = NULL /\ Immediate' = Immediate
        /\ Armed' = {} /\ Date' = [i \in Handlers |-> 0]
    BY <1>5, ConstantsAssumption
       DEF Reset, MayCall, Firing, Immediate, Armed, Date, NoneActive, NoCycles,
           Interrupts, NULL, time
  <2>2. Queue!CancelAll
    BY <1>5, <2>1 DEF Reset, Queue!CancelAll, Date, Firing
  <2>3. QED
    BY <2>2 DEF Queue!Next
<1>6. CASE AcknowledgeInterrupt
  <2>1. /\ Firing = ActiveInt /\ Firing' = NULL /\ ActiveInt \in Handlers
        /\ UNCHANGED <<Date, Immediate>>
        /\ Armed' = Armed \ {ActiveInt} /\ Forget(ActiveInt)
    <3>1. Acknowledges /\ running = ActiveInt /\ ActiveInt # NULL
      BY <1>6, ConstantsAssumption DEF AcknowledgeInterrupt, Inv, PhaseInv, Acknowledges
    <3>2. QED
      BY <1>6, <3>1 DEF AcknowledgeInterrupt, Firing, Date, Immediate, Armed, Inv, TypeOK,
                        Interrupts, time
  <2>2. Firing # NULL
    BY <2>1, ConstantsAssumption DEF NULL
  <2>3. Queue!Acknowledge
    BY <2>1, <2>2 DEF Forget, Queue!Acknowledge,
                            Queue!Disarm, Date, Firing
  <2>4. QED
    BY <2>3 DEF Queue!Next
<1>7. CASE CallActiveHandler
  BY <1>7, CallRefines
<1>8. ASSUME NEW c \in BusCycles, AddCycles(c) PROVE Queue!Next
  BY <1>8, AdvanceRefines
<1>9. CASE WalkStep \/ Link
  <2>1. UNCHANGED <<Armed, Date, over, Immediate, Firing>>
    BY <1>9 DEF WalkStep, Link, Armed, Date, Immediate, Firing, list, loop, time
  <2>2. QED
    BY <2>1 DEF Queue!vars, Date, Firing
<1>10. CASE Process \/ ProcessNested \/ UpdateTimers \/ Return \/ EndProcess
  <2>1. UNCHANGED <<Armed, Date, over>>
    BY <1>10 DEF Process, ProcessNested, UpdateTimers, Return, EndProcess, Armed, Date, list
  <2>2. Firing = NULL /\ Firing' = NULL
    BY <1>10 DEF Process, ProcessNested, UpdateTimers, Return, EndProcess, Firing
  <2>3. clock' + currcycle' = clock + currcycle
    BY <1>10 DEF Process, ProcessNested, UpdateTimers, Return, EndProcess, time, Inv, TypeOK
  <2>4. QED
    BY <2>1, <2>2, <2>3 DEF Queue!vars, Date, Firing, Immediate
<1>11. CASE UNCHANGED vars
  BY <1>11 DEF vars, list, loop, time, Queue!vars, Armed, Immediate
<1>12. QED
  BY <1>0, <1>1, <1>2, <1>3, <1>4, <1>5, <1>6, <1>7, <1>8, <1>9, <1>10, <1>11 DEF Next

\* Handlers are called at their date or later, in the order of their dates, and
\* the last one inserted first when dates are equal: the table and the list of
\* cycInt.c implement the queue of timers, as long as no command of the user
\* resets the machine between the call of a handler and its acknowledge.
THEOREM Refinement == ~Commands /\ Spec => TimersFireInOrder
<1>1. ASSUME ~Commands PROVE Spec => TimersFireInOrder
  <2>1. Inv /\ [Next]_vars => [Queue!Next]_Queue!vars
    BY <1>1, NextRefines
  <2>2. QED
    BY <2>1, InitRefines, Invariance, PTL DEF Spec, TimersFireInOrder, Queue!Spec
<1>2. QED
  BY <1>1
=============================================================================
