---------------------------- MODULE RetroCoreProofs ----------------------------
(***************************************************************************)
(* Proofs about RetroCore, for every number of frames, steps and           *)
(* breakpoints.  Four invariants say what carries a promise from one phase *)
(* to the next: the flags that still hold a reset the host asked for       *)
(* (ResetInv), those that hold a stop (StopInv) or the end of the last     *)
(* frame (FramesInv), and the copies of what is watched (WatchInv).  None  *)
(* needs another, but all need the types.  Together they show that         *)
(* RetroCore implements RunControl, and when the statements of the source  *)
(* hold that are not true of every run.                                    *)
(***************************************************************************)
EXTENDS RetroCore, TLAPS

ResetInv ==
  asked = "host" /\ ~bQuitProgram =>
    /\ quit_program = "RESET"
    /\ \/ phase \in {"host", "loop"} /\ has_cpu_config_changed
       \/ phase = "go"

StopInv ==
  stopReason # "NONE" =>
    \/ phase \in {"host", "loop"}
    \/ /\ phase \in {"events", "special", "brk"}
       /\ "BRK" \in spcflags /\ quit_program = "QUIT"

FramesInv ==
  /\ frames <= max_frames
  /\ phase \in {"go", "insn", "events"} => frames < max_frames
  /\ phase \in {"special", "brk"} =>
       frames < max_frames \/ ("BRK" \in spcflags /\ quit_program = "QUIT")

WatchInv ==
  /\ breakpoints > 0 \/ nCpuSteps > 0 => M68000_DebuggerFlag
  /\ M68000_DebuggerFlag <=> "DEBUGGER" \in spcflags
  /\ breakpoints > 0 => nCpuActiveCBs > 0

-----------------------------------------------------------------------------
\* Every step keeps the types; FramesInv bounds the frames.
LEMMA TypeStep ==
  ASSUME TypeOK, FramesInv, [Next]_vars
  PROVE  TypeOK'
<1> USE ConstantsAssumption DEF TypeOK, FramesInv
<1>1. CASE HatariReset
  BY <1>1
  DEF HatariReset, Reset_ST, SetDebugging, WithDebugger, retro, debugger, run
<1>2. CASE HatariResetFails
  BY <1>2 DEF HatariResetFails, retro, debugger, run
<1>3. CASE CommandReset
  BY <1>3
  DEF CommandReset, Reset_ST, SetDebugging, WithDebugger, retro, debugger, run
<1>4. CASE CommandSetopt
  BY <1>4 DEF CommandSetopt, SetDebugging, WithDebugger, retro, debugger, run
<1>5. ASSUME NEW n \in 0 .. MaxSteps, Step(n)
       PROVE  TypeOK'
  BY <1>5 DEF Step, SetDebugging, WithDebugger, retro, debugger, run
<1>6. ASSUME NEW b \in 0 .. MaxBreakpoints, Breakpoint(b)
       PROVE  TypeOK'
  BY <1>6 DEF Breakpoint, SetDebugging, WithDebugger, retro, debugger, run
<1>7. ASSUME NEW m \in 0 .. MaxFrames, HatariRun(m)
       PROVE  TypeOK'
  BY <1>7 DEF HatariRun, retro, debugger, run
<1>8. ASSUME NEW r \in {"EXCEPTION", "OTHER"}, ProgramStops(r)
       PROVE  TypeOK'
  BY <1>8
  DEF ProgramStops, StopHook, SetDebugging, WithDebugger, Reasons, retro,
      debugger, run
<1>9. CASE ProgramResets
  BY <1>9
  DEF ProgramResets, Reset_ST, SetDebugging, WithDebugger, retro, debugger, run
<1>10. CASE ProgramQuits
  BY <1>10 DEF ProgramQuits, retro, debugger, run
<1>11. CASE EndRun
  BY <1>11 DEF EndRun, Done, retro, debugger, run
<1>12. CASE EnterGo
  BY <1>12 DEF EnterGo, Done, retro, debugger, run
<1>13. CASE EnterRun
  BY <1>13 DEF EnterRun, Done, retro, debugger, run
<1>14. CASE LeaveGo
  BY <1>14 DEF LeaveGo, retro, debugger, run
<1>15. CASE ResetCpu
  BY <1>15 DEF ResetCpu, WithDebugger, retro, debugger, run
<1>16. CASE Instruction
  BY <1>16 DEF Instruction, retro, debugger, run
<1>17. CASE NoVbl
  BY <1>17 DEF NoVbl, retro, debugger, run
<1>18. CASE Vbl
  BY <1>18 DEF Vbl, retro, debugger, run
<1>19. CASE ModeChange
  BY <1>19 DEF ModeChange, LeaveRun, retro, debugger, run
<1>20. CASE NoCheck
  BY <1>20 DEF NoCheck, Elapsed, retro, debugger, run
<1>21. ASSUME NEW b \in 0 .. breakpoints, CheckBreakpoint(b)
       PROVE  TypeOK'
  BY <1>21
  DEF CheckBreakpoint, Check, Elapsed, StopHook, SetDebugging, WithDebugger,
      Reasons, retro, debugger, run
<1>22. ASSUME NEW b \in 0 .. breakpoints, CheckSteps(b)
       PROVE  TypeOK'
  <2>1. b \in 0 .. MaxBreakpoints /\ nCpuSteps' \in 0 .. MaxSteps
    BY <1>22 DEF CheckSteps, Check
  <2>2. due' \in 0 .. MaxSteps
    BY <1>22 DEF CheckSteps, Check, Elapsed
  <2>3. CASE nCpuSteps = 1
    <3>1. (b > 0 \/ 0 > 0) \in BOOLEAN
      OBVIOUS
    <3>2. WithDebugger(spcflags \cup {"BRK"}, b > 0 \/ 0 > 0)
            \subseteq {"BRK", "MODE_CHANGE", "DEBUGGER"}
      BY DEF WithDebugger
    <3>3. StopHook("STEPS", 0, b)
      BY <1>22, <2>3 DEF CheckSteps
    <3>4. QED
      BY <1>22, <2>1, <2>2, <3>1, <3>2, <3>3
      DEF CheckSteps, Check, StopHook, SetDebugging, Reasons, retro, run
  <2>4. CASE nCpuSteps # 1
    BY <1>22, <2>1, <2>2, <2>4 DEF CheckSteps, Check, retro, debugger, run
  <2>5. QED
    BY <2>3, <2>4
<1>23. CASE EndSpecialties
  BY <1>23 DEF EndSpecialties, LeaveRun, retro, debugger, run
<1>24. CASE UNCHANGED vars
  BY <1>24 DEF vars, retro, debugger, run
<1>25. QED
  BY <1>1, <1>2, <1>3, <1>4, <1>5, <1>6, <1>7, <1>8, <1>9, <1>10, <1>11, <1>12,
     <1>13, <1>14, <1>15, <1>16, <1>17, <1>18, <1>19, <1>20, <1>21, <1>22,
     <1>23, <1>24 DEF Next, Host, Program, Core

\* No step loses a reset the host asked for.
LEMMA ResetStep ==
  ASSUME TypeOK, ResetInv, [Next]_vars
  PROVE  ResetInv'
<1> USE ConstantsAssumption DEF TypeOK, ResetInv
<1>1. CASE HatariReset
  BY <1>1
  DEF HatariReset, Reset_ST, SetDebugging, WithDebugger, retro, debugger, run
<1>2. CASE HatariResetFails
  BY <1>2 DEF HatariResetFails, retro, debugger, run
<1>3. CASE CommandReset
  BY <1>3
  DEF CommandReset, Reset_ST, SetDebugging, WithDebugger, retro, debugger, run
<1>4. CASE CommandSetopt
  BY <1>4 DEF CommandSetopt, SetDebugging, WithDebugger, retro, debugger, run
<1>5. ASSUME NEW n \in 0 .. MaxSteps, Step(n)
       PROVE  ResetInv'
  BY <1>5 DEF Step, SetDebugging, WithDebugger, retro, debugger, run
<1>6. ASSUME NEW b \in 0 .. MaxBreakpoints, Breakpoint(b)
       PROVE  ResetInv'
  BY <1>6 DEF Breakpoint, SetDebugging, WithDebugger, retro, debugger, run
<1>7. ASSUME NEW m \in 0 .. MaxFrames, HatariRun(m)
       PROVE  ResetInv'
  BY <1>7 DEF HatariRun, retro, debugger, run
<1>8. ASSUME NEW r \in {"EXCEPTION", "OTHER"}, ProgramStops(r)
       PROVE  ResetInv'
  BY <1>8
  DEF ProgramStops, StopHook, SetDebugging, WithDebugger, Reasons, retro,
      debugger, run
<1>9. CASE ProgramResets
  BY <1>9
  DEF ProgramResets, Reset_ST, SetDebugging, WithDebugger, retro, debugger, run
<1>10. CASE ProgramQuits
  BY <1>10 DEF ProgramQuits, retro, debugger, run
<1>11. CASE EndRun
  BY <1>11 DEF EndRun, Done, retro, debugger, run
<1>12. CASE EnterGo
  BY <1>12 DEF EnterGo, Done, retro, debugger, run
<1>13. CASE EnterRun
  BY <1>13 DEF EnterRun, Done, retro, debugger, run
<1>14. CASE LeaveGo
  BY <1>14 DEF LeaveGo, retro, debugger, run
<1>15. CASE ResetCpu
  BY <1>15 DEF ResetCpu, WithDebugger, retro, debugger, run
<1>16. CASE Instruction
  BY <1>16 DEF Instruction, retro, debugger, run
<1>17. CASE NoVbl
  BY <1>17 DEF NoVbl, retro, debugger, run
<1>18. CASE Vbl
  BY <1>18 DEF Vbl, retro, debugger, run
<1>19. CASE ModeChange
  BY <1>19 DEF ModeChange, LeaveRun, retro, debugger, run
<1>20. CASE NoCheck
  BY <1>20 DEF NoCheck, Elapsed, retro, debugger, run
<1>21. ASSUME NEW b \in 0 .. breakpoints, CheckBreakpoint(b)
       PROVE  ResetInv'
  BY <1>21
  DEF CheckBreakpoint, Check, Elapsed, StopHook, SetDebugging, WithDebugger,
      Reasons, retro, debugger, run
<1>22. ASSUME NEW b \in 0 .. breakpoints, CheckSteps(b)
       PROVE  ResetInv'
  BY <1>22
  DEF CheckSteps, Check, Elapsed, StopHook, SetDebugging, WithDebugger, Reasons,
      retro, debugger, run
<1>23. CASE EndSpecialties
  BY <1>23 DEF EndSpecialties, LeaveRun, retro, debugger, run
<1>24. CASE UNCHANGED vars
  BY <1>24 DEF vars, retro, debugger, run
<1>25. QED
  BY <1>1, <1>2, <1>3, <1>4, <1>5, <1>6, <1>7, <1>8, <1>9, <1>10, <1>11, <1>12,
     <1>13, <1>14, <1>15, <1>16, <1>17, <1>18, <1>19, <1>20, <1>21, <1>22,
     <1>23, <1>24 DEF Next, Host, Program, Core

\* No step loses a stop.
LEMMA StopStep ==
  ASSUME TypeOK, StopInv, [Next]_vars
  PROVE  StopInv'
<1> USE ConstantsAssumption DEF TypeOK, StopInv
<1>1. CASE HatariReset
  BY <1>1
  DEF HatariReset, Reset_ST, SetDebugging, WithDebugger, retro, debugger, run
<1>2. CASE HatariResetFails
  BY <1>2 DEF HatariResetFails, retro, debugger, run
<1>3. CASE CommandReset
  BY <1>3
  DEF CommandReset, Reset_ST, SetDebugging, WithDebugger, retro, debugger, run
<1>4. CASE CommandSetopt
  BY <1>4 DEF CommandSetopt, SetDebugging, WithDebugger, retro, debugger, run
<1>5. ASSUME NEW n \in 0 .. MaxSteps, Step(n)
       PROVE  StopInv'
  BY <1>5 DEF Step, SetDebugging, WithDebugger, retro, debugger, run
<1>6. ASSUME NEW b \in 0 .. MaxBreakpoints, Breakpoint(b)
       PROVE  StopInv'
  BY <1>6 DEF Breakpoint, SetDebugging, WithDebugger, retro, debugger, run
<1>7. ASSUME NEW m \in 0 .. MaxFrames, HatariRun(m)
       PROVE  StopInv'
  BY <1>7 DEF HatariRun, retro, debugger, run
<1>8. ASSUME NEW r \in {"EXCEPTION", "OTHER"}, ProgramStops(r)
       PROVE  StopInv'
  BY <1>8
  DEF ProgramStops, StopHook, SetDebugging, WithDebugger, Reasons, retro,
      debugger, run
<1>9. CASE ProgramResets
  BY <1>9
  DEF ProgramResets, Reset_ST, SetDebugging, WithDebugger, retro, debugger, run
<1>10. CASE ProgramQuits
  BY <1>10 DEF ProgramQuits, retro, debugger, run
<1>11. CASE EndRun
  BY <1>11 DEF EndRun, Done, retro, debugger, run
<1>12. CASE EnterGo
  BY <1>12 DEF EnterGo, Done, retro, debugger, run
<1>13. CASE EnterRun
  BY <1>13 DEF EnterRun, Done, retro, debugger, run
<1>14. CASE LeaveGo
  BY <1>14 DEF LeaveGo, retro, debugger, run
<1>15. CASE ResetCpu
  BY <1>15 DEF ResetCpu, WithDebugger, retro, debugger, run
<1>16. CASE Instruction
  BY <1>16 DEF Instruction, retro, debugger, run
<1>17. CASE NoVbl
  BY <1>17 DEF NoVbl, retro, debugger, run
<1>18. CASE Vbl
  BY <1>18 DEF Vbl, retro, debugger, run
<1>19. CASE ModeChange
  BY <1>19 DEF ModeChange, LeaveRun, retro, debugger, run
<1>20. CASE NoCheck
  BY <1>20 DEF NoCheck, Elapsed, retro, debugger, run
<1>21. ASSUME NEW b \in 0 .. breakpoints, CheckBreakpoint(b)
       PROVE  StopInv'
  BY <1>21
  DEF CheckBreakpoint, Check, Elapsed, StopHook, SetDebugging, WithDebugger,
      Reasons, retro, debugger, run
<1>22. ASSUME NEW b \in 0 .. breakpoints, CheckSteps(b)
       PROVE  StopInv'
  BY <1>22
  DEF CheckSteps, Check, Elapsed, StopHook, SetDebugging, WithDebugger, Reasons,
      retro, debugger, run
<1>23. CASE EndSpecialties
  BY <1>23 DEF EndSpecialties, LeaveRun, retro, debugger, run
<1>24. CASE UNCHANGED vars
  BY <1>24 DEF vars, retro, debugger, run
<1>25. QED
  BY <1>1, <1>2, <1>3, <1>4, <1>5, <1>6, <1>7, <1>8, <1>9, <1>10, <1>11, <1>12,
     <1>13, <1>14, <1>15, <1>16, <1>17, <1>18, <1>19, <1>20, <1>21, <1>22,
     <1>23, <1>24 DEF Next, Host, Program, Core

\* No step loses the end of the last frame.
LEMMA FramesStep ==
  ASSUME TypeOK, FramesInv, [Next]_vars
  PROVE  FramesInv'
<1> USE ConstantsAssumption DEF TypeOK, FramesInv
<1>1. CASE HatariReset
  BY <1>1
  DEF HatariReset, Reset_ST, SetDebugging, WithDebugger, retro, debugger, run
<1>2. CASE HatariResetFails
  BY <1>2 DEF HatariResetFails, retro, debugger, run
<1>3. CASE CommandReset
  BY <1>3
  DEF CommandReset, Reset_ST, SetDebugging, WithDebugger, retro, debugger, run
<1>4. CASE CommandSetopt
  BY <1>4 DEF CommandSetopt, SetDebugging, WithDebugger, retro, debugger, run
<1>5. ASSUME NEW n \in 0 .. MaxSteps, Step(n)
       PROVE  FramesInv'
  BY <1>5 DEF Step, SetDebugging, WithDebugger, retro, debugger, run
<1>6. ASSUME NEW b \in 0 .. MaxBreakpoints, Breakpoint(b)
       PROVE  FramesInv'
  BY <1>6 DEF Breakpoint, SetDebugging, WithDebugger, retro, debugger, run
<1>7. ASSUME NEW m \in 0 .. MaxFrames, HatariRun(m)
       PROVE  FramesInv'
  BY <1>7 DEF HatariRun, retro, debugger, run
<1>8. ASSUME NEW r \in {"EXCEPTION", "OTHER"}, ProgramStops(r)
       PROVE  FramesInv'
  BY <1>8
  DEF ProgramStops, StopHook, SetDebugging, WithDebugger, Reasons, retro,
      debugger, run
<1>9. CASE ProgramResets
  BY <1>9
  DEF ProgramResets, Reset_ST, SetDebugging, WithDebugger, retro, debugger, run
<1>10. CASE ProgramQuits
  BY <1>10 DEF ProgramQuits, retro, debugger, run
<1>11. CASE EndRun
  BY <1>11 DEF EndRun, Done, retro, debugger, run
<1>12. CASE EnterGo
  BY <1>12 DEF EnterGo, Done, retro, debugger, run
<1>13. CASE EnterRun
  BY <1>13 DEF EnterRun, Done, retro, debugger, run
<1>14. CASE LeaveGo
  BY <1>14 DEF LeaveGo, retro, debugger, run
<1>15. CASE ResetCpu
  BY <1>15 DEF ResetCpu, WithDebugger, retro, debugger, run
<1>16. CASE Instruction
  BY <1>16 DEF Instruction, retro, debugger, run
<1>17. CASE NoVbl
  BY <1>17 DEF NoVbl, retro, debugger, run
<1>18. CASE Vbl
  BY <1>18 DEF Vbl, retro, debugger, run
<1>19. CASE ModeChange
  BY <1>19 DEF ModeChange, LeaveRun, retro, debugger, run
<1>20. CASE NoCheck
  BY <1>20 DEF NoCheck, Elapsed, retro, debugger, run
<1>21. ASSUME NEW b \in 0 .. breakpoints, CheckBreakpoint(b)
       PROVE  FramesInv'
  BY <1>21
  DEF CheckBreakpoint, Check, Elapsed, StopHook, SetDebugging, WithDebugger,
      Reasons, retro, debugger, run
<1>22. ASSUME NEW b \in 0 .. breakpoints, CheckSteps(b)
       PROVE  FramesInv'
  BY <1>22
  DEF CheckSteps, Check, Elapsed, StopHook, SetDebugging, WithDebugger, Reasons,
      retro, debugger, run
<1>23. CASE EndSpecialties
  BY <1>23 DEF EndSpecialties, LeaveRun, retro, debugger, run
<1>24. CASE UNCHANGED vars
  BY <1>24 DEF vars, retro, debugger, run
<1>25. QED
  BY <1>1, <1>2, <1>3, <1>4, <1>5, <1>6, <1>7, <1>8, <1>9, <1>10, <1>11, <1>12,
     <1>13, <1>14, <1>15, <1>16, <1>17, <1>18, <1>19, <1>20, <1>21, <1>22,
     <1>23, <1>24 DEF Next, Host, Program, Core

\* No step switches the debugger off.
LEMMA WatchStep ==
  ASSUME TypeOK, WatchInv, [Next]_vars
  PROVE  WatchInv'
<1> USE ConstantsAssumption DEF TypeOK, WatchInv
<1>1. CASE HatariReset
  BY <1>1
  DEF HatariReset, Reset_ST, SetDebugging, WithDebugger, retro, debugger, run
<1>2. CASE HatariResetFails
  BY <1>2 DEF HatariResetFails, retro, debugger, run
<1>3. CASE CommandReset
  BY <1>3
  DEF CommandReset, Reset_ST, SetDebugging, WithDebugger, retro, debugger, run
<1>4. CASE CommandSetopt
  BY <1>4 DEF CommandSetopt, SetDebugging, WithDebugger, retro, debugger, run
<1>5. ASSUME NEW n \in 0 .. MaxSteps, Step(n)
       PROVE  WatchInv'
  BY <1>5 DEF Step, SetDebugging, WithDebugger, retro, debugger, run
<1>6. ASSUME NEW b \in 0 .. MaxBreakpoints, Breakpoint(b)
       PROVE  WatchInv'
  BY <1>6 DEF Breakpoint, SetDebugging, WithDebugger, retro, debugger, run
<1>7. ASSUME NEW m \in 0 .. MaxFrames, HatariRun(m)
       PROVE  WatchInv'
  BY <1>7 DEF HatariRun, retro, debugger, run
<1>8. ASSUME NEW r \in {"EXCEPTION", "OTHER"}, ProgramStops(r)
       PROVE  WatchInv'
  BY <1>8
  DEF ProgramStops, StopHook, SetDebugging, WithDebugger, Reasons, retro,
      debugger, run
<1>9. CASE ProgramResets
  BY <1>9
  DEF ProgramResets, Reset_ST, SetDebugging, WithDebugger, retro, debugger, run
<1>10. CASE ProgramQuits
  BY <1>10 DEF ProgramQuits, retro, debugger, run
<1>11. CASE EndRun
  BY <1>11 DEF EndRun, Done, retro, debugger, run
<1>12. CASE EnterGo
  BY <1>12 DEF EnterGo, Done, retro, debugger, run
<1>13. CASE EnterRun
  BY <1>13 DEF EnterRun, Done, retro, debugger, run
<1>14. CASE LeaveGo
  BY <1>14 DEF LeaveGo, retro, debugger, run
<1>15. CASE ResetCpu
  BY <1>15 DEF ResetCpu, WithDebugger, retro, debugger, run
<1>16. CASE Instruction
  BY <1>16 DEF Instruction, retro, debugger, run
<1>17. CASE NoVbl
  BY <1>17 DEF NoVbl, retro, debugger, run
<1>18. CASE Vbl
  BY <1>18 DEF Vbl, retro, debugger, run
<1>19. CASE ModeChange
  BY <1>19 DEF ModeChange, LeaveRun, retro, debugger, run
<1>20. CASE NoCheck
  BY <1>20 DEF NoCheck, Elapsed, retro, debugger, run
<1>21. ASSUME NEW b \in 0 .. breakpoints, CheckBreakpoint(b)
       PROVE  WatchInv'
  BY <1>21
  DEF CheckBreakpoint, Check, Elapsed, StopHook, SetDebugging, WithDebugger,
      Reasons, retro, debugger, run
<1>22. ASSUME NEW b \in 0 .. breakpoints, CheckSteps(b)
       PROVE  WatchInv'
  <2>1. CASE nCpuSteps = 1
    <3>1. /\ breakpoints' = b /\ nCpuSteps' = 0 /\ nCpuActiveCBs' = b
          /\ M68000_DebuggerFlag' = (b > 0 \/ 0 > 0)
          /\ spcflags' = WithDebugger(spcflags \cup {"BRK"}, b > 0 \/ 0 > 0)
      BY <1>22, <2>1 DEF CheckSteps, Check, StopHook, SetDebugging
    <3>2. CASE b > 0
      BY <3>1, <3>2 DEF WithDebugger
    <3>3. CASE ~(b > 0)
      BY <3>1, <3>3 DEF WithDebugger
    <3>4. QED
      BY <3>2, <3>3
  <2>2. CASE nCpuSteps # 1
    BY <1>22, <2>2 DEF CheckSteps, Check, debugger
  <2>3. QED
    BY <2>1, <2>2
<1>23. CASE EndSpecialties
  BY <1>23 DEF EndSpecialties, LeaveRun, retro, debugger, run
<1>24. CASE UNCHANGED vars
  BY <1>24 DEF vars, retro, debugger, run
<1>25. QED
  BY <1>1, <1>2, <1>3, <1>4, <1>5, <1>6, <1>7, <1>8, <1>9, <1>10, <1>11, <1>12,
     <1>13, <1>14, <1>15, <1>16, <1>17, <1>18, <1>19, <1>20, <1>21, <1>22,
     <1>23, <1>24 DEF Next, Host, Program, Core

-----------------------------------------------------------------------------
Inv == TypeOK /\ ResetInv /\ StopInv /\ FramesInv /\ WatchInv

\* The conjunction is an invariant of RetroCore.
THEOREM Invariance == Spec => []Inv
<1>1. Init => Inv
  <2> SUFFICES ASSUME Init PROVE Inv
    OBVIOUS
  <2>1. TypeOK
    <3>1. /\ 0 \in 0 .. MaxFrames /\ 0 \in 0 .. MaxSteps
          /\ 0 \in 0 .. MaxBreakpoints
      BY ConstantsAssumption
    <3>2. QED
      BY <3>1 DEF Init, TypeOK, Reasons
  <2>2. ResetInv /\ StopInv /\ FramesInv
    BY DEF Init, ResetInv, StopInv, FramesInv
  <2>3. WatchInv
    BY DEF Init, WatchInv
  <2>4. QED
    BY <2>1, <2>2, <2>3 DEF Inv
<1>2. Inv /\ [Next]_vars => Inv'
  BY TypeStep, ResetStep, StopStep, FramesStep, WatchStep DEF Inv
<1>3. QED
  BY <1>1, <1>2, PTL DEF Spec

\* The variables keep their types.
THEOREM TypeCorrect == Spec => []TypeOK
<1>1. Inv => TypeOK
  BY DEF Inv
<1>2. QED
  BY Invariance, <1>1, PTL

\* A reset the host asks for is performed before any other instruction runs,
\* unless the program has ended.  (hatari_reset, retro_run, m68k_go)
THEOREM ResetCorrect == Spec => []HostResetsCpu
<1>1. Inv => HostResetsCpu
  BY DEF Inv, ResetInv, HostResetsCpu
<1>2. QED
  BY Invariance, <1>1, PTL

\* Once the debugger has stopped the emulation, no instruction runs before
\* hatari_run has returned.  (DebugApi_StopHook, do_specialties, m68k_go)
THEOREM StopCorrect == Spec => []StopEndsRun
<1>1. Inv => StopEndsRun
  BY DEF Inv, StopInv, StopEndsRun
<1>2. QED
  BY Invariance, <1>1, PTL

\* hatari_run emulates no more frames than it is asked for, and runs no
\* instruction for one more.  (hatari_run, Timing_WaitOnVbl)
THEOREM FramesCorrect == Spec => []FramesBounded
<1>1. Inv => FramesBounded
  BY DEF Inv, FramesInv, FramesBounded
<1>2. QED
  BY Invariance, <1>1, PTL

\* The CPU core calls the debugger, and the debugger looks for breakpoints, as
\* long as there is something to watch.  (DebugCpu_SetDebugging,
\* M68000_RestoreDebugger, DebugCpu_Check)
THEOREM WatchCorrect == Spec => []BreakpointsWatched
<1>1. Inv => BreakpointsWatched
  BY DEF Inv, WatchInv, BreakpointsWatched
<1>2. QED
  BY Invariance, <1>1, PTL

-----------------------------------------------------------------------------
(* RetroCore implements RunControl: the steps of the host's calls and of the  *)
(* instructions are steps of it, those that only hand the flags on are none.  *)

\* What the host does between two calls.
LEMMA HostRefines ==
  ASSUME Inv, Host
  PROVE  [Control!Next]_Control!vars
<1> USE DEF Inv, TypeOK, Control!vars
<1>1. CASE HatariReset \/ HatariResetFails \/ CommandReset \/ CommandSetopt
  <2>1. CASE asked' = "host"
    <3>1. Control!AskReset
      BY <1>1, <2>1
      DEF HatariReset, HatariResetFails, CommandReset, CommandSetopt, Reset_ST,
          retro, run, Control!AskReset
    <3>2. QED
      BY <3>1 DEF Control!Next
  <2>2. CASE asked' # "host"
    BY <1>1, <2>2
    DEF HatariReset, HatariResetFails, CommandReset, CommandSetopt, Reset_ST,
        retro, run
  <2>3. QED
    BY <2>1, <2>2
<1>2. ASSUME NEW n \in 0 .. MaxSteps, Step(n)
      PROVE  UNCHANGED Control!vars
  BY <1>2 DEF Step, retro, run
<1>3. ASSUME NEW b \in 0 .. MaxBreakpoints, Breakpoint(b)
      PROVE  UNCHANGED Control!vars
  BY <1>3 DEF Breakpoint, retro, run
<1>4. ASSUME NEW m \in 0 .. MaxFrames, HatariRun(m)
      PROVE  Control!Call(m)
  BY <1>4 DEF HatariRun, retro, debugger, Control!Call
<1>5. QED
  BY <1>1, <1>2, <1>3, <1>4 DEF Host, Control!Next

\* An instruction runs only while RunControl allows one: ResetInv, StopInv and
\* FramesInv say so in the phase in which it begins.
LEMMA InstructionRefines ==
  ASSUME Inv, Program \/ Instruction
  PROVE  Control!Execute
<1> USE DEF Inv, TypeOK
<1>1. /\ phase = "insn" /\ stopReason = "NONE" /\ frames < max_frames
      /\ asked = "host" => bQuitProgram
  BY DEF Program, ProgramStops, ProgramResets, ProgramQuits, Instruction, ResetInv,
         StopInv, FramesInv
<1>2. ASSUME NEW r \in {"EXCEPTION", "OTHER"}, ProgramStops(r)
      PROVE  Control!Execute
  BY <1>1, <1>2 DEF ProgramStops, StopHook, Reasons, run, Control!Execute, Control!MayRun
<1>3. CASE ProgramResets
  BY <1>1, <1>3 DEF ProgramResets, Reset_ST, run, Control!Execute, Control!MayRun
<1>4. CASE ProgramQuits
  BY <1>1, <1>4 DEF ProgramQuits, run, Control!Execute, Control!MayRun
<1>5. CASE Instruction
  BY <1>1, <1>5 DEF Instruction, run, Control!Execute, Control!MayRun
<1>6. QED
  BY <1>2, <1>3, <1>4, <1>5 DEF Program

\* The core: each phase ends with a step of RunControl or with none.
LEMMA CoreRefines ==
  ASSUME Inv, Core, ~Instruction
  PROVE  [Control!Next]_Control!vars
<1> USE DEF Inv, TypeOK
<1>1. CASE EndRun
  <2>1. Control!Return
    BY <1>1 DEF EndRun, Done, run, FramesInv, Control!Return, Control!MayRun
  <2>2. QED
    BY <2>1 DEF Control!Next
<1>2. CASE EnterGo \/ EnterRun \/ LeaveGo
  BY <1>2 DEF EnterGo, EnterRun, LeaveGo, run, Control!vars
<1>3. CASE ResetCpu
  <2>1. CASE quit_program = "RESET"
    <3>1. Control!PerformReset \/ UNCHANGED Control!vars
      BY <1>3, <2>1
      DEF ResetCpu, StopInv, FramesInv, run, Control!PerformReset, Control!MayRun,
          Control!vars
    <3>2. QED
      BY <3>1 DEF Control!Next
  <2>2. CASE quit_program # "RESET"
    BY <1>3, <2>2 DEF ResetCpu, run, Control!vars
  <2>3. QED
    BY <2>1, <2>2
<1>4. CASE NoVbl \/ NoCheck
  BY <1>4 DEF NoVbl, NoCheck, retro, debugger, run, Control!vars
<1>5. CASE Vbl
  <2>1. Control!Frame
    BY <1>5 DEF Vbl, FramesInv, retro, Control!Frame
  <2>2. QED
    BY <2>1 DEF Control!Next
<1>6. CASE ModeChange
  <2>1. Control!Finish
    BY <1>6 DEF ModeChange, LeaveRun, retro, debugger, run, Control!Finish
  <2>2. QED
    BY <2>1 DEF Control!Next
<1>7. ASSUME NEW b \in 0 .. breakpoints, CheckBreakpoint(b)
      PROVE  Control!Stop
  BY <1>7 DEF CheckBreakpoint, Check, StopHook, Reasons, retro, run, Control!Stop
<1>8. ASSUME NEW b \in 0 .. breakpoints, CheckSteps(b)
      PROVE  Control!Stop \/ UNCHANGED Control!vars
  <2>1. CASE nCpuSteps = 1
    BY <1>8, <2>1
    DEF CheckSteps, Check, StopHook, Reasons, retro, run, Control!Stop
  <2>2. CASE nCpuSteps # 1
    BY <1>8, <2>2 DEF CheckSteps, Check, retro, run, Control!vars
  <2>3. QED
    BY <2>1, <2>2
<1>9. CASE EndSpecialties
  <2>1. Control!Finish
    BY <1>9 DEF EndSpecialties, LeaveRun, retro, run, Control!Finish
  <2>2. QED
    BY <2>1 DEF Control!Next
<1>10. QED
  BY <1>1, <1>2, <1>3, <1>4, <1>5, <1>6, <1>7, <1>8, <1>9 DEF Core, Control!Next

\* The flags of the core, passed on from phase to phase, do what hatari_run
\* promises to its callers: no instruction begins after the last frame, after a
\* stop or before a reset that was asked for, and a call returns for no other
\* reason.  (hatari_run, retro_run, m68k_go, do_specialties)
THEOREM ControlImplemented == Spec => ImplementsControl
<1>1. Init => Control!Init
  BY DEF Init, Control!Init
<1>2. Inv /\ [Next]_vars => [Control!Next]_Control!vars
  <2> SUFFICES ASSUME Inv, [Next]_vars
               PROVE  [Control!Next]_Control!vars
    OBVIOUS
  <2>1. CASE Host
    BY <2>1, HostRefines
  <2>2. CASE Program \/ Instruction
    BY <2>2, InstructionRefines DEF Control!Next
  <2>3. CASE Core /\ ~Instruction
    BY <2>3, CoreRefines
  <2>4. CASE UNCHANGED vars
    BY <2>4 DEF vars, run, Control!vars
  <2>5. QED
    BY <2>1, <2>2, <2>3, <2>4 DEF Next
<1>3. QED
  BY <1>1, <1>2, Invariance, PTL DEF Spec, ImplementsControl, Control!Spec

-----------------------------------------------------------------------------
(* ResetsCpu and StepsExact fail in RetroCore.  The theorems say when they    *)
(* hold, and so that nothing else than what their hypotheses exclude is wrong *)
(* with resets and steps.                                                     *)

\* A reset that is not the host's comes while m68k_go is still to be entered or
\* is on the way, and its instruction does not end the frame.
ResetKept ==
  /\ CommandReset => has_cpu_config_changed
  /\ ProgramResets => in_m68k_go
  /\ Vbl => asked # "other"

\* Which flags then hold the reset.
OtherResetInv ==
  asked = "other" /\ ~bQuitProgram =>
    /\ quit_program = "RESET"
    /\ \/ phase \in {"host", "loop"} /\ has_cpu_config_changed
       \/ phase = "go"
       \/ phase \in {"events", "special"} /\ in_m68k_go /\ "MODE_CHANGE" \in spcflags

LEMMA OtherResetStep ==
  ASSUME Inv, OtherResetInv, [Next]_vars, [ResetKept]_vars
  PROVE  OtherResetInv'
<1> USE DEF Inv, TypeOK, OtherResetInv
<1>1. ASSUME CommandReset, ResetKept PROVE OtherResetInv'
  BY <1>1 DEF CommandReset, ResetKept, Reset_ST, SetDebugging, WithDebugger, retro, run
<1>2. ASSUME ProgramResets, ResetKept PROVE OtherResetInv'
  BY <1>2 DEF ProgramResets, ResetKept, Reset_ST, SetDebugging, WithDebugger, retro, run
<1>3. ASSUME Vbl, ResetKept PROVE OtherResetInv'
  BY <1>3 DEF Vbl, ResetKept, retro
<1>4. CASE HatariReset \/ HatariResetFails \/ CommandSetopt \/ EndRun
  BY <1>4
  DEF HatariReset, HatariResetFails, CommandSetopt, EndRun, Reset_ST, retro, run
<1>5. ASSUME NEW n \in 0 .. MaxSteps, Step(n) PROVE OtherResetInv'
  BY <1>5 DEF Step, retro, run
<1>6. ASSUME NEW b \in 0 .. MaxBreakpoints, Breakpoint(b) PROVE OtherResetInv'
  BY <1>6 DEF Breakpoint, retro, run
<1>7. ASSUME NEW m \in 0 .. MaxFrames, HatariRun(m) PROVE OtherResetInv'
  BY <1>7 DEF HatariRun, retro, debugger
<1>8. CASE EnterGo \/ EnterRun \/ LeaveGo \/ ResetCpu
  BY <1>8 DEF EnterGo, EnterRun, LeaveGo, ResetCpu, retro, run
<1>9. ASSUME NEW r \in {"EXCEPTION", "OTHER"}, ProgramStops(r) PROVE OtherResetInv'
  BY <1>9 DEF ProgramStops, retro, run
<1>10. CASE Instruction \/ ProgramQuits \/ NoVbl
  BY <1>10 DEF Instruction, ProgramQuits, NoVbl, retro, debugger, run
<1>11. CASE ModeChange \/ NoCheck \/ EndSpecialties
  BY <1>11 DEF ModeChange, NoCheck, EndSpecialties, LeaveRun, retro, debugger, run
<1>12. ASSUME NEW b \in 0 .. breakpoints, CheckBreakpoint(b) \/ CheckSteps(b)
       PROVE  OtherResetInv'
  BY <1>12 DEF CheckBreakpoint, CheckSteps, Check, retro, run
<1>13. CASE UNCHANGED vars
  BY <1>13 DEF vars, retro, debugger, run
<1>14. CASE Next /\ ~UNCHANGED vars
  BY <1>1, <1>2, <1>3, <1>4, <1>5, <1>6, <1>7, <1>8, <1>9, <1>10, <1>11, <1>12, <1>14
  DEF Next, Host, Program, Core
<1>15. QED
  BY <1>13, <1>14

\* "emulation really restarts from the reset vector rather than resuming at
\* the old PC on freshly reset hardware" (debug_api.c:119): so it does for every
\* reset but one of a debugger command between two runs, one of the program in
\* a run that m68k_run was entered for directly, and one of the program in the
\* instruction that ends a frame.
THEOREM ResetsCorrect == Spec /\ [][ResetKept]_vars => []ResetsCpu
<1>1. Init => OtherResetInv
  BY DEF Init, OtherResetInv
<1>2. Inv /\ OtherResetInv /\ [Next]_vars /\ [ResetKept]_vars => OtherResetInv'
  BY OtherResetStep
<1>3. Inv /\ OtherResetInv => ResetsCpu
  BY DEF Inv, TypeOK, ResetInv, OtherResetInv, ResetsCpu
<1>4. QED
  BY <1>1, <1>2, <1>3, Invariance, PTL DEF Spec

\* No breakpoint stops the emulation while there are steps to count.
StepsAlone == \A b \in 0 .. breakpoints : CheckBreakpoint(b) => nCpuSteps = 0

\* What is left to count is then what is left to run.
StepsInv == due = nCpuSteps

LEMMA StepsStep ==
  ASSUME Inv, StepsInv, [Next]_vars, [StepsAlone]_vars
  PROVE  /\ StepsInv'
         /\ stopReason' = "STEPS" /\ stopReason # "STEPS" => due = 1
<1> DEFINE Exact == stopReason' = "STEPS" /\ stopReason # "STEPS" => due = 1
<1> USE DEF Inv, TypeOK, StepsInv
<1>1. CASE /\ UNCHANGED <<nCpuSteps, due>>
           /\ stopReason' \in {stopReason, "NONE", "EXCEPTION", "OTHER"}
  BY <1>1
<1>2. CASE Host
  <2>1. ASSUME NEW n \in 0 .. MaxSteps, Step(n) PROVE StepsInv' /\ Exact
    BY <2>1 DEF Step
  <2>2. QED
    BY <1>1, <1>2, <2>1
    DEF Host, HatariReset, HatariResetFails, CommandReset, CommandSetopt, Breakpoint,
        HatariRun
<1>3. CASE Program
  BY <1>1, <1>3 DEF Program, ProgramStops, StopHook, ProgramResets, ProgramQuits
<1>4. CASE NoCheck
  BY <1>4 DEF NoCheck, Elapsed, WatchInv
<1>5. ASSUME NEW b \in 0 .. breakpoints, CheckBreakpoint(b), StepsAlone
      PROVE  StepsInv' /\ Exact
  BY <1>5 DEF CheckBreakpoint, StepsAlone, Check, Elapsed, StopHook
<1>6. ASSUME NEW b \in 0 .. breakpoints, CheckSteps(b)
      PROVE  StepsInv' /\ Exact
  BY <1>6 DEF CheckSteps, Check, Elapsed, StopHook
<1>7. CASE \/ EndRun \/ EnterGo \/ EnterRun \/ LeaveGo \/ ResetCpu \/ Instruction
           \/ NoVbl \/ Vbl \/ ModeChange \/ EndSpecialties
  BY <1>1, <1>7
  DEF EndRun, EnterGo, EnterRun, LeaveGo, ResetCpu, Instruction, NoVbl, Vbl,
      ModeChange, EndSpecialties
<1>8. CASE UNCHANGED vars
  BY <1>1, <1>8 DEF vars
<1>9. CASE Next /\ ~UNCHANGED vars
  BY <1>2, <1>3, <1>4, <1>5, <1>6, <1>7, <1>9 DEF Next, Core
<1>10. QED
  BY <1>8, <1>9

\* "next hatari_run() stops with HATARI_STOP_STEPS after given number of
\* instructions" (debug_api.c:213): so it does if no breakpoint stops the
\* emulation while there are steps to count.  Resets, other stops, ends of frames
\* and new counts on the way do not matter.
THEOREM StepsCorrect == Spec /\ [][StepsAlone]_vars => StepsExact
<1>1. Init => StepsInv
  BY DEF Init, StepsInv
<1>2. Inv /\ StepsInv /\ [Next]_vars /\ [StepsAlone]_vars
        => StepsInv' /\ [stopReason' = "STEPS" /\ stopReason # "STEPS" => due = 1]_vars
  BY StepsStep
<1>3. QED
  BY <1>1, <1>2, Invariance, PTL DEF Spec, StepsExact

=============================================================================
