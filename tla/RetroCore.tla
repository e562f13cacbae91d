------------------------------ MODULE RetroCore ------------------------------
(***************************************************************************)
(* Hatari as a library (src/src/retro): a host calls hatari_run, which     *)
(* calls retro_run until enough frames are emulated or the debugger stops  *)
(* the emulation; retro_run enters the CPU core by m68k_run, or by         *)
(* m68k_go, whose loop is the only place where a reset is performed        *)
(* (cpu/newcpu.c).  They share flags: quit_program, the special flags of   *)
(* the CPU, and the state of the debugger (debug/debugcpu.c).              *)
(*                                                                         *)
(* The phases of the emulation thread:                                     *)
(*   host     the host calls the functions of debug_api.c                  *)
(*   loop     the condition of the loop of hatari_run                      *)
(*   go       the top of the loop of m68k_go                               *)
(*   insn     m68k_run is about to run an instruction                      *)
(*   events   CycInt_Process at the end of the instruction                 *)
(*   special  do_specialties                                               *)
(* Breakpoints are counted; whether one matches is left open.  m68k_go     *)
(* resets the same way whether a cold or a warm reset was asked for        *)
(* (hardboot), so the kind of a reset is left out.                         *)
(***************************************************************************)
EXTENDS Integers

CONSTANTS
  MaxFrames,       \* bound of the model: argument of hatari_run
  MaxSteps,        \* bound of the model: argument of hatari_step
  MaxBreakpoints   \* bound of the model: CPU breakpoints

ASSUME ConstantsAssumption ==
  /\ MaxFrames \in Nat
  /\ MaxSteps \in Nat
  /\ MaxBreakpoints \in Nat

VARIABLES
  has_cpu_config_changed, bCpuResetPending,  \* main_retro.c
  quit_program,           \* 0, UAE_QUIT, or one of the resets
  bQuitProgram,
  spcflags,               \* regs.spcflags
  M68000_DebuggerFlag,
  nCpuSteps, nCpuActiveCBs,                  \* debugcpu.c
  breakpoints,            \* breakcond.c: number of CPU breakpoints
  stopReason,             \* debug_api.c
  max_frames, frames,     \* of hatari_run: nVBLs - start
  in_m68k_go,
  phase,
  asked,                  \* history: who waits for the CPU to be reset
  due                     \* history: instructions until steps are over

retro == <<has_cpu_config_changed, bCpuResetPending>>
debugger == <<spcflags, M68000_DebuggerFlag, nCpuActiveCBs>>
run == <<max_frames, frames>>
vars == <<retro, quit_program, bQuitProgram, debugger, nCpuSteps, breakpoints,
          stopReason, run, in_m68k_go, phase, asked, due>>

Reasons == {"BREAKPOINT", "STEPS", "EXCEPTION", "OTHER"}

TypeOK ==
  /\ has_cpu_config_changed \in BOOLEAN /\ bCpuResetPending \in BOOLEAN
  /\ quit_program \in {"0", "QUIT", "RESET"}
  /\ bQuitProgram \in BOOLEAN
  /\ spcflags \subseteq {"BRK", "MODE_CHANGE", "DEBUGGER"}
  /\ M68000_DebuggerFlag \in BOOLEAN
  /\ nCpuSteps \in 0 .. MaxSteps
  /\ breakpoints \in 0 .. MaxBreakpoints /\ nCpuActiveCBs \in 0 .. MaxBreakpoints
  /\ stopReason \in Reasons \cup {"NONE"}
  /\ max_frames \in 0 .. MaxFrames /\ frames \in 0 .. MaxFrames
  /\ in_m68k_go \in BOOLEAN
  /\ phase \in {"host", "loop", "go", "insn", "events", "special", "brk"}
  /\ asked \in {"nobody", "host", "other"}
  /\ due \in 0 .. MaxSteps

\* The core is loaded: Main_Init has called Reset_Cold.
Init ==
  /\ has_cpu_config_changed = TRUE /\ bCpuResetPending = FALSE
  /\ quit_program = "RESET" /\ bQuitProgram = FALSE
  /\ spcflags = {"MODE_CHANGE"} /\ M68000_DebuggerFlag = FALSE
  /\ nCpuSteps = 0 /\ breakpoints = 0 /\ nCpuActiveCBs = 0
  /\ stopReason = "NONE"
  /\ max_frames = 0 /\ frames = 0
  /\ in_m68k_go = FALSE
  /\ phase = "host"
  /\ asked = "host"
  /\ due = 0

-----------------------------------------------------------------------------
(* Functions the actions share. *)

\* M68000_SetDebugger and M68000_RestoreDebugger on the flags f.
WithDebugger(f, on) == IF on THEN f \cup {"DEBUGGER"} ELSE f \ {"DEBUGGER"}

\* DebugCpu_SetDebugging, after which the flags are f, steps are left and
\* there are b breakpoints.
SetDebugging(f, steps, b) ==
  /\ nCpuActiveCBs' = b
  /\ M68000_DebuggerFlag' = (b > 0 \/ steps > 0)
  /\ spcflags' = WithDebugger(f, b > 0 \/ steps > 0)

\* Reset_ST, asked for by who: the hardware is reset, the CPU only told.
Reset_ST(who) ==
  /\ quit_program' = "RESET"
  /\ SetDebugging(spcflags \cup {"MODE_CHANGE"}, nCpuSteps, breakpoints)
  /\ asked' = IF asked = "host" THEN "host" ELSE who

\* Mutant of StopHook: the CPU core is not told to quit.
StopHook_NoQuit(reason, steps, b) ==
  /\ stopReason' = reason
  /\ quit_program' = quit_program
  /\ SetDebugging(spcflags \cup {"BRK"}, steps, b)

\* DebugApi_StopHook, called by DebugUI.
StopHook(reason, steps, b) ==
  /\ stopReason' = reason
  /\ quit_program' = "QUIT"
  /\ SetDebugging(spcflags \cup {"BRK"}, steps, b)

\* m68k_run returns to its caller.
LeaveRun ==
  /\ in_m68k_go' = (in_m68k_go /\ quit_program' # "QUIT")
  /\ phase' = IF in_m68k_go' THEN "go" ELSE "loop"

-----------------------------------------------------------------------------
(* The host. *)

\* Mutant of HatariReset: the next retro_run does not enter m68k_go.
HatariReset_NoRequest ==
  /\ phase = "host"
  /\ Reset_ST("host")
  /\ UNCHANGED <<retro, bQuitProgram, nCpuSteps, breakpoints, stopReason, run,
                 in_m68k_go, phase, due>>

\* hatari_reset and retro_reset
HatariReset ==
  /\ phase = "host"
  /\ Reset_ST("host")
  /\ has_cpu_config_changed' = TRUE /\ bCpuResetPending' = TRUE
  /\ UNCHANGED <<bQuitProgram, nCpuSteps, breakpoints, stopReason, run,
                 in_m68k_go, phase, due>>

\* hatari_reset, when Reset_ST cannot load the TOS image and gives up.
HatariResetFails ==
  /\ phase = "host"
  /\ has_cpu_config_changed' = TRUE /\ bCpuResetPending' = TRUE
  /\ UNCHANGED <<quit_program, bQuitProgram, debugger, nCpuSteps, breakpoints,
                 stopReason, run, in_m68k_go, phase, asked, due>>

\* hatari_step(n), and the debugger commands "continue n" and "step"; with
\* n = 0 the command "continue".
Step(n) ==
  /\ phase = "host"
  /\ nCpuSteps' = n
  /\ SetDebugging(spcflags, n, breakpoints)
  /\ due' = n
  /\ UNCHANGED <<retro, quit_program, bQuitProgram, breakpoints, stopReason, run,
                 in_m68k_go, phase, asked>>

\* The debugger command "breakpoint", which adds or removes one.
Breakpoint(b) ==
  /\ phase = "host"
  /\ breakpoints' = b
  /\ SetDebugging(spcflags, nCpuSteps, b)
  /\ UNCHANGED <<retro, quit_program, bQuitProgram, nCpuSteps, stopReason, run,
                 in_m68k_go, phase, asked, due>>

\* The debugger commands "reset" and "stateload", and "setopt" for an option
\* that needs a reset.
CommandReset ==
  /\ phase = "host"
  /\ Reset_ST("other")
  /\ UNCHANGED <<retro, bQuitProgram, nCpuSteps, breakpoints, stopReason, run,
                 in_m68k_go, phase, due>>

\* The debugger command "setopt" for an option of the CPU that needs none.
CommandSetopt ==
  /\ phase = "host"
  /\ SetDebugging(spcflags \cup {"MODE_CHANGE"}, nCpuSteps, breakpoints)
  /\ UNCHANGED <<retro, quit_program, bQuitProgram, nCpuSteps, breakpoints,
                 stopReason, run, in_m68k_go, phase, asked, due>>

\* hatari_run(m, ...)
HatariRun(m) ==
  /\ phase = "host"
  /\ stopReason' = "NONE"
  /\ max_frames' = m /\ frames' = 0
  /\ phase' = "loop"
  /\ UNCHANGED <<retro, quit_program, bQuitProgram, debugger, nCpuSteps, breakpoints,
                 in_m68k_go, asked, due>>

-----------------------------------------------------------------------------
(* hatari_run, retro_run and m68k_go. *)

\* Mutant of Done: a stop is seen by the caller of hatari_run only.
Done_FramesOnly == frames >= max_frames

Done == stopReason # "NONE" \/ frames >= max_frames

\* hatari_run returns.
EndRun ==
  /\ phase = "loop" /\ Done
  /\ phase' = "host"
  /\ UNCHANGED <<retro, quit_program, bQuitProgram, debugger, nCpuSteps, breakpoints,
                 stopReason, run, in_m68k_go, asked, due>>

\* Mutant of EnterGo: the request is kept for the next call.
EnterGo_KeepsRequest ==
  /\ phase = "loop" /\ ~Done
  /\ has_cpu_config_changed
  /\ spcflags' = spcflags \ {"BRK"}
  /\ quit_program' = IF bCpuResetPending THEN quit_program ELSE "RESET"
  /\ in_m68k_go' = TRUE
  /\ phase' = "go"
  /\ UNCHANGED <<retro, bQuitProgram, M68000_DebuggerFlag, nCpuActiveCBs, nCpuSteps,
                 breakpoints, stopReason, run, asked, due>>

\* retro_run, when it enters m68k_go.
EnterGo ==
  /\ phase = "loop" /\ ~Done
  /\ has_cpu_config_changed
  /\ spcflags' = spcflags \ {"BRK"}
  /\ has_cpu_config_changed' = FALSE
  /\ bCpuResetPending' = FALSE
  /\ quit_program' = IF bCpuResetPending THEN quit_program ELSE "RESET"
  /\ in_m68k_go' = TRUE
  /\ phase' = "go"
  /\ UNCHANGED <<bQuitProgram, M68000_DebuggerFlag, nCpuActiveCBs, nCpuSteps,
                 breakpoints, stopReason, run, asked, due>>

\* retro_run, when it enters m68k_run.
EnterRun ==
  /\ phase = "loop" /\ ~Done
  /\ ~has_cpu_config_changed
  /\ spcflags' = spcflags \ {"BRK"}
  /\ quit_program' = "0"
  /\ phase' = "insn"
  /\ UNCHANGED <<retro, bQuitProgram, M68000_DebuggerFlag, nCpuActiveCBs, nCpuSteps,
                 breakpoints, stopReason, run, in_m68k_go, asked, due>>

\* m68k_go breaks out of its loop before it runs anything.
LeaveGo ==
  /\ phase = "go"
  /\ bQuitProgram \/ quit_program = "QUIT"
  /\ in_m68k_go' = FALSE
  /\ phase' = "loop"
  /\ UNCHANGED <<retro, quit_program, bQuitProgram, debugger, nCpuSteps, breakpoints,
                 stopReason, run, asked, due>>

\* Mutant of ResetCpu: the debugger is not restored.
ResetCpu_NoRestore ==
  /\ phase = "go"
  /\ ~bQuitProgram /\ quit_program # "QUIT"
  /\ quit_program' = "0"
  /\ spcflags' = IF quit_program = "RESET" THEN {} ELSE spcflags \ {"MODE_CHANGE"}
  /\ asked' = IF quit_program = "RESET" THEN "nobody" ELSE asked
  /\ phase' = "insn"
  /\ UNCHANGED <<retro, bQuitProgram, M68000_DebuggerFlag, nCpuActiveCBs, nCpuSteps,
                 breakpoints, stopReason, run, in_m68k_go, due>>

\* m68k_go resets the CPU if it is asked to, m68k_reset2 clearing its flags,
\* and calls m68k_run.
ResetCpu ==
  /\ phase = "go"
  /\ ~bQuitProgram /\ quit_program # "QUIT"
  /\ quit_program' = "0"
  /\ spcflags' = WithDebugger(IF quit_program = "RESET" THEN {}
                                                      ELSE spcflags \ {"MODE_CHANGE"},
                              M68000_DebuggerFlag)
  /\ asked' = IF quit_program = "RESET" THEN "nobody" ELSE asked
  /\ phase' = "insn"
  /\ UNCHANGED <<retro, bQuitProgram, M68000_DebuggerFlag, nCpuActiveCBs, nCpuSteps,
                 breakpoints, stopReason, run, in_m68k_go, due>>

-----------------------------------------------------------------------------
(* The instructions. *)

\* An instruction that concerns none of the flags.
Instruction ==
  /\ phase = "insn"
  /\ phase' = "events"
  /\ UNCHANGED <<retro, quit_program, bQuitProgram, debugger, nCpuSteps, breakpoints,
                 stopReason, run, in_m68k_go, asked, due>>

\* An exception the debugger watches, or a program that calls the debugger
\* (NF_DEBUGGER).
ProgramStops(reason) ==
  /\ phase = "insn"
  /\ StopHook(reason, nCpuSteps, breakpoints)
  /\ phase' = "events"
  /\ UNCHANGED <<retro, bQuitProgram, nCpuSteps, breakpoints, run, in_m68k_go, asked,
                 due>>

\* A program that resets the machine (NF_SHUTDOWN).
ProgramResets ==
  /\ phase = "insn"
  /\ Reset_ST("other")
  /\ phase' = "events"
  /\ UNCHANGED <<retro, bQuitProgram, nCpuSteps, breakpoints, stopReason, run,
                 in_m68k_go, due>>

\* A program that ends when there is no TOS to go back to (Main_SetQuitValue).
ProgramQuits ==
  /\ phase = "insn"
  /\ bQuitProgram' = TRUE
  /\ spcflags' = spcflags \cup {"BRK"}
  /\ phase' = "events"
  /\ UNCHANGED <<retro, quit_program, M68000_DebuggerFlag, nCpuActiveCBs, nCpuSteps,
                 breakpoints, stopReason, run, in_m68k_go, asked, due>>

NoVbl ==
  /\ phase = "events"
  /\ phase' = "special"
  /\ UNCHANGED <<retro, quit_program, bQuitProgram, debugger, nCpuSteps, breakpoints,
                 stopReason, run, in_m68k_go, asked, due>>

\* Mutant of Vbl: m68k_go is not told to quit.
Vbl_NoQuit ==
  /\ phase = "events"
  /\ frames' = frames + 1
  /\ spcflags' = spcflags \cup {"BRK"}
  /\ phase' = "special"
  /\ UNCHANGED <<retro, quit_program, bQuitProgram, M68000_DebuggerFlag, nCpuActiveCBs,
                 nCpuSteps, breakpoints, stopReason, max_frames, in_m68k_go, asked, due>>

\* Video_InterruptHandler_VBL, which ends with Timing_WaitOnVbl.
Vbl ==
  /\ phase = "events"
  /\ frames' = frames + 1
  /\ spcflags' = spcflags \cup {"BRK"}
  /\ quit_program' = "QUIT"
  /\ phase' = "special"
  /\ UNCHANGED <<retro, bQuitProgram, M68000_DebuggerFlag, nCpuActiveCBs, nCpuSteps,
                 breakpoints, stopReason, max_frames, in_m68k_go, asked, due>>

\* One instruction more is over; those that end with a change of mode, which
\* may be a reset, are not counted.
Elapsed == due' = IF due > 0 THEN due - 1 ELSE 0

\* do_specialties asks m68k_run to return before it calls the debugger.
ModeChange ==
  /\ phase = "special"
  /\ "MODE_CHANGE" \in spcflags
  /\ UNCHANGED quit_program
  /\ LeaveRun
  /\ UNCHANGED <<retro, bQuitProgram, debugger, nCpuSteps, breakpoints, stopReason, run,
                 asked, due>>

\* DebugCpu_Check is not called.
NoCheck ==
  /\ phase = "special"
  /\ spcflags \cap {"MODE_CHANGE", "DEBUGGER"} = {}
  /\ Elapsed
  /\ phase' = "brk"
  /\ UNCHANGED <<retro, quit_program, bQuitProgram, debugger, nCpuSteps, breakpoints,
                 stopReason, run, in_m68k_go, asked>>

\* DebugCpu_Check is called; b breakpoints are left by BreakCond_MatchCpu, which
\* removes those that match only once.
Check(b) ==
  /\ phase = "special"
  /\ "MODE_CHANGE" \notin spcflags /\ "DEBUGGER" \in spcflags
  /\ b = breakpoints \/ nCpuActiveCBs > 0
  /\ breakpoints' = b
  /\ Elapsed
  /\ phase' = "brk"
  /\ UNCHANGED <<retro, bQuitProgram, run, in_m68k_go, asked>>

\* A breakpoint stops the emulation; the steps that are left are not counted
\* down.
CheckBreakpoint(b) ==
  /\ Check(b)
  /\ nCpuActiveCBs > 0 /\ breakpoints > 0
  /\ StopHook("BREAKPOINT", nCpuSteps, b)
  /\ UNCHANGED nCpuSteps

\* No breakpoint stops the emulation, the last step may.
CheckSteps(b) ==
  /\ Check(b)
  /\ nCpuSteps' = IF nCpuSteps > 0 THEN nCpuSteps - 1 ELSE 0
  /\ IF nCpuSteps = 1 THEN StopHook("STEPS", 0, b)
                      ELSE UNCHANGED <<quit_program, debugger, stopReason>>

\* The end of do_specialties: m68k_run returns when SPCFLAG_BRK is set.
EndSpecialties ==
  /\ phase = "brk"
  /\ spcflags' = spcflags \ {"BRK"}
  /\ UNCHANGED quit_program
  /\ IF "BRK" \in spcflags THEN LeaveRun ELSE phase' = "insn" /\ UNCHANGED in_m68k_go
  /\ UNCHANGED <<retro, bQuitProgram, M68000_DebuggerFlag, nCpuActiveCBs, nCpuSteps,
                 breakpoints, stopReason, run, asked, due>>

-----------------------------------------------------------------------------
Host ==
  \/ HatariReset \/ HatariResetFails \/ CommandReset \/ CommandSetopt
  \/ \E n \in 0 .. MaxSteps : Step(n)
  \/ \E b \in {breakpoints - 1, breakpoints + 1} \cap (0 .. MaxBreakpoints) : Breakpoint(b)
  \/ \E m \in 0 .. MaxFrames : HatariRun(m)

Program ==
  \/ \E r \in {"EXCEPTION", "OTHER"} : ProgramStops(r)
  \/ ProgramResets \/ ProgramQuits

Core ==
  \/ EndRun \/ EnterGo \/ EnterRun \/ LeaveGo \/ ResetCpu
  \/ Instruction \/ NoVbl \/ Vbl \/ ModeChange \/ NoCheck
  \/ \E b \in 0 .. breakpoints : CheckBreakpoint(b) \/ CheckSteps(b)
  \/ EndSpecialties

Next == Host \/ Program \/ Core

Spec == Init /\ [][Next]_vars

\* One thread runs the core; the clock of the emulation advances with every
\* instruction, so that a VBL comes if instructions go on.
FairSpec == Spec /\ WF_vars(Core) /\ SF_vars(Vbl)

-----------------------------------------------------------------------------
\* A reset the host asks for is performed before any other instruction runs,
\* unless the program has ended.  (hatari_reset, retro_run, m68k_go)
HostResetsCpu == phase = "insn" /\ asked = "host" => bQuitProgram

\* "emulation really restarts from the reset vector rather than resuming at
\* the old PC on freshly reset hardware" (debug_api.c:119), whoever asks for
\* the reset and unless the program has ended.
ResetsCpu == phase = "insn" => asked = "nobody" \/ bQuitProgram

\* Once the debugger has stopped the emulation, no instruction runs before
\* hatari_run has returned the reason.  (DebugApi_StopHook, do_specialties,
\* m68k_go)
StopEndsRun == phase = "insn" => stopReason = "NONE"

\* hatari_run emulates no more frames than it is asked for, and an instruction
\* runs only for a frame that is asked for.  (hatari_run, Timing_WaitOnVbl)
FramesBounded ==
  /\ frames <= max_frames
  /\ phase = "insn" => frames < max_frames

\* The CPU core calls the debugger after an instruction as long as there is a
\* breakpoint or a step to count, and the debugger looks for breakpoints as
\* long as there is one: no reset and no stop switches them off.
\* (DebugCpu_SetDebugging, M68000_RestoreDebugger, DebugCpu_Check)
BreakpointsWatched ==
  phase = "insn" =>
    /\ breakpoints > 0 \/ nCpuSteps > 0 => "DEBUGGER" \in spcflags
    /\ breakpoints > 0 => nCpuActiveCBs > 0

\* "next hatari_run() stops with HATARI_STOP_STEPS after given number of
\* instructions" (debug_api.c:213): a stop after steps comes exactly when the
\* instructions that were asked for have run.
StepsExact ==
  [][stopReason' = "STEPS" /\ stopReason # "STEPS" => due = 1]_vars

\* hatari_run returns.
RunReturns == phase = "loop" ~> phase = "host"

\* The flags of the core, passed on from phase to phase, do what hatari_run
\* promises to its callers (module RunControl): no instruction begins after the
\* last frame, after a stop or before a reset that was asked for, and a call
\* returns for no other reason.  (hatari_run, retro_run, m68k_go, do_specialties)
Control == INSTANCE RunControl WITH
  NoReason <- "NONE",
  called <- phase # "host",
  wanted <- max_frames, done <- frames,
  reason <- stopReason,
  reset <- asked = "host",
  ended <- bQuitProgram,
  executing <- phase \in {"events", "special", "brk"}

ImplementsControl == Control!Spec
=============================================================================
