----------------------------- MODULE McpServer -----------------------------
(***************************************************************************)
(* The Java server that drives the libretro core over MCP                  *)
(* (src/hatari-mcp): several calls of tools run at the same time, the      *)
(* monitor of EmulatorSession lets one of them use the core, and the       *)
(* VideoRecorder films what the machine does under a monitor of its own.   *)
(* DebugTools keeps its own table of breakpoints beside that of Hatari     *)
(* (src/src/debug/breakcond.c).  When its standard input ends the server   *)
(* stops.                                                                  *)
(*                                                                         *)
(* Time is counted in frames, the cycles of the CPU too; a frame brings    *)
(* one batch of samples.  A stop of the debugger in the middle of a frame  *)
(* is put at its start.  The methods of VideoRecorder are synchronized and *)
(* one step each; mute captures and the report of the last one are left    *)
(* out.                                                                    *)
(*                                                                         *)
(* Where a call is (call[c].at):                                           *)
(*   idle                 no call, or its answer is sent                   *)
(*   run                  CapturingMachine.run                             *)
(*   cleanup, remove      a listing is to be read; "b <pos>" is to be sent *)
(*   checked, read        arm_video_capture before it reads the cycles,    *)
(*                        and before it arms                               *)
(***************************************************************************)
EXTENDS Integers, SequencesExt

CONSTANTS
  Calls,       \* calls the server can answer at the same time
  Nobody,      \* nobody holds the monitor of the session
  Exprs,       \* expressions of breakpoints
  NoExpr,
  Every,       \* images are taken every so many frames
  Lengths,     \* frames a run may be asked for
  MaxClock,    \* bound of the model: frames emulated
  MaxId,       \* bound of the model: breakpoints that get an id
  MaxTable     \* bound of the model: breakpoints in Hatari

ASSUME ConstantsAssumption ==
  /\ Nobody \notin Calls
  /\ NoExpr \notin Exprs
  /\ Every \subseteq Nat \ {0} /\ Lengths \subseteq Nat \ {0}
  /\ MaxClock \in Nat /\ MaxId \in Nat /\ MaxTable \in Nat

VARIABLES
  session,   \* the call that holds EmulatorSession.lock
  call,
  now,       \* CyclesGlobalClockCounter, in frames
  sink,      \* VideoRecorder.sink: none; armed, ffmpeg is not started; filming;
             \* failed, ffmpeg has ended; broken, and no file for the samples
  rec,       \* the other fields of VideoRecorder
  written,   \* batches of samples FfmpegSink has written
  table,     \* breakcond.c: bps->breakpoint
  points,    \* DebugTools.points: ids to expressions
  nextId,
  jvm,       \* StdioMcpMain: serving, exiting, dead
  closed,    \* HatariCore.closed
  clean      \* history: the capture was armed while no run was in progress

recorder == <<sink, rec, written, clean>>
debugger == <<table, points, nextId>>
main == <<jvm, closed>>
vars == <<session, call, now, recorder, debugger, main>>

Idle == [at |-> "idle", left |-> 0, chunk |-> 0, done |-> 0, capturing |-> FALSE,
         hit |-> "no", until |-> NoExpr, id |-> 0, pos |-> 0, every |-> 0, cycles |-> 0]

CallType ==
  [at : {"idle", "run", "cleanup", "remove", "checked", "read"},
   left : Nat, chunk : Int, done : Nat, capturing : BOOLEAN,
   hit : {"no", "breakpoint", "other"}, until : Exprs \cup {NoExpr},
   id : Nat, pos : Nat, every : Nat, cycles : Nat]

RecType == [every : Nat, pending : Nat, emulated : Nat, frames : Nat,
            cycles0 : Nat, cyclesLast : Nat]

NoRec == [every |-> 0, pending |-> 0, emulated |-> 0, frames |-> 0,
          cycles0 |-> 0, cyclesLast |-> 0]

Breakpoint == [expr : Exprs, once : BOOLEAN]

TypeOK ==
  /\ session \in Calls \cup {Nobody}
  /\ call \in [Calls -> CallType]
  /\ now \in 0 .. MaxClock
  /\ sink \in {"none", "armed", "filming", "failed", "broken"}
  /\ rec \in RecType /\ (sink # "none" => rec.pending < rec.every)
  /\ written \in Nat
  /\ table \in Seq(Breakpoint) /\ Len(table) <= MaxTable
  /\ nextId \in 1 .. MaxId + 1
  /\ DOMAIN points \subseteq 1 .. nextId - 1
  /\ \A i \in DOMAIN points : points[i] \in Exprs
  /\ jvm \in {"serving", "exiting", "dead"}
  /\ closed \in BOOLEAN /\ clean \in BOOLEAN

Init ==
  /\ session = Nobody
  /\ call = [c \in Calls |-> Idle]
  /\ now = 0
  /\ sink = "none"
  /\ rec = NoRec
  /\ written = 0
  /\ table = <<>> /\ points = <<>> /\ nextId = 1
  /\ jvm = "serving" /\ closed = FALSE
  /\ clean = FALSE

-----------------------------------------------------------------------------
(* What the calls share. *)

\* The process is gone, and with it every thread and what they were doing.
Die ==
  /\ jvm' = "dead"
  /\ session' = Nobody /\ call' = [c \in Calls |-> Idle]
  /\ now' = 0 /\ sink' = "none" /\ rec' = NoRec /\ written' = 0 /\ clean' = FALSE
  /\ closed' = FALSE
  /\ UNCHANGED debugger

\* A tool is called, and its lambda is given to EmulatorSession.read; after
\* close the methods of the core throw.
MayRead(c) == call[c].at = "idle" /\ session = Nobody /\ ~closed

\* The call is over, by its answer or by an exception.
Leave(c) ==
  /\ session' = Nobody
  /\ call' = [call EXCEPT ![c] = Idle]

\* MachineTools.breakpointPosition on the listing of Hatari; 0 is empty.
Position(e) == SelectInSeq(table, LAMBDA bp : bp.expr = e)

\* VideoRecorder.chunk, with p frames pending, for a run of n frames.
Smallest(m, n) == IF m <= n THEN m ELSE n

\* Mutant of Chunk: the frames since the last image are forgotten.
Chunk_Whole(n, p) == Smallest(n, rec.every)
Chunk(n, p) == Smallest(n, rec.every - p)

-----------------------------------------------------------------------------
(* Tools that run the machine. *)

\* run_frames, run_to_breakpoint, reset, boot_disk, press_key..., and with an
\* expression e run_until_pc, which first sets a breakpoint that deletes itself.
StartRun(c, n, e) ==
  /\ MayRead(c)
  /\ now + n <= MaxClock
  /\ e # NoExpr => Len(table) < MaxTable
  /\ session' = c
  /\ table' = IF e = NoExpr THEN table
              ELSE Append(table, [expr |-> e, once |-> TRUE])
  /\ call' = [call EXCEPT ![c] =
       [Idle EXCEPT !.at = "run", !.left = n, !.until = e,
                    !.capturing = (sink # "none"),
                    !.chunk = IF sink # "none" THEN Chunk(n, rec.pending) ELSE n]]
  /\ UNCHANGED <<now, recorder, points, nextId, main>>

\* Inside hatari_run: a frame is left to emulate; the debugger may stop it, also
\* after the instruction that ended the last frame; it returns (RunControl).
InRun(c) == call[c].at = "run" /\ call[c].chunk > 0 /\ call[c].hit = "no"
Stoppable(c) == call[c].at = "run" /\ call[c].hit = "no" /\ call[c].chunk + call[c].done > 0
RunOver(c) == call[c].at = "run" /\ (call[c].chunk = 0 \/ call[c].hit # "no")

\* Mutant of Writes: the file of samples is opened when the capture is armed.
Writes_FromArming == sink # "none"
\* FfmpegSink.audio writes from the first image on.
Writes == sink \in {"filming", "failed"}

\* One frame, with its batch of samples (VideoRecorder.audio).
EmulateFrame(c) ==
  /\ InRun(c)
  /\ now' = now + 1
  /\ written' = IF Writes THEN written + 1 ELSE written
  /\ call' = [call EXCEPT ![c].left = @ - 1, ![c].chunk = @ - 1, ![c].done = @ + 1]
  /\ UNCHANGED <<session, sink, rec, clean, debugger, main>>

\* FfmpegSink.audio throws (the disk is full) in an upcall: the JVM ends.
AudioFails(c) ==
  /\ InRun(c)
  /\ Writes
  /\ Die

\* The i-th of the positions S, and the table the breakpoints at S are left in
\* (BreakCond_DoDelayedActions).
Nth(S, i) == CHOOSE p \in S : Cardinality({q \in S : q <= p}) = i
Keep(S) == [i \in 1 .. Cardinality(S) |-> table[Nth(S, i)]]

\* BreakCond_MatchBreakPoints stops the run: the breakpoints on the
\* expressions m match, those among them that match once are deleted.
Hit(c, m) ==
  /\ Stoppable(c)
  /\ \E i \in DOMAIN table : table[i].expr \in m
  /\ table' = Keep({i \in DOMAIN table : ~(table[i].once /\ table[i].expr \in m)})
  /\ call' = [call EXCEPT ![c].hit = "breakpoint"]
  /\ UNCHANGED <<session, now, recorder, points, nextId, main>>

\* An exception or the end of the steps stops the run.
OtherStop(c) ==
  /\ Stoppable(c)
  /\ call' = [call EXCEPT ![c].hit = "other"]
  /\ UNCHANGED <<session, now, recorder, debugger, main>>

\* Fields after VideoRecorder.advanced with n > 0 frames, images accepted.
Images(n) ==
  [rec EXCEPT !.emulated = @ + n, !.cyclesLast = now,
              !.pending = (rec.pending + n) % rec.every,
              !.frames = @ + (rec.pending + n) \div rec.every]

\* The run is over and the tool makes its report; run_until_pc that was not
\* stopped by a breakpoint first takes its own away.
AfterRun(c) ==
  IF call[c].until # NoExpr /\ call[c].hit # "breakpoint"
  THEN /\ call' = [call EXCEPT ![c] = [Idle EXCEPT !.at = "cleanup", !.until = call[c].until]]
       /\ UNCHANGED session
  ELSE Leave(c)

\* VideoRecorder.advanced at the end of a step of CapturingMachine.run, and
\* the next step, if there is one.
Advanced(c) ==
  /\ RunOver(c)
  /\ call[c].capturing
  /\ rec' = IF call[c].done > 0 THEN Images(call[c].done) ELSE rec
  /\ sink' = IF rec'.frames > rec.frames /\ sink = "armed" THEN "filming" ELSE sink
  /\ sink \in {"failed", "broken"} => rec'.frames = rec.frames
  /\ IF call[c].left = 0 \/ call[c].hit # "no"
     THEN AfterRun(c)
     ELSE /\ call' = [call EXCEPT ![c].done = 0,
                                  ![c].chunk = Chunk(call[c].left, rec'.pending)]
          /\ UNCHANGED session
  /\ UNCHANGED <<now, written, clean, debugger, main>>

\* Where FfmpegSink.accept leaves the sink when it throws.  A launch of ffmpeg
\* that fails leaves no process, and the next image launches it again; one that
\* succeeds before the file of the samples cannot be opened leaves neither the
\* file nor the stream to ffmpeg.
AfterFailure ==
  CASE sink = "armed"   -> {"armed", "failed", "broken"}
    [] sink = "filming" -> {"failed"}
    [] OTHER            -> {sink}

\* Mutant of EncoderFails: the frames are subtracted after sink.accept, so the
\* next run would ask for no frame, for ever.
EncoderFails_KeepsPending(c) ==
  /\ RunOver(c)
  /\ call[c].capturing
  /\ call[c].done > 0 /\ rec.pending + call[c].done >= rec.every
  /\ rec' = [rec EXCEPT !.emulated = @ + call[c].done, !.cyclesLast = now,
                        !.pending = @ + call[c].done]
  /\ sink' \in AfterFailure
  /\ Leave(c)
  /\ UNCHANGED <<now, written, clean, debugger, main>>

\* VideoRecorder.advanced when sink.accept throws: out of the run, the frames
\* counted but not the image.
EncoderFails(c) ==
  /\ RunOver(c)
  /\ call[c].capturing
  /\ call[c].done > 0 /\ rec.pending + call[c].done >= rec.every
  /\ rec' = [rec EXCEPT !.emulated = @ + call[c].done, !.cyclesLast = now,
                        !.pending = @ + call[c].done - rec.every]
  /\ sink' \in AfterFailure
  /\ Leave(c)
  /\ UNCHANGED <<now, written, clean, debugger, main>>

\* CapturingMachine.run without a capture
RunEnds(c) ==
  /\ RunOver(c)
  /\ ~call[c].capturing
  /\ AfterRun(c)
  /\ UNCHANGED <<now, recorder, debugger, main>>

\* run_until_pc reads the listing.
Cleanup(c) ==
  /\ call[c].at = "cleanup"
  /\ IF Position(call[c].until) > 0
     THEN /\ call' = [call EXCEPT ![c].at = "remove", ![c].pos = Position(call[c].until)]
          /\ UNCHANGED session
     ELSE Leave(c)
  /\ UNCHANGED <<now, recorder, debugger, main>>

-----------------------------------------------------------------------------
(* Tools for breakpoints. *)

\* DebugTools.add: set_breakpoint and set_watchpoint
SetBreakpoint(c, e) ==
  /\ MayRead(c)
  /\ nextId <= MaxId /\ Len(table) < MaxTable
  /\ table' = Append(table, [expr |-> e, once |-> FALSE])
  /\ points' = [i \in DOMAIN points \cup {nextId} |-> IF i = nextId THEN e ELSE points[i]]
  /\ nextId' = nextId + 1
  /\ UNCHANGED <<session, call, now, recorder, main>>

Without(id) == [i \in DOMAIN points \ {id} |-> points[i]]

\* Mutant of ClearBreakpoint: two calls of EmulatorSession.read.
ClearBreakpoint_TwoReads(c, id) ==
  /\ MayRead(c)
  /\ id \in DOMAIN points /\ Position(points[id]) > 0
  /\ call' = [call EXCEPT ![c] = [Idle EXCEPT !.at = "remove", !.id = id,
                                              !.pos = Position(points[id])]]
  /\ UNCHANGED <<session, now, recorder, debugger, main>>

\* DebugTools.removeOne, called by clear: it reads the listing; a breakpoint
\* that is no longer there is only forgotten.
ClearBreakpoint(c, id) ==
  /\ MayRead(c)
  /\ id \in DOMAIN points
  /\ IF Position(points[id]) = 0
     THEN points' = Without(id) /\ UNCHANGED <<session, call>>
     ELSE /\ call' = [call EXCEPT ![c] = [Idle EXCEPT !.at = "remove", !.id = id,
                                                      !.pos = Position(points[id])]]
          /\ session' = c
          /\ UNCHANGED points
  /\ UNCHANGED <<now, recorder, table, nextId, main>>

\* "b <pos>" (BreakCond_Remove, which refuses a position that is not there),
\* sent by removeOne and by run_until_pc.
RemovePosition(c) ==
  /\ call[c].at = "remove"
  /\ table' = IF call[c].pos <= Len(table) THEN RemoveAt(table, call[c].pos) ELSE table
  /\ points' = Without(call[c].id)
  /\ Leave(c)
  /\ UNCHANGED <<now, recorder, nextId, main>>

\* debug_command with "b <position>"
DebugCommand(c) ==
  /\ MayRead(c)
  /\ \E i \in DOMAIN table : table' = RemoveAt(table, i)
  /\ UNCHANGED <<session, call, now, recorder, points, nextId, main>>

-----------------------------------------------------------------------------
(* Tools for the capture. *)

\* arm_video_capture, up to its first look at the recorder
ArmChecks(c, e) ==
  /\ call[c].at = "idle"
  /\ sink = "none"
  /\ call' = [call EXCEPT ![c] = [Idle EXCEPT !.at = "checked", !.every = e]]
  /\ UNCHANGED <<session, now, recorder, debugger, main>>

\* It reads the cycles under the monitor of the session.
ArmReads(c) ==
  /\ call[c].at = "checked"
  /\ session = Nobody
  /\ call' = [call EXCEPT ![c] = IF closed THEN Idle
                                 ELSE [@ EXCEPT !.at = "read", !.cycles = now]]
  /\ UNCHANGED <<session, now, recorder, debugger, main>>

\* Mutant of Armed: the frames of the last capture are not reset.
Armed_KeepsEmulated(c) ==
  [every |-> call[c].every, pending |-> 0,
   emulated |-> rec.emulated, frames |-> 0, cycles0 |-> call[c].cycles,
   cyclesLast |-> call[c].cycles]
\* The fields VideoRecorder.arm sets.
Armed(c) ==
  [every |-> call[c].every, pending |-> 0, emulated |-> 0,
   frames |-> 0, cycles0 |-> call[c].cycles, cyclesLast |-> call[c].cycles]

\* VideoRecorder.arm, without the monitor of the session
Arm(c) ==
  /\ call[c].at = "read"
  /\ call' = [call EXCEPT ![c] = Idle]
  /\ IF sink # "none" THEN UNCHANGED recorder
     ELSE /\ sink' = "armed"
          /\ rec' = Armed(c)
          /\ written' = 0
          /\ clean' = (call[c].cycles = now /\ \A d \in Calls : call[d].at # "run")
  /\ UNCHANGED <<session, now, debugger, main>>

\* stop_video_capture: VideoRecorder.stop forgets the sink even when its
\* close throws.
StopCapture(c) ==
  /\ MayRead(c)
  /\ sink # "none"
  /\ sink' = "none"
  /\ UNCHANGED <<session, call, now, rec, written, clean, debugger, main>>

-----------------------------------------------------------------------------
(* The end of the server (StdioMcpMain). *)

\* EofSignalingInputStream sees the end of the standard input; main grants the
\* answers in flight a delay, starts the watchdog and calls System.exit.
Eof ==
  /\ jvm = "serving"
  /\ jvm' = "exiting"
  /\ UNCHANGED <<session, call, now, recorder, debugger, closed>>

\* Mutant of CloseHook: HatariCore.close without the monitor of the session.
CloseHook_NoLock ==
  /\ jvm = "exiting" /\ ~closed
  /\ closed' = TRUE
  /\ UNCHANGED <<session, call, now, recorder, debugger, jvm>>

\* The hook EmulatorSession.close
CloseHook ==
  /\ jvm = "exiting" /\ ~closed
  /\ session = Nobody
  /\ closed' = TRUE
  /\ UNCHANGED <<session, call, now, recorder, debugger, jvm>>

\* The hooks have ended; server.closeGracefully may never do.
Exit ==
  /\ jvm = "exiting" /\ closed
  /\ Die

\* Mutant of Watchdog: it waits for the core to be closed.
Watchdog_AfterClose ==
  /\ jvm = "exiting" /\ closed
  /\ Die

\* The watchdog's delay is over: Runtime.halt.
Watchdog ==
  /\ jvm = "exiting"
  /\ Die

-----------------------------------------------------------------------------
Tool(c) ==
  \/ \E n \in Lengths, e \in Exprs \cup {NoExpr} : StartRun(c, n, e)
  \/ EmulateFrame(c) \/ AudioFails(c)
  \/ \E m \in SUBSET Exprs : Hit(c, m)
  \/ OtherStop(c)
  \/ Advanced(c) \/ EncoderFails(c) \/ RunEnds(c) \/ Cleanup(c)
  \/ \E e \in Exprs : SetBreakpoint(c, e)
  \/ \E id \in 1 .. MaxId : ClearBreakpoint(c, id)
  \/ RemovePosition(c)
  \/ DebugCommand(c)
  \/ \E e \in Every : ArmChecks(c, e)
  \/ ArmReads(c) \/ Arm(c)
  \/ StopCapture(c)

Main == Eof \/ CloseHook \/ Exit \/ Watchdog

Next == jvm # "dead" /\ (Main \/ \E c \in Calls : Tool(c))

Spec == Init /\ [][Next]_vars

\* The watchdog sleeps for a bounded time; nothing is assumed of the calls, of the hooks and of the client.
Fairness == WF_vars(Watchdog)

FairSpec == Spec /\ Fairness

-----------------------------------------------------------------------------
(* Properties *)

\* No call is inside the core when the library is closed and its memory freed:
\* the hook waits for the run in progress.  (EmulatorSession.close)
NoUseAfterClose ==
  closed => \A c \in Calls : call[c].at \notin {"run", "cleanup", "remove"}

\* Sound and images stay together: the samples of a capture begin with its
\* first image, however late ffmpeg is launched, and from then on there is one
\* batch for each frame of the images and of the frames pending since the last
\* of them, whoever armed it and when, through runs that are cut short.
\* (VideoRecorder.advanced and audio, FfmpegSink.accept and audio)
SoundAligned ==
  sink = "filming" =>
    written = (rec.frames - 1) * rec.every + rec.pending
              + (IF session = Nobody THEN 0 ELSE call[session].done)

\* The duration the video is scaled to is that of the frames counted since the
\* capture was armed, also those whose image failed, if it was armed while no
\* run was in progress.  (VideoRecorder.advanced and realSeconds)
ScaleIsFilmed ==
  sink # "none" /\ clean => rec.cyclesLast - rec.cycles0 = rec.emulated

\* An image is taken every "every" frames exactly, whatever the lengths of the
\* runs and wherever the debugger cuts them.
\* (CapturingMachine.run, VideoRecorder.chunk and advanced)
ImagesOnTime ==
  [][rec'.frames > rec.frames =>
       rec'.emulated % rec'.every = 0 /\ rec'.frames = rec.frames + 1]_vars

\* The position a tool read in the listing is still that of its breakpoint when
\* it removes it: an id never takes away the breakpoint of another expression.
\* (DebugTools.removeOne)
ClearsItsPoint ==
  [][\A c \in Calls : call[c].at = "remove" /\ call[c].id # 0 /\ Len(table') < Len(table) =>
       /\ call[c].id \in DOMAIN points
       /\ table[call[c].pos].expr = points[call[c].id]]_vars

\* Once its standard input has ended the server ends, even when a run never
\* does and the hooks wait for it.
ServerEnds == jvm = "exiting" ~> jvm = "dead"
=============================================================================
