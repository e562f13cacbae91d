# A verification development of Hatari

Hatari emulates the Atari ST, STE, TT and Falcon.  This repository is Hatari
2.6.1 with a libretro core and a debug API (`src/src/retro`) and a Java server
that drives the core over MCP (`src/hatari-mcp`).  The modules here model the
parts where the order of things decides: the queue of internal timers, the
interrupt controller and its way to the CPU, the loops that run, stop and reset
the emulation for a host, the server around them, the serial lines of the
keyboard and the floppy controller.  TLC checks them on small instances, TLAPS
proves their safety properties and the three refinements for every value of the
constants.

## Inventory

| Part | State it keeps | Operations and callers | What is hard | What makes it correct |
|---|---|---|---|---|
| Internal timers, `cycInt.c` | table of handlers, doubly linked list sorted by date, head cached | devices add, remove, postpone, restart; the CPU loop calls what is due | changes from inside handlers, ties, nested run from the blitter, two clocks within an instruction | list sound, order of dates, no drift, nothing left due |
| MFP 68901, `mfp.c`, with `m68000.c`, the masks of `scu_vme.c` and the interrupt part of `cpu/newcpu.c` | enable, pending, in-service, mask, vector; IRQ, its time and delay; special flags and levels of the CPU | inputs by timers and lines, register writes, acknowledge cycle | the request changes between decision and acknowledge; flags shared by two MFPs; events earlier than the write that sees them | IRQ only for a request, no change lost, acknowledge answers a request |
| libretro core and debug API, `retro/`, `reset.c`, `debug/debugcpu.c` | `quit_program`, special flags, steps, breakpoints, stop reason | `hatari_run`, `hatari_reset`, `hatari_step`, debugger commands; the program's own resets and stops | one flag with four writers, two loops, caches of what is watched | resets performed, stops end the run, frames bounded, debugger on, `hatari_run` returns |
| MCP server, `hatari-mcp` | session lock, recorder lock, table of breakpoints | tools called by the transport's threads | capture armed outside the lock, ids that shift, encoder failing, shutdown | sound and images start together, ids name the same breakpoint, the server ends |
| ACIA, IKBD, MIDI | SR/CR, shift states, ring of bytes, mouse and joystick modes | bit clocks, register reads and writes, host keys | overrun, packets and a full ring, reset in the middle | a packet is whole or absent, IRQ follows SR |
| FDC, floppies | command automaton, DMA, drives, disk changed flags | register writes, timer events, insert and eject | Force Interrupt at any state, change of disk in a command | busy, IRQ and the pending event agree |
| HDC, NCR5380, IDE | command phases, counters, images | register and DMA accesses | phase protocol, partial transfers | every command ends with a status |
| Blitter | registers, bus arbitration, remaining words | register writes, timer handler | shares cycles with CPU and timers | every word once |
| Sound, DMA sound, crossbar | rings of samples, FIFO, indices | emulation fills, audio thread empties | wrap and overrun between two threads | samples in order, none twice |
| GEMDOS drive | file handles, DTAs, current directories | GEMDOS calls of programs | ownership by programs, exhaustion, reset | an entry belongs to one open file |
| Video, VIDEL, screen | line positions, interrupts, palettes | register writes, HBL, VBL, Timer B | positions within a line | numeric, not modelled |
| DSP, CPU core | instruction set | | | simulators, not modelled |
| SCC, RS232, printer, RTC, memory map, debugger conditions, configuration, snapshot, frontends, recording | | | | see `PROJECT.json` |

The parts meet in one emulation thread.  An instruction runs; its writes reach
devices, which change MFP registers and arm timers; at its end `CycInt_Process`
calls the handlers that are due, these raise inputs of the MFP, `MFP_UpdateIRQ`
computes the IRQ, `do_specialties` takes the level to the CPU and asks the
debugger; the VBL handler ends the frame and with it `m68k_run`.  Other threads
are the SDL audio callback (not in the libretro core) and those of the Java
server, which hold a lock when they call the core.

## Modules

| Module | What it is |
|---|---|
| `TimerQueue` | what the timers promise: the abstract specification of CycInt |
| `CycInt` | `cycInt.c`, its loop and what handlers do before they acknowledge |
| `MC_CycInt` | small instances of CycInt |
| `CycIntProofs`, `CycIntRefinement` | invariants of CycInt; CycInt implements TimerQueue |
| `MFP` | the interrupt controllers and their way to the CPU |
| `MC_MFP`, `MFPProofs` | small instances and proofs |
| `RunControl` | what `hatari_run` promises to its callers: the abstract specification of RetroCore |
| `RetroCore` | the loops and flags of the libretro core, run as it is |
| `RetroCoreProofs` | proofs about RetroCore, which implements RunControl |
| `McpServer`, `McpServerProofs` | calls of tools, capture, breakpoints and end of the Java server |
| `ByteLink` | a link that carries bytes one at a time: the abstract specification of the keyboard's line |
| `SerialLines`, `SerialLinesProofs` | the two ACIA, the keyboard's transmitter and ring, GPIP 4 |
| `SerialLinesRefinement` | SerialLines implements ByteLink |
| `Fdc`, `FdcProofs` | the floppy controller and the interrupt line it shares with the hard disks |

The modules meet at the seams of the code.  `CycInt` calls handlers and knows
nothing of devices: in `Fdc` and `SerialLines` a timer that is due is an action.
What ends in `MFP_InputOnChannel` or in a level of GPIP is `Input` of `MFP`.
`McpServer` calls the loops of `RetroCore`, of which it needs what `RunControl`
says and no more: inside a call frames pass, no more than were asked for, the
debugger may stop it after any instruction, also the one that ends the last
frame, and then the call returns.  `EmulateFrame`, `Hit` and `OtherStop`, and
`RunOver` are the `Frame`, `Stop` and `Return` of that contract as the server sees
them; that the core keeps the contract is `ControlImplemented`.

Definitions keep the names of the source.  A definition whose name ends in an
underscore and a word (`Vbl_NoQuit`) is a mutant of the one before the
underscore: the definition with a plausible bug, which violates the property it
is listed with in `PROJECT.json`.

### CycInt

The table is four functions over the handlers; the list is the pair of links
and `ActiveInt`.  The unit of dates is `Scale` to a CPU cycle (256 in the
source, 2 in the runs, enough for a date to fall between two cycles), handler 0
is the sentinel with the date `Never` (UINT64_MAX).  Handlers in the runs are 1,
the VBL, the only one that is postponed, 2, the blitter, whose handler runs
`CycInt_Process` again on a CPU that is not cycle exact, and 3, a timer of the
MFP, which restarts itself relative to its last date; in the cycle exact run 4,
the timer that polls the host, takes the place of the blitter.

The walk of `CycInt_InsertInt` is a step per iteration (`WalkStep`), so that its
assertion is checked where it stands.  `phase` says where the thread is: in an
instruction, in the loop, in a handler before and after its acknowledge.
`UpdateTimers` is the run of the loop in the middle of an instruction that a
cycle exact CPU makes before it accesses an MFP.  `Reset` comes from the CPU
loop or from the VBL handler, as a keyboard shortcut does.

`CycInt_AcknowledgeInterrupt` names no handler: it removes the head of the list.
Two handlers come to it after other code.  The one of the VBL looks whether it is
still the head (`Acknowledges`, `video.c:4973`); `IKBD_InterruptHandler_AutoSend` does
not, and polls the host first, which may carry out a reset (`Command`: an empty
list, in which another timer is then armed).  What it acknowledges is then that
timer.  The constant `Commands` says whether the poll carries commands out, as it
does with SDL; in the libretro core it only returns.  All other handlers
acknowledge before they change the list.  Today nothing precedes the look of the
VBL handler that could change it: the shortcuts of its first lines run after it
(`video.c:5007`).  `ModifyInterrupt` is called by writes to the registers of the
shifter (`video.c:2889`) on a line where the VBL is armed; like the source it asks
for nothing, and would arm a handler that is not active at its old date.

`over` is a history: which handlers were active when one was armed.  It states
the order of ties (the last one armed comes first) in TimerQueue, which knows
nothing of links.  `CycInt_AddAbsoluteInterrupt` has no caller and is left out.

### MFP

A channel is a number and its priority, a pair of registers the set of channels
whose bit is set.  `MFP_STRUCT` is the record of the source without the timer
counters, the USART and the edge logic of the port: whatever raises an input
arrives as `Input`, a call of `MFP_InputOnChannel` with its delay.  The daisy
chain of a TT is the set `MFPs`.  The phases split what happens between two
instructions at the places where something can change the outcome: the timers
that expire before an access, the events at the end, the flag `SPCFLAG_MFP`,
the decision, the timers that expire within the acknowledge cycle
(`ElapseException`), the rest of the exception.

A write passes the time of the access to `MFP_UpdateIRQ`, the main loop passes
0.  `Hbl`, level 2, stands for the interrupts of other devices.  `SPCFLAG_INT`
only saves work in the source and is a free choice in `NextInstruction`.
`regs.ipl_pin` is followed for an
`Accurate` CPU only, the one that reads it.  `SPCFLAG_STOP` is never set, so `CycInt_Process_stop` is `CycInt_Process`.
`Reset` is the RESET instruction.  `MFP_ProcessIRQ`, `MFP_ProcessIRQ_All` and
`MFP_Exception` have no caller.  The DSP's share of level 6 and the snapshot are
left out.

On a Mega STE and a TT (`SCU_IsEnabled`) `M68000_SetIRQ` and `M68000_ClearIRQ` set a
level in the SCU, which lets it through if its mask does: `Requested` is what is
set, `Forward` what `SCU_UpdatePendingInts_CPU` makes of it.  The masks are empty
after a reset, and a program opens and closes them with `AccessIntMask`, which also
forgets the requests of that register.  Level 2 is masked by `SysIntMask`, level 6
by `VmeIntMask`; the other levels of the SCU are those of devices that are not
modelled.

### RetroCore

Who writes `quit_program`, who clears `SPCFLAG_BRK`, and in what order: the
host's calls in phase `host`, the condition of the loop of `hatari_run` in
`loop`, the top of `m68k_go` in `go`, then an instruction (`insn`), the events at
its end (`events`), `do_specialties` before and after the debugger (`special`,
`brk`).  `m68k_run` entered from `retro_run` and from `m68k_go` differ by
`in_m68k_go`.

Breakpoints are a number, and whether one matches is free; a breakpoint that
matches only once is deleted within the check.  `m68k_go` is always entered with
`hardboot` set, so the kind of a reset does not matter to it and is left out.
`ProgramStops` is NF_DEBUGGER or an exception the debugger watches.  The other
reasons for `M68000_DebuggerFlag` (profiling, history, tracing), a halted CPU,
stops of the DSP and frontends without a stop hook are left out.
`Main_RequestQuit` does nothing in the libretro core.

RunControl has none of these flags: a call, the frames it wants and has, the
reason it was stopped for, a reset that was asked for, and whether an instruction
is in progress.  `HatariRun` is its `Call`, `EndRun` its `Return`, the program's
actions its `Execute`, `Vbl` its `Frame`, the two checks its `Stop`, and what ends an
instruction its `Finish`; the passages between the two loops are no steps of it.

`asked` and `due` are histories: who waits for the CPU to be reset, and how many
instructions are left of the steps the host asked for.

### McpServer

Several calls of tools are answered at a time.  What a tool does inside one
`EmulatorSession.read` is a step if it calls the core once, and otherwise a
sequence of steps with `session` held.  `arm_video_capture` uses the recorder
outside the session, so its three steps (`ArmChecks`, `ArmReads`, `Arm`) mix with
everything.  Frames are the unit of time: a frame brings one batch of samples
(`written` counts those in the file) and advances the cycle counter by one.
`rec` is the fields of `VideoRecorder`, `sink` the state of its encoder, which may
fail at an image (`EncoderFails`) or in the middle of a run (`AudioFails`: an
exception out of an upcall ends the JVM).  Where a failure leaves the encoder is
`AfterFailure`: a launch of ffmpeg that fails leaves the capture `armed`, without a
process, and the next image launches it again; ffmpeg that ends leaves it `failed`,
still taking samples; one that is launched when the file of samples cannot be
opened leaves it `broken`, taking neither.  `table` is the list of `breakcond.c`,
positions and all, `points` what `DebugTools` believes of it.  The end of the
standard input, the hooks and the watchdog are `Main`.

### SerialLines

A byte of the keyboard goes bit by bit: `ClockSci` is the transmitter
(`IKBD_SCI_Set_Line_TX`), `ClockRx` the receiver of the ACIA, both moved by
`Tick`, the common timer.  Bytes are distinguished by their place in a packet,
so that `PacketsWhole` can say which bytes belong together.  In front of the
transmitter is the ring with its reset, pause and delay; commands appear by what
they send (`Cmd_Return`), pause or reset.  MIDI has whole bytes and its own
interrupt; both interrupts meet in `GpipOf`, one bit of the MFP.  `Init` is what
`ACIA_Init` leaves, a cleared structure: the line of the keyboard's ACIA low and TDRE
clear until the program's first master reset (`first`).  Answers to commands start
a delay before the next byte (`Cmd_Return`), and so does the report of the absolute
mouse that `AutoSend` makes of a button.  `stale`, `cut`
and `lost` are histories: resets set GPIP and the two ends of the line apart, and
a program that reads too late loses bytes.

ByteLink knows neither bits nor registers: a byte is on the link or none is; what
is taken in arrives, or is counted as lost when the one before it was not read,
before the next is taken in.  While a reset has cut a byte (`cut`) it allows what
a receiver out of step may read.

### Fdc

One record is the controller, with the timer event and the head of the drive.
`step` names the `FDCEMU_RUN_...` constant of the source, shared between commands
where the source has the same step for each; `TypeIStep` and `TypeIIStep` are the
functions `FDC_Update...Cmd`, and `Update` is one turn of the loop of
`FDC_InterruptHandler_Update`: the timer is `pending`, or `handler` as long as the
delay is 0 and the loop goes on, when nothing else can happen.  Index pulses have two sources, told apart by
`mode` (`IndexPulse_Mode`): a timer, which `UpdateAtIndex` lets pass before a turn of
the loop, or the bits of an MFM stream, where a pulse passes only when the stream
is read (`Streamed`).  `disk` is an image of sectors or a stream (`"sectors"`,
`"stream"`); a command that reads sets the mode when it loads its track (`Loaded`,
`NotLoaded`).  What a disk
answers (an ID field found or not, a wrong CRC, write protection) is a free
choice.  `ForceInterrupt`, register writes, the deselection of the drive, disks that
come and go, the interrupts of the hard disks and the resets happen between any
two events.  A warm reset stops the timers but not the controller: `warm` tells.

## Runs

| Run | Configuration | What it shows |
|---|---|---|
| `cycint_list` | `MC_CycInt_list.cfg` | the list is sound, the assertion holds, the timers implement TimerQueue (three handlers, one operation per instruction or handler); a handler that is due is called unless it is cancelled or postponed |
| `cycint_ce` | `MC_CycInt_ce.cfg` | the list stays sound when a reset of the user comes before an acknowledge, no handler is left due, restarted timers do not drift (cycle exact, two operations per instruction or handler) |
| `mfp_ce` | `MC_MFP_ce.cfg` | one MFP, two channels, cycle exact: inputs await an update, a write leaves the IRQ exact, an acknowledge answers a request |
| `mfp_tt` | `MC_MFP_tt.cfg` | two MFPs with one channel each: the IRQ has a request, no change is lost on the way through the SCU to the CPU |
| `retro` | `RetroCore.cfg` | resets, stops, frames, steps and breakpoints in any order: the core implements RunControl, `hatari_run` returns |
| `mcp` | `McpServer.cfg` | two calls at a time: no call inside a closed core, sound and images together also after launches of ffmpeg that fail, images on time, the scale of the film, an id clears its own breakpoint, the server ends |
| `serial` | `SerialLines.cfg` | bytes arrive as sent, none is lost in silence, no packet is cut, the line implements ByteLink, both causes reach GPIP 4, the keyboard goes on sending although delays start again |
| `fdc` | `Fdc.cfg` | busy, command and event agree, the shared line has a source, a forced interrupt stays, commands interrupt and, on disks of sectors, end |
| `mfp_ipl`, `mfp_hidden`, `retro_reset`, `retro_steps` | | the findings below: each shows one statement of the source violated |

Bounds.  The list needs three active handlers for an insertion in the middle,
one handler acting inside another and a tie between two.  Two channels make one
outrank the other, with one in service and one pending; one clock cycle and a
delay of one make an event fall on either side of a write and of
`MFP_IRQ_DELAY_TO_CPU`.  Two frames are the least for one that is not the last,
two steps for one that is not the last, two breakpoints for one that is left when
the other deletes itself.  In `mfp_tt` the program changes the mask of level 6; that of level 2
cannot change the property, and a larger instance with both, run by hand with
instructions of no cycles, passes too.  In `mcp` an image every two frames and runs
of three leave frames pending over the end of a run and cut a run in steps; five
frames are enough for a launch that fails, another image and samples after it; a
second breakpoint in the table lets a position shift.  In `serial` the ring holds
three bytes: an answer finds room while a key waits and starts the delay again, and
a packet may find room for half of itself; two bits tell a byte from its
neighbour; the program enables both interrupts or has not set the ACIA up.  In `fdc` a head with two positions reaches
both of its stops, one track register more than the head can follow it, one
sector with a number out of reach ends a multiple transfer; counters of
pulses stop at one, which is enough for an event on either side of the last.
The clocks stop at `MaxClock`.  TLC looks for deadlock in every run but `mcp`,
whose server is meant to end.

Fairness.  One thread runs the emulation and has no other way to go: weak
fairness of its steps (`Fairness` in CycInt, `Core` in RetroCore).  In RetroCore
the VBL has strong fairness: the clock of the emulation advances with every
instruction, so if instructions go on a frame ends.  A program that resets the
machine for ever, and with it the timers, is excluded by that; the host and the
program are under no fairness at all.  In McpServer only the watchdog is fair, a
thread that sleeps for a bounded time: runs, hooks and clients may hang.  In
SerialLines the tick is, a timer that restarts itself and is called when it is
due.  In Fdc the pending event is, with and without an index pulse of the timer: a disk
of sectors turns.  Nothing is assumed of the pulses of a bit stream, since the
source may read none of it (below).  `CommandsEnd` and `KeepsSending` say what else
they need: a disk of sectors that goes on turning in the selected drive and a
program that lets the command run; a program that does not pause the keyboard.

## Findings

* `mfp_ipl` (`src/src/m68000.c:752`).  When the last pending level is withdrawn
  `regs.ipl_pin` is not updated, and a 68000 in cycle exact mode takes an exception
  of level 6 nobody requests.  `MFP_ProcessIACK` then acknowledges an interrupt
  that is not there.  The next HBL usually corrects the pin first.
* `mfp_hidden` (`src/src/mfp.c:998`).  The filter that puts the pending events of one
  update in order hides channels that can be serviced, against the comments of the
  two functions; they wait for the next event of the MFP or write to it.
* `retro_reset` (`src/src/retro/main_retro.c:141`).  A reset by the program or by a
  debugger command, not by `hatari_reset`, loses `quit_program` and the program goes
  on at its old PC on hardware that was reset.
* `retro_steps` (`src/src/debug/debugcpu.c:1413`).  Steps survive a stop by a
  breakpoint, and a later `hatari_run` stops for them.

Met while modelling and not made into runs: `MFP_UpdateNeeded` is one flag for the
two MFPs of a TT, so `InputsAwaitUpdate` fails there (`mfp.c:982`); an IRQ that drops
and rises again keeps the delay of its first pulse (`mfp.c:783`); the end of a frame
overwrites a reset by a shortcut that `video.c:5060` takes care of.

In the timers: the handler that polls the host acknowledges after the poll
(`ikbd.c:1793`) without the look the VBL handler takes (`video.c:4973`), so that after
a cold reset from the control socket or a shortcut it takes another timer off the
list, the case the comment at `video.c:4969` describes.  `ListSound`, `NoneLeftDue`
and `NoDrift` survive it; `TimersFireInOrder` is checked without such commands, as in the
libretro core.

In the server: a capture may be armed while a run is in progress, whose frames
are then in the duration the film is scaled to and not in the film
(`VideoTools.java:95`; `ScaleIsFilmed` is about captures armed outside a run);
after a launch of ffmpeg that failed and was tried again, the film has fewer images
than the time since arming, to which it is stretched all the same
(`VideoRecorder.java:106`);
`run_until_pc` calls any breakpoint the one it waited for and leaves its own
behind (`MachineTools.java:140`), and what it removes is the first entry with the
same expression (145); a failed `stop` returns the report of the capture before
(`VideoRecorder.java:111`).

In the serial lines: between `ACIA_Init` and the first master reset the line of the
keyboard's ACIA is low for no cause (`acia.c:281`), which a program that reads GPIP
before would see; joystick monitoring sends two bytes without a look at the
room left (`ikbd.c:1491`, against the comment at 942); `MFP_Reset` clears GPIP
(`mfp.c:523`) and `Midi_Reset` raises its line without computing GPIP 4 again
(`midi.c:114`), so that the next fall is no edge (`stale`); MIDI replaces a byte that
was not read without an overrun (`midi.c:318`); a comment in `ACIA_Read_RDR` says
the interrupt depends on OVRN, `ACIA_UpdateIRQ` does not look at it; the delay of an
answer delays all that is in the ring (`ikbd.c:838`), and starts again with the next.

In the floppy controller: an interrupt of the hard disks replaces a forced one
(`fdc.c:2262`), although the comment at 2276 names the only ways to clear it, and
the read of a register of the NCR 5380 clears the floppy's own (`ncr5380.c:896`);
a warm reset leaves a busy controller without an event (`reset.c:75`); a drive that
is deselected in a command makes `FDC_DRIVES[-1]` an operand (`fdc.c:2704`).  With a bit
stream in the drive, `FDC_IndexPulse_CheckUpdate` returns at once (`fdc.c:2047`) and
`FDC_NextSectorID_FdcCycles_MFM` reads nothing of a side, a track or a density that
is not there (6968-6975): no pulse is counted and the search never ends, although
the comment at 3189 says that it is aborted after 5 revolutions.  The mode of the
drive also stays that of the stream when the drive is not selected at the moment
it should be set back, and a spin-up may then wait for pulses nobody reads.
`FDC_Skip_FdcCycles_MFM` skips nothing, since its loop compares the wrong way round
(6942).

## Proofs

All theorems are about `Spec`, from `ConstantsAssumption` of their module, which
every run evaluates; some need an assumption on the constants, named here.

* `CycIntProofs`.  The inductive invariant is the conjunction of the types, the
  meaning of `over`, the place of the walk (everything before the cursor is
  earlier), the phase (in `called`, the handler that runs is the head, unless it is
  the one that polls the host and commands are carried out) and the soundness of
  the list.  The links are not a sequence, so three lemmas carry the
  list: removing the head, removing in the middle, inserting before a handler.
  From it `TypeOK`, `ListSound`, `WalkAssertion` and `NoneLeftDue`.  The walk must be part of the invariant because between two of its
  iterations a handler is active and not linked.  `NoDrift` needs a second
  invariant, `LateInv`: the loop compares with the date the emulation has reached,
  and a handler that has changed nothing yet finds in `PendingInterruptCount` how
  late it is called; the nested loop of the blitter comes between neither.
* `CycIntRefinement`.  Initial states and steps of CycInt map to those of
  TimerQueue; the invariant supplies that the head is the first handler in the
  order of TimerQueue.  Assumed: `~Commands`; with them a handler that is not the
  head may be called and another acknowledged, which TimerQueue does not allow.
* `MFPProofs`.  The functions of `mfp.c` are reasoned about on one record, apart
  from the state: each keeps `Sound`, that only enabled channels are pending and
  that the current interrupt can be serviced while the IRQ is driven.  The
  invariant adds the way of the IRQ to the CPU, with or without an SCU and for
  any change of its masks, and what the phases between decision and acknowledge
  may rely on.  From it `IRQHasRequest`,
  `IRQReachesCPU`, `AcknowledgesRequest` (for a CPU that takes the level from the
  pending interrupts, `~Accurate`: the other kind is `mfp_ipl`),
  `InputsAwaitUpdate` (one MFP: with two it fails) and `WriteIsExact` (one MFP,
  cycle exact).
* `RetroCoreProofs`.  Each promise is carried by flags from phase to phase:
  `ResetInv` says which flags hold a reset of the host, `StopInv` which hold a stop,
  `FramesInv` which hold the end of the last frame, `WatchInv` that the copies of
  what is watched agree.  They are inductive one by one over the types, and give
  `HostResetsCpu`, `StopEndsRun`, `FramesBounded` and `BreakpointsWatched`.  The
  same invariants are what the refinement needs (`ControlImplemented`): where an
  instruction begins they say that frames are wanted, that nothing has stopped the
  run and that no reset of the host waits, which is the guard of `Execute`, and
  where the loop of `hatari_run` ends they make the call's `Return` possible.
  `TypeOK` is proved and is not a property of a run.  Two theorems are about what the
  findings refute: `ResetsCpu` holds if resets other than the host's keep clear of
  the three cases `ResetKept` names (`OtherResetInv` says which flags then hold
  them), and `StepsExact` if no breakpoint stops the run with steps left
  (`StepsAlone`; what is left to count is then what is left to run).  The
  hypotheses are those the findings call the cause, so nothing else is wrong there.
* `SerialLinesProofs`.  For bytes of any width and packets and rings of any
  length.  `TypeInv` is the types and what the two shift registers hold in each
  of their states, `IrqInv` that interrupts and lines agree with their causes (but
  for the line `ACIA_Init` leaves low until the first master reset),
  `Told` that a loss is still in the ACIA.  `Together` is the heart: unless a
  reset has cut a byte, the bits the ACIA has received followed by those the
  keyboard has still to send are the byte that was loaded; a tick takes one from
  the one side to the other, and the byte is announced when nothing is left.
  `PacketsWhole` rests on `Whole`, that the ring holds after every first byte the
  rest of its packet, kept by appending a packet and by taking the first byte
  away.
* `SerialLinesRefinement`.  Two shift registers, one tick for both, and a link that
  has one byte: a byte is on the link from the tick that loads it to the tick that
  announces it (`BusyIsFlight`), which by `Together` finds the same bits.  A tick is
  judged at each end (`SenderTick`, `ReceiverTick`): at most one of them is a step of
  ByteLink, the other changes nothing it can see.  A packet or a command leaves
  what is in the ring where it is (the `Extends` lemmas).  After a cut the two ends
  are out of step, and ByteLink leaves open what arrives.
* `FdcProofs`.  For any number of tracks and any lengths of delays, disks and
  transfers.  The invariant is `Fine`: types, which steps belong to which command
  (`StepFits`), that a command has an event while it runs (`Alive`) and that the
  line follows its sources (`LineFits`).  A lemma for each step of each command
  shows that it either goes on with the command and its event, or completes it
  with an interrupt, or stops the motor (`Good`); the loop, the program, the hard
  disks and the resets are reasoned about from these three only.
* `McpServerProofs`.  For any number of calls, lengths of runs and distances of
  images.  Every step is of one call, so the invariant says first that whoever
  is inside the core holds the session (`HoldOk`); a step inside is then judged by
  what it does to its call, the recorder and the clock (`Inside`, `InsideStep`).
  `RunOk` is what makes the counts come out: a run that captures never runs past
  the next image, so `(pending + frames) / every` is 0 or 1 (`CountFrames`), and a
  run that began before the capture was armed is not counted.  `Recording` carries
  what the file of samples, the images and the clock have to do with each other,
  with the frames of the run in progress that are not counted yet; after a launch
  that failed it holds as before the first image, so that `SoundAligned` speaks of
  the image that was filmed first, whenever that was.  For `TypeOK`
  the list of breakpoints is what is hard: a stop takes those that match once out
  of its middle.  `Nth` counts positions instead of filtering a sequence, so that
  `NthFound` and `KeepSound` can say that each place of the new list is one of the
  old; `BoundsInv` bounds ids and positions.

Only model-checked: the liveness properties `DueIsCalled`, `RunReturns`,
`ServerEnds`, `KeepsSending` and `CommandsEnd`, since liveness under fairness is out
of the prover's reach.  `BlockedOnlyByService` (`mfp_hidden`) is false and has no
theorem; the properties of the other findings are theorems under the hypotheses
named above.  Every other property a run checks is a theorem.  No module that is proved about
has a recursive operator.

## Plan

In this order, with proofs after TLC agrees.

1. The DMA of the floppy controller: FIFO, sector count, both directions
   (`FDC_DMA_FIFO_Pull` and `Push` count sectors at different bytes).
2. `Gemdos`: handles and DTAs, their owners, end of programs, reset; abstract: a
   partial map from handles to files.
3. `HDC`: ACSI and SCSI phases.  4. `Blitter`: bus sharing and each word once.
5. `SoundRing`: emulation and audio thread with the statements that race; DMA
   sound FIFO.  6. MFP timers A to D and the edge logic of the port, composed with
   CycInt and MFP.  7. Snapshot and reset composed over the parts above.

## Not modelled

Not planned: line timing of the video chips and conversions to the host screen
(numeric), image and recording formats (data), instruction sets of CPU and DSP
(simulators, partly imported or generated), user interfaces and host I/O.
