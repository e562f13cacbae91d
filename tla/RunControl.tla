----------------------------- MODULE RunControl -----------------------------
(***************************************************************************)
(* What hatari_run promises to those who call it, frontends and the MCP    *)
(* server: a call executes instructions until the frames it is asked for   *)
(* are over or something has stopped it, and then returns; the instruction *)
(* in progress is finished, no other begins.  No instruction begins before *)
(* a reset the host has asked for, unless the program has ended.  The      *)
(* module says nothing of the flags that carry this through the CPU core:  *)
(* RetroCore implements it, McpServer relies on it.                        *)
(***************************************************************************)
EXTENDS Integers

CONSTANTS MaxFrames,   \* the most frames a call may ask for
          Reasons,     \* why a run may be stopped
          NoReason     \* nothing has stopped it

VARIABLES called,      \* the host is inside hatari_run
          wanted,      \* the frames it asked for
          done,        \* the frames that are over
          reason,      \* what has stopped the run
          reset,       \* a reset the host has asked for and not got
          ended,       \* the program has ended the emulation
          executing    \* an instruction is in progress

vars == <<called, wanted, done, reason, reset, ended, executing>>

Init ==
  /\ called = FALSE /\ executing = FALSE
  /\ wanted = 0 /\ done = 0
  /\ reason = NoReason
  /\ reset = TRUE /\ ended = FALSE

\* The run goes on.
MayRun == called /\ reason = NoReason /\ done < wanted

Call(m) ==
  /\ ~called
  /\ called' = TRUE
  /\ wanted' = m /\ done' = 0
  /\ reason' = NoReason
  /\ UNCHANGED <<reset, ended, executing>>

AskReset ==
  /\ ~called
  /\ reset' = TRUE
  /\ UNCHANGED <<called, wanted, done, reason, ended, executing>>

PerformReset ==
  /\ MayRun /\ ~executing /\ ~ended
  /\ reset' = FALSE
  /\ UNCHANGED <<called, wanted, done, reason, ended, executing>>

\* An instruction begins; it may call the debugger, or end the program.
Execute ==
  /\ MayRun /\ ~executing
  /\ reset => ended
  /\ executing' = TRUE
  /\ reason' \in Reasons \cup {NoReason}
  /\ ended' \in {ended, TRUE}
  /\ UNCHANGED <<called, wanted, done, reset>>

Frame ==
  /\ executing /\ done < wanted
  /\ done' = done + 1
  /\ UNCHANGED <<called, wanted, reason, reset, ended, executing>>

Stop ==
  /\ executing
  /\ reason' \in Reasons
  /\ UNCHANGED <<called, wanted, done, reset, ended, executing>>

Finish ==
  /\ executing
  /\ executing' = FALSE
  /\ UNCHANGED <<called, wanted, done, reason, reset, ended>>

Return ==
  /\ called /\ ~executing /\ ~MayRun
  /\ called' = FALSE
  /\ UNCHANGED <<wanted, done, reason, reset, ended, executing>>

Next ==
  \/ \E m \in 0 .. MaxFrames : Call(m)
  \/ AskReset \/ PerformReset
  \/ Execute \/ Frame \/ Stop \/ Finish
  \/ Return

Spec == Init /\ [][Next]_vars
=============================================================================
