----------------------------- MODULE TimerQueue -----------------------------
(***************************************************************************)
(* What Hatari's internal timers promise to the devices that use them: a   *)
(* device schedules its timer for a date, may cancel or reschedule it, and *)
(* the timer fires at or after its date, never before another timer with   *)
(* an earlier date.  Two timers with the same date fire in the reverse of  *)
(* the order in which they were scheduled.  The module says nothing of     *)
(* lists, cursors or cached dates: CycInt implements it.                   *)
(***************************************************************************)
EXTENDS Integers

CONSTANTS Timers,      \* the devices' timers
          NoTimer,     \* no timer is being fired
          Dates        \* the dates a timer may be scheduled for

VARIABLES armed,       \* the timers that are scheduled
          date,        \* the date of each timer (kept after it fired)
          over,        \* over[i]: the timers i fires before when dates are equal
          now,         \* the current date
          firing       \* the timer being fired, until it is acknowledged

vars == <<armed, date, over, now, firing>>

TypeOK ==
  /\ armed \subseteq Timers
  /\ date \in [Timers -> Dates]
  /\ over \in [Timers -> SUBSET Timers]
  /\ now \in Dates
  /\ firing \in Timers \cup {NoTimer}

Init ==
  /\ armed = {}
  /\ date = [i \in Timers |-> 0]
  /\ over = [i \in Timers |-> {}]
  /\ now = 0
  /\ firing = NoTimer

\* i fires before j.
Before(i, j) == date[i] < date[j] \/ (date[i] = date[j] /\ j \in over[i])

Disarm(i) ==
  /\ armed' = armed \ {i}
  /\ over' = [k \in Timers |-> IF k = i THEN {} ELSE over[k] \ {i}]

Schedule(i, d) ==
  /\ firing = NoTimer
  /\ armed' = armed \cup {i}
  /\ date' = [date EXCEPT ![i] = d]
  /\ over' = [k \in Timers |-> IF k = i THEN armed \ {i} ELSE over[k] \ {i}]
  /\ UNCHANGED <<now, firing>>

Cancel(i) ==
  /\ firing = NoTimer
  /\ Disarm(i)
  /\ UNCHANGED <<date, now, firing>>

CancelAll ==
  /\ firing = NoTimer
  /\ armed' = {}
  /\ date' = [i \in Timers |-> 0]
  /\ over' = [i \in Timers |-> {}]
  /\ UNCHANGED <<now, firing>>

Fire(i) ==
  /\ firing = NoTimer
  /\ i \in armed
  /\ date[i] <= now
  /\ \A j \in armed \ {i} : Before(i, j)
  /\ firing' = i
  /\ UNCHANGED <<armed, date, over, now>>

Acknowledge ==
  /\ firing # NoTimer
  /\ Disarm(firing)
  /\ firing' = NoTimer
  /\ UNCHANGED <<date, now>>

\* Time never goes back.
Advance(t) ==
  /\ firing = NoTimer
  /\ t > now
  /\ now' = t
  /\ UNCHANGED <<armed, date, over, firing>>

Next ==
  \/ \E i \in Timers : Cancel(i) \/ Fire(i) \/ \E d \in Dates : Schedule(i, d)
  \/ CancelAll
  \/ Acknowledge
  \/ \E t \in Dates : Advance(t)

Spec == Init /\ [][Next]_vars
=============================================================================
