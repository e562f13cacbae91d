------------------------------ MODULE ByteLink ------------------------------
(***************************************************************************)
(* What the line from the keyboard processor to the program promises:      *)
(* bytes leave the ring in their order, one at a time, and the next one    *)
(* leaves only when the last has arrived.  A byte that arrives is shown to *)
(* the program, or counted as lost when the one before was not fetched.    *)
(* Only a reset in the middle of a byte takes it from the line, and until  *)
(* the line is idle again what arrives is noise.  The module says nothing  *)
(* of bits, clocks and interrupts: SerialLines implements it.              *)
(***************************************************************************)
EXTENDS Integers, Sequences

CONSTANTS Byte,        \* the bytes
          NoByte,      \* nothing is on the line
          RingSize     \* bytes the ring can hold

VARIABLES ring,        \* bytes to be sent
          flight,      \* the byte on the line
          full,        \* a byte has arrived and the program has not fetched it
          lost,        \* one was lost and the program has not been told
          torn         \* a reset has cut a byte, and the line was not idle since

vars == <<ring, flight, full, lost, torn>>

Init ==
  /\ ring = <<>> /\ flight = NoByte
  /\ full = FALSE /\ lost = FALSE /\ torn = FALSE

\* The ring is longer at its end.
Put ==
  /\ Len(ring') \in Len(ring) .. RingSize
  /\ \A i \in DOMAIN ring : ring'[i] = ring[i]
  /\ UNCHANGED <<flight, full, lost, torn>>

\* The keyboard processor starts again: its bytes are gone, but for the one on
\* the line.
Drop ==
  /\ ring' = <<>>
  /\ UNCHANGED <<flight, full, lost, torn>>

\* The first byte of the ring goes to the line.
Take ==
  /\ flight = NoByte /\ ring # <<>>
  /\ flight' = ring[1]
  /\ ring' = Tail(ring)

Depart == ~torn /\ Take /\ UNCHANGED <<full, lost, torn>>

Arrive ==
  /\ ~torn /\ flight # NoByte
  /\ flight' = NoByte
  /\ full' = TRUE
  /\ lost' = (lost \/ full)
  /\ UNCHANGED <<ring, torn>>

\* The rest of a byte that was cut: it may be heard as another byte, or not.
Noise ==
  /\ torn
  /\ Take \/ (flight' \in {flight, NoByte} /\ UNCHANGED ring)
  /\ \/ UNCHANGED <<full, lost>>
     \/ full' = TRUE /\ lost' = (lost \/ full)
  /\ torn' = TRUE \/ (torn' = FALSE /\ flight' = NoByte)

Fetch == full' = FALSE /\ UNCHANGED <<ring, flight, lost, torn>>

Tell == lost' = FALSE /\ UNCHANGED <<ring, flight, full, torn>>

\* A reset of the receiver: what is on the line is cut.
ResetReceiver ==
  /\ full' = FALSE /\ lost' = FALSE
  /\ torn' = (torn \/ flight # NoByte)
  /\ UNCHANGED <<ring, flight>>

\* A reset of the transmitter
ResetSender ==
  /\ ring' = <<>> /\ flight' = NoByte
  /\ torn' = (torn \/ flight # NoByte)
  /\ UNCHANGED <<full, lost>>

Next ==
  \/ Put \/ Drop
  \/ Depart \/ Arrive \/ Noise
  \/ Fetch \/ Tell
  \/ ResetReceiver \/ ResetSender

Spec == Init /\ [][Next]_vars
=============================================================================
