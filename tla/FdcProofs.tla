----------------------------- MODULE FdcProofs -----------------------------
(***************************************************************************)
(* Proofs about Fdc, for every number of tracks, sectors, bytes and index  *)
(* pulses.                                                                 *)
(***************************************************************************)
EXTENDS Fdc, TLAPS

Controllers ==
  [cmd : AllKinds \cup {"none", "motor_stop"}, flags : SUBSET Flags, step : Steps,
   timer : {"none", "pending", "handler"}, busy : BOOLEAN, motor : BOOLEAN,
   replace : BOOLEAN, mode : {"timer", "stream"}, ip : 0 .. MaxPulses, left : 0 .. Bytes,
   tr : 0 .. MaxTR, dr : 0 .. MaxTR, sr : 0 .. MaxSR, head : 0 .. MaxHead,
   irq : SUBSET {"complete", "forced", "index", "hdc"},
   cond : SUBSET {"immediate", "index"}, line : {0, 1}]

\* A command is in one of its own steps.
StepsI == {"start", "spin_up", "motor_on", "loop", "verify", "head_ok", "next_header",
           "check_header", "complete"}
StepsII == {"start", "spin_up", "head_load", "motor_on", "next_header", "check_header",
            "transfer_start", "transfer", "crc", "multi", "rnf", "complete", "index"}

StepFits(f) ==
  /\ f.cmd \in TypeI => f.step \in StepsI
  /\ f.cmd \in TypeII \cup TypeIII => f.step \in StepsII

\* What a turn of the handler may do to the parts the program sees.
Moves(f, g) ==
  /\ g.cmd = f.cmd /\ g.busy = f.busy /\ g.timer # "none"
  /\ g.irq = f.irq /\ g.line = f.line /\ g.cond = f.cond

Completes(f, g) ==
  /\ g.cmd = "motor_stop" /\ ~g.busy /\ g.timer # "none" /\ g.cond = f.cond
  /\ g.irq = (f.irq \ {"hdc"}) \cup {"complete"}
  /\ g.line = IF f.irq = {} THEN 0 ELSE f.line

Stops(f, g) ==
  /\ f.cmd = "motor_stop" /\ g.cmd = "none" /\ g.busy = f.busy
  /\ g.irq = f.irq /\ g.line = f.line /\ g.cond = f.cond

Good(f, g) ==
  g \in Controllers /\ StepFits(g) /\ (Moves(f, g) \/ Completes(f, g) \/ Stops(f, g))

-----------------------------------------------------------------------------
LEMMA SetIRQType ==
  ASSUME NEW f \in Controllers, NEW s \in {"complete", "forced", "index", "hdc"}
  PROVE  SetIRQ(f, s) \in Controllers
BY DEF Controllers, SetIRQ

LEMMA CompleteGood ==
  ASSUME NEW f \in Controllers
  PROVE  Good(f, CmdComplete(f))
<1> DEFINE h == SetIRQ(f, "complete")
<1>1. h \in Controllers
  BY SetIRQType
<1>2. CmdComplete(f) \in Controllers
  <2> DEFINE k == Stopping(h)
  <2>1. CmdComplete(f) = Now(k, "stop")
    BY DEF CmdComplete
  <2> HIDE DEF h
  <2>2. k \in Controllers
    BY <1>1 DEF Stopping, Controllers, Steps
  <2> HIDE DEF k
  <2> QED
    BY <2>1, <2>2 DEF Now, Controllers, Steps
<1>3. StepFits(CmdComplete(f)) /\ Completes(f, CmdComplete(f))
  BY DEF CmdComplete, Now, Stopping, Controllers, SetIRQ, StepFits, Completes,
         TypeI, TypeII, TypeIII
<1> QED
  BY <1>2, <1>3 DEF Good


\* A step that changes no more than registers, head and counters.
Same(f, h) ==
  /\ h \in Controllers /\ h.cmd = f.cmd /\ h.busy = f.busy
  /\ h.irq = f.irq /\ h.line = f.line /\ h.cond = f.cond

Fits(f, s) == (f.cmd \in TypeI => s \in StepsI) /\ (f.cmd \in TypeII \cup TypeIII => s \in StepsII)

LEMMA MoveGood ==
  ASSUME NEW f \in Controllers, NEW h, Same(f, h), NEW s \in Steps, Fits(f, s)
  PROVE  Good(f, After(h, s)) /\ Good(f, Now(h, s))
<1>1. After(h, s) \in Controllers /\ Now(h, s) \in Controllers
  BY DEF Same, After, Now, Controllers
<1>2. /\ After(h, s).cmd = h.cmd /\ After(h, s).step = s /\ After(h, s).busy = h.busy
      /\ After(h, s).irq = h.irq /\ After(h, s).line = h.line /\ After(h, s).cond = h.cond
      /\ After(h, s).timer = "pending"
  BY DEF Same, After, Controllers
<1>3. /\ Now(h, s).cmd = h.cmd /\ Now(h, s).step = s /\ Now(h, s).busy = h.busy
      /\ Now(h, s).irq = h.irq /\ Now(h, s).line = h.line /\ Now(h, s).cond = h.cond
      /\ Now(h, s).timer = "handler"
  BY DEF Same, Now, Controllers
<1> QED
  BY <1>1, <1>2, <1>3 DEF Good, Moves, StepFits, Same, Fits

LEMMA SameSelf ==
  ASSUME NEW f \in Controllers
  PROVE  Same(f, f)
BY DEF Same

LEMMA SameTypes ==
  ASSUME NEW f \in Controllers
  PROVE  /\ \A t \in 0 .. MaxTR : Same(f, [f EXCEPT !.tr = t])
         /\ \A t \in 0 .. MaxTR : Same(f, [f EXCEPT !.dr = t])
         /\ \A t \in 0 .. MaxTR, h \in 0 .. MaxHead : Same(f, [f EXCEPT !.tr = t, !.head = h])
         /\ \A h \in 0 .. MaxHead : Same(f, [f EXCEPT !.head = h])
         /\ \A n \in 0 .. MaxPulses : Same(f, [f EXCEPT !.ip = n])
         /\ \A n \in 0 .. Bytes : Same(f, [f EXCEPT !.left = n])
         /\ \A n \in 0 .. MaxSR : Same(f, [f EXCEPT !.sr = n])
         /\ Same(f, [f EXCEPT !.replace = FALSE])
         /\ \A s \in Steps : Same(f, [f EXCEPT !.step = s])
         /\ Same(f, [f EXCEPT !.motor = TRUE])
         /\ \A m \in {"timer", "stream"} : Same(f, [f EXCEPT !.mode = m])
<1>1. \A t \in 0 .. MaxTR : Same(f, [f EXCEPT !.dr = t])
  BY DEF Same, Controllers
<1>2. \A t \in 0 .. MaxTR : Same(f, [f EXCEPT !.tr = t])
  BY DEF Same, Controllers
<1>3. \A t \in 0 .. MaxTR, h \in 0 .. MaxHead : Same(f, [f EXCEPT !.tr = t, !.head = h])
  BY DEF Same, Controllers
<1>4. \A h \in 0 .. MaxHead : Same(f, [f EXCEPT !.head = h])
  BY DEF Same, Controllers
<1>5. \A n \in 0 .. MaxPulses : Same(f, [f EXCEPT !.ip = n])
  BY DEF Same, Controllers
<1>6. \A n \in 0 .. Bytes : Same(f, [f EXCEPT !.left = n])
  BY DEF Same, Controllers
<1>7. \A n \in 0 .. MaxSR : Same(f, [f EXCEPT !.sr = n])
  BY DEF Same, Controllers
<1>8. Same(f, [f EXCEPT !.replace = FALSE])
  BY DEF Same, Controllers
<1>9. \A s \in Steps : Same(f, [f EXCEPT !.step = s])
  BY DEF Same, Controllers
<1>10. Same(f, [f EXCEPT !.motor = TRUE])
  BY DEF Same, Controllers
<1>11. \A m \in {"timer", "stream"} : Same(f, [f EXCEPT !.mode = m])
  BY DEF Same, Controllers
<1> QED
  BY <1>1, <1>2, <1>3, <1>4, <1>5, <1>6, <1>7, <1>8, <1>9, <1>10, <1>11

LEMMA SameTrans ==
  ASSUME NEW f, NEW h, NEW g, Same(f, h), Same(h, g)
  PROVE  Same(f, g)
BY DEF Same

\* The pulses of a stream are counted, and during a command no more than that.
LEMMA StreamedSame ==
  ASSUME NEW f \in Controllers, f.cond = {}, NEW g \in Streamed(f)
  PROVE  Same(f, g) /\ g.step = f.step
<1> USE ConstantsAssumption
<1> DEFINE n == IF f.ip < MaxPulses THEN f.ip + 1 ELSE f.ip
           h == [f EXCEPT !.ip = n]
<1>1. g = f \/ g = h
  BY DEF Streamed, Pulse
<1>2. n \in 0 .. MaxPulses
  BY DEF Controllers, MaxPulses, Max2
<1> HIDE DEF n
<1>3. Same(f, h)
  BY <1>2, SameTypes
<1>4. h.step = f.step
  BY DEF Controllers
<1> HIDE DEF h
<1> QED
  BY <1>1, <1>3, <1>4, SameSelf

\* The track of a stream is loaded or not, and the command stays what it is.
LEMMA LoadedSame ==
  ASSUME NEW f \in Controllers
  PROVE  /\ Same(f, Loaded(f)) /\ Loaded(f).step = f.step
         /\ \A h \in NotLoaded(f) : Same(f, h)
<1> DEFINE m == IF disk = "stream" THEN "stream" ELSE "timer"
<1>1. Loaded(f) = [f EXCEPT !.mode = m] /\ m \in {"timer", "stream"}
  BY DEF Loaded
<1> HIDE DEF m
<1>2. Same(f, Loaded(f)) /\ Loaded(f).step = f.step
  <2>1. Same(f, Loaded(f))
    BY <1>1, SameTypes
  <2>2. [f EXCEPT !.mode = m].step = f.step
    BY DEF Controllers
  <2> QED
    BY <1>1, <2>1, <2>2
<1>3. \A h \in NotLoaded(f) : Same(f, h)
  BY SameTypes DEF NotLoaded
<1> QED
  BY <1>2, <1>3

LEMMA GoodTrans ==
  ASSUME NEW f, NEW h, NEW g, Same(f, h), Good(h, g)
  PROVE  Good(f, g)
BY DEF Same, Good, Moves, Completes, Stops

-----------------------------------------------------------------------------
LEMMA RestoreLoopGood ==
  ASSUME NEW f \in Controllers, f.cmd \in TypeI, NEW g \in RestoreLoop(f)
  PROVE  Good(f, g)
<1> USE ConstantsAssumption
<1>f. f.tr \in 0 .. MaxTR /\ f.head \in 0 .. MaxHead /\ f.cmd \notin TypeII \cup TypeIII
  BY DEF Controllers, TypeI, TypeII, TypeIII
<1>s. /\ "verify" \in Steps /\ Fits(f, "verify") /\ "loop" \in Steps /\ Fits(f, "loop")
  BY <1>f DEF Steps, Fits, StepsI
<1>1. CASE f.tr = 0
  BY <1>1, CompleteGood DEF RestoreLoop
<1>2. CASE f.tr # 0 /\ selected /\ f.head = 0
  <2>1. g = Now([f EXCEPT !.tr = 0], "verify")
    BY <1>2 DEF RestoreLoop
  <2>2. 0 \in 0 .. MaxTR
    BY <1>f
  <2>3. Same(f, [f EXCEPT !.tr = 0])
    BY <2>2, SameTypes
  <2> QED
    BY <2>1, <2>3, <1>s, MoveGood
<1>3. CASE f.tr # 0 /\ ~(selected /\ f.head = 0)
  <2> DEFINE t == f.tr - 1
             hd == IF selected THEN f.head - 1 ELSE f.head
             h == [f EXCEPT !.tr = t, !.head = hd]
  <2>1. g = After(h, "loop")
    BY <1>3 DEF RestoreLoop
  <2>2. t \in 0 .. MaxTR /\ hd \in 0 .. MaxHead
    BY <1>3, <1>f
  <2>3. Same(f, h)
    <3> HIDE DEF t, hd
    <3> QED
      BY <2>2, SameTypes
  <2> QED
    BY <2>1, <2>3, <1>s, MoveGood
<1> QED
  BY <1>1, <1>2, <1>3

LEMMA SeekGood ==
  ASSUME NEW f \in Controllers, f.cmd \in TypeI, NEW g \in Seek(f),
         f.step \in StepsI
  PROVE  Good(f, g)
<1> USE ConstantsAssumption
<1>f. /\ f.tr \in 0 .. MaxTR /\ f.dr \in 0 .. MaxTR /\ f.head \in 0 .. MaxHead
      /\ f.cmd \notin TypeII \cup TypeIII /\ f.step \in Steps
  BY DEF Controllers, TypeI, TypeII, TypeIII
<1>s. /\ "verify" \in Steps /\ Fits(f, "verify") /\ Fits(f, f.step)
  BY <1>f DEF Steps, Fits, StepsI
<1> DEFINE d == IF f.dr < f.tr THEN -1 ELSE 1
           t == f.tr + d
           k == [f EXCEPT !.tr = t]
<1>1. CASE f.tr = f.dr
  <2>1. g = Now(f, "verify")
    BY <1>1 DEF Seek
  <2> QED
    BY <2>1, <1>s, SameSelf, MoveGood
<1>t. ASSUME f.tr # f.dr
      PROVE  t \in 0 .. MaxTR
  BY <1>t, <1>f
<1>k. ASSUME f.tr # f.dr
      PROVE  Same(f, k) /\ k.step = f.step
  <2>1. t \in 0 .. MaxTR
    BY <1>t, <1>k
  <2> HIDE DEF t
  <2> QED
    BY <2>1, SameTypes DEF Controllers
<1>2. CASE f.tr # f.dr /\ ~selected
  <2>1. g = After(k, f.step)
    BY <1>2, <1>k DEF Seek, Stay
  <2> QED
    BY <2>1, <1>k, <1>2, <1>f, <1>s, MoveGood
<1>3. CASE f.tr # f.dr /\ selected /\ f.head = MaxHead /\ d = 1
  <2>1. g = Now(k, "verify")
    BY <1>3 DEF Seek
  <2> QED
    BY <2>1, <1>k, <1>3, <1>f, <1>s, MoveGood
<1>4. CASE f.tr # f.dr /\ selected /\ f.head = 0 /\ d = -1
  <2>1. g = Now([k EXCEPT !.tr = 0], "verify")
    BY <1>4, <1>f DEF Seek
  <2>2. [k EXCEPT !.tr = 0] = [f EXCEPT !.tr = 0]
    <3> HIDE DEF t
    <3> QED
      BY DEF Controllers
  <2>z. 0 \in 0 .. MaxTR
    BY <1>f
  <2>3. Same(f, [f EXCEPT !.tr = 0])
    BY <2>z, SameTypes
  <2> QED
    BY <2>1, <2>2, <2>3, <1>f, <1>s, MoveGood
<1>5. CASE f.tr # f.dr /\ selected /\ ~(f.head = MaxHead /\ d = 1) /\ ~(f.head = 0 /\ d = -1)
  <2> DEFINE hd == f.head + d
             h == [f EXCEPT !.tr = t, !.head = hd]
  <2>1. [k EXCEPT !.head = @ + d] = h
    BY DEF Controllers
  <2>2. g = Stay([k EXCEPT !.head = @ + d])
    BY <1>5 DEF Seek
  <2>3. hd \in 0 .. MaxHead /\ t \in 0 .. MaxTR
    BY <1>5, <1>f
  <2>4. Same(f, h) /\ h.step = f.step
    <3> HIDE DEF t, hd
    <3> QED
      BY <2>3, SameTypes DEF Controllers
  <2> HIDE DEF h
  <2> QED
    BY <2>1, <2>2, <2>4, <1>f, <1>s, MoveGood DEF Stay
<1> QED
  BY <1>1, <1>2, <1>3, <1>4, <1>5

LEMMA StepGood ==
  ASSUME NEW f \in Controllers, f.cmd \in TypeI, NEW g \in Step(f)
  PROVE  Good(f, g)
<1> USE ConstantsAssumption
<1>f. /\ f.tr \in 0 .. MaxTR /\ f.head \in 0 .. MaxHead /\ f.cmd \notin TypeII \cup TypeIII
  BY DEF Controllers, TypeI, TypeII, TypeIII
<1>s. /\ "verify" \in Steps /\ Fits(f, "verify")
  BY <1>f DEF Steps, Fits, StepsI
<1> DEFINE d == IF f.cmd = "stepin" THEN 1 ELSE -1
           t == IF "update" \in f.flags THEN (f.tr + d) % (MaxTR + 1) ELSE f.tr
           k == [f EXCEPT !.tr = t]
           hd == f.head + d
           h == [f EXCEPT !.tr = t, !.head = hd]
<1>t. t \in 0 .. MaxTR
  <2>1. (f.tr + d) % (MaxTR + 1) \in 0 .. MaxTR
    BY <1>f
  <2> QED
    BY <2>1, <1>f
<1>k. k = [f EXCEPT !.tr = IF "update" \in f.flags THEN (@ + d) % (MaxTR + 1) ELSE @]
  BY DEF Controllers
<1>1. CASE ~selected
  <2>1. g = After(k, "verify")
    BY <1>1, <1>k DEF Step
  <2>2. Same(f, k)
    <3> HIDE DEF t
    <3> QED
      BY <1>t, SameTypes
  <2> QED
    BY <2>1, <2>2, <1>s, MoveGood
<1>2. CASE selected /\ hd \notin 0 .. MaxHead
  <2>1. g = Now(k, "verify")
    BY <1>2, <1>k DEF Step
  <2>2. Same(f, k)
    <3> HIDE DEF t
    <3> QED
      BY <1>t, SameTypes
  <2> QED
    BY <2>1, <2>2, <1>s, MoveGood
<1>3. CASE selected /\ hd \in 0 .. MaxHead
  <2>1. g = After([k EXCEPT !.head = @ + d], "verify")
    BY <1>3, <1>k DEF Step
  <2>2. [k EXCEPT !.head = @ + d] = h
    BY DEF Controllers
  <2>3. Same(f, h)
    <3> HIDE DEF t, hd
    <3> QED
      BY <1>t, <1>3, SameTypes
  <2> QED
    BY <2>1, <2>2, <2>3, <1>s, MoveGood
<1> QED
  BY <1>1, <1>2, <1>3

LEMMA MotorOnIGood ==
  ASSUME NEW f \in Controllers, f.cmd \in TypeI, f.step \in StepsI, NEW g \in MotorOnI(f)
  PROVE  Good(f, g)
<1> USE ConstantsAssumption
<1> DEFINE k == [f EXCEPT !.replace = FALSE]
<1>k. Same(f, k) /\ k \in Controllers /\ k.cmd = f.cmd /\ k.step = f.step
  <2>1. Same(f, k)
    BY SameTypes
  <2>2. k.step = f.step
    BY DEF Controllers
  <2> HIDE DEF k
  <2> QED
    BY <2>1, <2>2 DEF Same
<1>1. CASE f.cmd = "restore"
  <2> DEFINE h == [k EXCEPT !.tr = MaxTR, !.step = "loop"]
             i == [k EXCEPT !.tr = MaxTR]
  <2>1. g \in RestoreLoop(h)
    BY <1>1 DEF MotorOnI
  <2>2. Same(k, i) /\ i \in Controllers
    <3> HIDE DEF k
    <3>1. MaxTR \in 0 .. MaxTR
      OBVIOUS
    <3>2. \A t \in 0 .. MaxTR : Same(k, [k EXCEPT !.tr = t])
      BY <1>k, SameTypes
    <3>3. Same(k, i)
      BY <3>1, <3>2
    <3> QED
      BY <3>3 DEF Same
  <2>3. Same(i, h) /\ h \in Controllers
    <3>1. h = [i EXCEPT !.step = "loop"] /\ "loop" \in Steps
      BY <1>k DEF Controllers, Steps
    <3> HIDE DEF i
    <3>2. \A s \in Steps : Same(i, [i EXCEPT !.step = s])
      BY <2>2, SameTypes
    <3>3. Same(i, h)
      BY <3>1, <3>2
    <3> QED
      BY <3>3 DEF Same
  <2>4. h.cmd \in TypeI
    BY <1>k, <2>2, <2>3 DEF Same
  <2> HIDE DEF h, i, k
  <2>5. Good(h, g)
    BY <2>1, <2>3, <2>4, RestoreLoopGood
  <2> QED
    BY <2>5, <2>3, <2>2, <1>k, GoodTrans
<1>2. CASE f.cmd = "seek"
  <2>1. g \in Seek(k)
    BY <1>2 DEF MotorOnI
  <2> HIDE DEF k
  <2>2. Good(k, g)
    BY <2>1, <1>k, SeekGood
  <2> QED
    BY <2>2, <1>k, GoodTrans
<1>3. CASE f.cmd \notin {"restore", "seek"}
  <2>1. g \in Step(k)
    BY <1>3 DEF MotorOnI
  <2> HIDE DEF k
  <2>2. Good(k, g)
    BY <2>1, <1>k, StepGood
  <2> QED
    BY <2>2, <1>k, GoodTrans
<1> QED
  BY <1>1, <1>2, <1>3

\* What the search for a header and the end of a command of type I leave.
LEMMA NextHeaderIGood ==
  ASSUME NEW f \in Controllers, f.cmd \in TypeI, f.cond = {}, NEW g \in NextHeaderI(f)
  PROVE  Good(f, g)
<1>s. /\ {"complete", "next_header", "check_header"} \subseteq Steps
      /\ \A s \in {"complete", "next_header", "check_header"} : Fits(f, s)
  BY DEF Steps, Fits, StepsI, TypeI, TypeII, TypeIII
<1>1. \/ g = After(f, "complete")
      \/ \E h \in Streamed(f) : g = After(h, "next_header") \/ g = After(h, "check_header")
  BY DEF NextHeaderI
<1>2. CASE g = After(f, "complete")
  BY <1>2, <1>s, SameSelf, MoveGood
<1>3. ASSUME NEW h \in Streamed(f), g = After(h, "next_header") \/ g = After(h, "check_header")
      PROVE  Good(f, g)
  BY <1>3, <1>s, StreamedSame, MoveGood
<1> QED
  BY <1>1, <1>2, <1>3

LEMMA TypeIGood ==
  ASSUME NEW f \in Controllers, f.cmd \in TypeI, f.step \in StepsI \ {"start", "spin_up"},
         f.cond = {}, NEW g \in TypeIStep(f)
  PROVE  Good(f, g)
<1> USE ConstantsAssumption
<1>s. /\ {"complete", "next_header", "head_ok"} \subseteq Steps
      /\ \A s \in {"complete", "next_header", "head_ok"} : Fits(f, s)
      /\ f.step \in StepsI
  BY DEF Steps, Fits, StepsI, TypeI, TypeII, TypeIII
<1>1. CASE f.step = "motor_on"
  BY <1>1, <1>s, MotorOnIGood DEF TypeIStep
<1>2. CASE f.step = "loop"
  BY <1>2, RestoreLoopGood DEF TypeIStep
<1>3. CASE f.step = "verify"
  <2>1. g \in {After(f, s) : s \in {"head_ok", "complete"}}
    BY <1>3 DEF TypeIStep
  <2> QED
    BY <2>1, <1>s, SameSelf, MoveGood
<1>4. CASE f.step = "head_ok"
  <2> DEFINE h == [f EXCEPT !.ip = 0]
  <2>h. Same(f, h) /\ h \in Controllers /\ h.cmd \in TypeI /\ h.cond = {}
    <3>1. 0 \in 0 .. MaxPulses
      BY DEF MaxPulses, Max2
    <3>2. Same(f, h)
      BY <3>1, SameTypes
    <3> HIDE DEF h
    <3> QED
      BY <3>2 DEF Same
  <2>1. \/ g \in NextHeaderI(h) \/ g \in NextHeaderI(Loaded(h))
        \/ \E i \in NotLoaded(h) : g = After(i, "complete")
    BY <1>4 DEF TypeIStep, HeadOk
  <2> HIDE DEF h
  <2>2. CASE g \in NextHeaderI(h)
    BY <2>2, <2>h, NextHeaderIGood, GoodTrans
  <2>3. CASE g \in NextHeaderI(Loaded(h))
    <3> DEFINE k == Loaded(h)
    <3>1. Same(h, k) /\ g \in NextHeaderI(k)
      BY <2>3, <2>h, LoadedSame
    <3> HIDE DEF k
    <3>2. Same(f, k) /\ k \in Controllers /\ k.cmd \in TypeI /\ k.cond = {}
      BY <2>h, <3>1 DEF Same
    <3> QED
      BY <3>1, <3>2, NextHeaderIGood, GoodTrans
  <2>4. ASSUME NEW i \in NotLoaded(h), g = After(i, "complete")
        PROVE  Good(f, g)
    <3>1. Same(f, i)
      BY <2>h, LoadedSame, SameTrans
    <3> QED
      BY <2>4, <3>1, <1>s, MoveGood
  <2> QED
    BY <2>1, <2>2, <2>3, <2>4
<1>5. CASE f.step = "next_header"
  BY <1>5, NextHeaderIGood DEF TypeIStep
<1>6. CASE f.step = "check_header"
  <2>1. g = Now(f, "next_header") \/ g = After(f, "complete")
    BY <1>6 DEF TypeIStep, CheckHeaderI
  <2> QED
    BY <2>1, <1>s, SameSelf, MoveGood
<1>7. CASE f.step = "complete"
  BY <1>7, CompleteGood DEF TypeIStep
<1> QED
  BY <1>1, <1>2, <1>3, <1>4, <1>5, <1>6, <1>7 DEF StepsI

-----------------------------------------------------------------------------
LEMMA MoveII ==
  ASSUME NEW f \in Controllers, f.cmd \notin TypeI, NEW h, Same(f, h), NEW s \in StepsII
  PROVE  Good(f, After(h, s)) /\ Good(f, Now(h, s))
<1>1. s \in Steps /\ Fits(f, s)
  BY DEF StepsII, Steps, Fits
<1> QED
  BY <1>1, MoveGood

LEMMA MotorOnIIGood ==
  ASSUME NEW f \in Controllers, f.cmd \notin TypeI, f.step \in StepsII, f.cond = {}, NEW g \in MotorOnII(f)
  PROVE  Good(f, g)
<1> USE ConstantsAssumption
<1>s. {"next_header", "rnf", "index", "complete"} \subseteq StepsII
  BY DEF StepsII
<1>1. CASE f.cmd \in {"readtrack", "writetrack"}
  <2>1. \/ g = After(f, f.step) \/ g = After(f, "index")
        \/ \E h \in Streamed(Loaded(f)) : g = After(h, "index")
        \/ \E h \in NotLoaded(f) : g = After(h, "complete")
    BY <1>1 DEF MotorOnII, MotorOnTrack, Stay
  <2>2. CASE g = After(f, f.step) \/ g = After(f, "index")
    BY <2>2, <1>s, SameSelf, MoveII
  <2>3. ASSUME NEW h \in Streamed(Loaded(f)), g = After(h, "index")
        PROVE  Good(f, g)
    <3> DEFINE k == Loaded(f)
    <3>1. Same(f, k) /\ h \in Streamed(k)
      BY <2>3, LoadedSame
    <3> HIDE DEF k
    <3>2. k \in Controllers /\ k.cond = {}
      BY <3>1 DEF Same
    <3>3. Same(f, h)
      BY <3>1, <3>2, StreamedSame, SameTrans
    <3> QED
      BY <2>3, <3>3, <1>s, MoveII
  <2>4. ASSUME NEW h \in NotLoaded(f), g = After(h, "complete")
        PROVE  Good(f, g)
    BY <2>4, <1>s, LoadedSame, MoveII
  <2> QED
    BY <2>1, <2>2, <2>3, <2>4
<1>2. CASE f.cmd \notin {"readtrack", "writetrack"}
  <2> DEFINE k == [f EXCEPT !.replace = FALSE]
             h == [f EXCEPT !.replace = FALSE, !.ip = 0]
  <2>k. Same(f, k) /\ k \in Controllers
    <3>1. Same(f, k)
      BY SameTypes
    <3> QED
      BY <3>1 DEF Same
  <2>h. Same(f, h)
    <3>1. h = [k EXCEPT !.ip = 0]
      BY DEF Controllers
    <3>2. 0 \in 0 .. MaxPulses
      BY DEF MaxPulses, Max2
    <3> HIDE DEF k
    <3>3. Same(k, [k EXCEPT !.ip = 0])
      BY <2>k, <3>2, SameTypes
    <3> HIDE DEF h
    <3> QED
      BY <2>k, <3>1, <3>3 DEF Same
  <2>s. h.step = f.step
    BY DEF Controllers
  <2>1. \/ g = Now(Loaded(h), "next_header") \/ g = After(h, h.step)
        \/ \E i \in NotLoaded(h) : g = Now(i, "rnf")
    BY <1>2 DEF MotorOnII, MotorOnSector, Stay
  <2> HIDE DEF h
  <2>2. h \in Controllers
    BY <2>h DEF Same
  <2>3. Same(f, Loaded(h)) /\ \A i \in NotLoaded(h) : Same(f, i)
    BY <2>h, <2>2, LoadedSame, SameTrans
  <2> QED
    BY <2>1, <2>3, <2>h, <2>s, <1>s, MoveII
<1> QED
  BY <1>1, <1>2

LEMMA HeadLoadGood ==
  ASSUME NEW f \in Controllers, f.cmd \notin TypeI, f.step \in StepsII, f.cond = {}, NEW g \in HeadLoad(f)
  PROVE  Good(f, g)
<1> DEFINE k == IF f.cmd \in TypeIII THEN [f EXCEPT !.replace = FALSE] ELSE f
<1>k. Same(f, k) /\ k \in Controllers /\ k.cmd = f.cmd /\ k.cond = {}
  <2>1. Same(f, k)
    BY SameTypes, SameSelf
  <2> HIDE DEF k
  <2> QED
    BY <2>1 DEF Same
<1>s. k.step = f.step /\ "motor_on" \in StepsII
  BY DEF Controllers, StepsII
<1>1. g = After(k, "motor_on") \/ g \in MotorOnII(k)
  BY DEF HeadLoad
<1> HIDE DEF k
<1>2. CASE g = After(k, "motor_on")
  BY <1>2, <1>k, <1>s, MoveII
<1>3. CASE g \in MotorOnII(k)
  <2>1. Good(k, g)
    BY <1>3, <1>k, <1>s, MotorOnIIGood
  <2> QED
    BY <2>1, <1>k, GoodTrans
<1> QED
  BY <1>1, <1>2, <1>3

LEMMA TransferStartGood ==
  ASSUME NEW f \in Controllers, f.cmd \notin TypeI, f.step \in StepsII, f.cond = {}, NEW g \in TransferStart(f)
  PROVE  Good(f, g)
<1> USE ConstantsAssumption
<1> DEFINE k == [f EXCEPT !.left = Bytes]
           h == [k EXCEPT !.sr = f.head]
<1>s. {"transfer", "rnf"} \subseteq StepsII
  BY DEF StepsII
<1>k. Same(f, k) /\ k \in Controllers
  <2>1. Bytes \in 0 .. Bytes
    OBVIOUS
  <2>2. Same(f, k)
    BY <2>1, SameTypes
  <2> QED
    BY <2>2 DEF Same
<1>h. Same(f, h)
  <2>1. f.head \in 0 .. MaxSR
    BY DEF Controllers
  <2> HIDE DEF k
  <2>2. \A n \in 0 .. MaxSR : Same(k, [k EXCEPT !.sr = n])
    BY <1>k, SameTypes
  <2>3. Same(k, h)
    BY <2>1, <2>2
  <2> QED
    BY <1>k, <2>3 DEF Same
<1>1. \/ g = After(f, f.step) \/ g = Now(k, "transfer") \/ g = After(h, "transfer")
      \/ \E i \in Streamed(k) : g = After(i, "transfer")
      \/ \E i \in Streamed(f) : g = Now(i, "rnf")
  BY DEF TransferStart, Stay
<1> HIDE DEF k, h
<1>2. k.cond = {}
  BY <1>k DEF Same
<1>3. (\A i \in Streamed(f) : Same(f, i)) /\ (\A i \in Streamed(k) : Same(f, i))
  BY <1>k, <1>2, StreamedSame, SameTrans
<1> QED
  BY <1>1, <1>3, <1>s, <1>k, <1>h, SameSelf, MoveII

LEMMA TransferGood ==
  ASSUME NEW f \in Controllers, f.cmd \notin TypeI, f.step \in StepsII, NEW g \in Transfer(f)
  PROVE  Good(f, g)
<1> USE ConstantsAssumption
<1> DEFINE n == f.left - 1
           k == [f EXCEPT !.left = n]
           z == [f EXCEPT !.left = 0]
<1>s. {"crc", "complete"} \subseteq StepsII
  BY DEF StepsII
<1>f. f.left \in 0 .. Bytes
  BY DEF Controllers
<1>z. Same(f, z)
  <2>1. 0 \in 0 .. Bytes
    OBVIOUS
  <2> QED
    BY <2>1, SameTypes
<1>k. ASSUME f.left > 0
      PROVE  Same(f, k) /\ k.step = f.step
  <2>1. n \in 0 .. Bytes
    BY <1>f, <1>k
  <2> HIDE DEF n
  <2> QED
    BY <2>1, SameTypes DEF Controllers
<1>1. \/ f.left > 0 /\ g = After(k, k.step)
      \/ g = After(f, "crc") \/ g = Now(f, "complete")
      \/ g = After(z, "crc") \/ g = After(z, "complete")
  BY <1>f DEF Transfer, Stay
<1> HIDE DEF k, z
<1> QED
  BY <1>1, <1>s, <1>k, <1>z, SameSelf, MoveII

LEMMA MultiGood ==
  ASSUME NEW f \in Controllers, f.cmd \notin TypeI, NEW g \in Multi(f)
  PROVE  Good(f, g)
<1> USE ConstantsAssumption
<1> DEFINE n == (f.sr + 1) % (MaxSR + 1)
           k == [f EXCEPT !.sr = n]
           h == [k EXCEPT !.ip = 0]
<1>s. {"complete", "next_header", "motor_on"} \subseteq StepsII
  BY DEF StepsII
<1>k. Same(f, k) /\ k \in Controllers
  <2>1. n \in 0 .. MaxSR
    BY DEF Controllers
  <2> HIDE DEF n
  <2>2. Same(f, k)
    BY <2>1, SameTypes
  <2> QED
    BY <2>2 DEF Same
<1>h. Same(f, h)
  <2>1. 0 \in 0 .. MaxPulses
    BY DEF MaxPulses, Max2
  <2> HIDE DEF k
  <2>2. Same(k, h)
    BY <1>k, <2>1, SameTypes
  <2> QED
    BY <1>k, <2>2 DEF Same
<1>1. g = After(f, "complete") \/ g = Now(h, "next_header") \/ g = Now(k, "motor_on")
  BY DEF Multi
<1> HIDE DEF k, h
<1> QED
  BY <1>1, <1>s, <1>k, <1>h, SameSelf, MoveII

LEMMA IndexGood ==
  ASSUME NEW f \in Controllers, f.cmd \notin TypeI, f.step \in StepsII, f.cond = {}, NEW g \in Index(f)
  PROVE  Good(f, g)
<1> USE ConstantsAssumption
<1> DEFINE k == [f EXCEPT !.left = Bytes]
<1>s. "transfer" \in StepsII
  BY DEF StepsII
<1>k. Same(f, k)
  <2>1. Bytes \in 0 .. Bytes
    OBVIOUS
  <2> QED
    BY <2>1, SameTypes
<1>1. \/ g = After(f, f.step) \/ g = Now(k, "transfer") \/ g = CmdComplete(f)
      \/ \E i \in Streamed(k) : g = After(i, "transfer")
  BY DEF Index, Stay
<1> HIDE DEF k
<1>2. \A i \in Streamed(k) : Same(f, i)
  <2>1. k \in Controllers /\ k.cond = {}
    BY <1>k DEF Same
  <2> QED
    BY <1>k, <2>1, StreamedSame, SameTrans
<1> QED
  BY <1>1, <1>2, <1>s, <1>k, SameSelf, MoveII, CompleteGood

LEMMA TypeIIGood ==
  ASSUME NEW f \in Controllers, f.cmd \notin TypeI, f.step \in StepsII \ {"start", "spin_up"},
         f.cond = {}, NEW g \in TypeIIStep(f)
  PROVE  Good(f, g)
<1>s. /\ {"next_header", "check_header", "transfer_start", "multi", "rnf"} \subseteq StepsII
      /\ f.step \in StepsII
  BY DEF StepsII
<1>1. CASE f.step = "head_load"
  BY <1>1, <1>s, HeadLoadGood DEF TypeIIStep
<1>2. CASE f.step = "motor_on"
  BY <1>2, <1>s, MotorOnIIGood DEF TypeIIStep
<1>3. CASE f.step = "next_header"
  <2>1. \/ g = Now(f, "rnf")
        \/ \E h \in Streamed(f), s \in {"transfer_start", "check_header"} :
             g = After(h, h.step) \/ g = After(h, s)
    BY <1>3 DEF TypeIIStep, NextHeaderII, Headers, Stay
  <2>2. CASE g = Now(f, "rnf")
    BY <2>2, <1>s, SameSelf, MoveII
  <2>3. ASSUME NEW h \in Streamed(f), NEW s \in {"transfer_start", "check_header"},
               g = After(h, h.step) \/ g = After(h, s)
        PROVE  Good(f, g)
    <3>1. Same(f, h) /\ h.step \in StepsII /\ s \in StepsII
      BY <1>s, StreamedSame
    <3> QED
      BY <2>3, <3>1, MoveII
  <2> QED
    BY <2>1, <2>2, <2>3
<1>4. CASE f.step = "check_header"
  <2>1. g = After(f, f.step) \/ g = Now(f, "next_header") \/ g = After(f, "transfer_start")
    BY <1>4 DEF TypeIIStep, CheckHeaderII, Stay
  <2> QED
    BY <2>1, <1>s, SameSelf, MoveII
<1>5. CASE f.step = "transfer_start"
  BY <1>5, <1>s, TransferStartGood DEF TypeIIStep
<1>6. CASE f.step = "index"
  BY <1>6, <1>s, IndexGood DEF TypeIIStep
<1>7. CASE f.step = "transfer"
  BY <1>7, <1>s, TransferGood DEF TypeIIStep
<1>8. CASE f.step = "crc"
  <2>1. g = Now(f, "multi") \/ g = Now(f, "rnf") \/ g = CmdComplete(f)
    BY <1>8 DEF TypeIIStep, Crc
  <2> QED
    BY <2>1, <1>s, SameSelf, MoveII, CompleteGood
<1>9. CASE f.step = "multi"
  BY <1>9, MultiGood DEF TypeIIStep
<1>10. CASE f.step \in {"rnf", "complete"}
  BY <1>10, CompleteGood DEF TypeIIStep
<1> QED
  BY <1>1, <1>2, <1>3, <1>4, <1>5, <1>6, <1>7, <1>8, <1>9, <1>10 DEF StepsII

-----------------------------------------------------------------------------
LEMMA MotorStopGood ==
  ASSUME NEW f \in Controllers, f.cmd = "motor_stop"
  PROVE  Good(f, MotorStop(f))
<1> USE ConstantsAssumption
<1> DEFINE m == IF selected THEN "timer" ELSE f.mode
           n == [f EXCEPT !.ip = 0]
           k == [f EXCEPT !.ip = 0, !.mode = m]
           h == [f EXCEPT !.ip = 0, !.motor = FALSE, !.cmd = "none", !.timer = "none"]
<1>s. "stop_wait" \in Steps /\ f.step \in Steps /\ \A s : Fits(f, s)
  BY DEF Steps, Controllers, Fits, TypeI, TypeII, TypeIII
<1>z. 0 \in 0 .. MaxPulses
  BY DEF MaxPulses, Max2
<1>k. Same(f, k)
  <2>1. m \in {"timer", "stream"}
    BY DEF Controllers
  <2>2. k = [n EXCEPT !.mode = m]
    BY DEF Controllers
  <2>3. Same(f, n) /\ n \in Controllers
    <3>1. Same(f, n)
      BY <1>z, SameTypes
    <3> QED
      BY <3>1 DEF Same
  <2> HIDE DEF n, m
  <2>4. Same(n, [n EXCEPT !.mode = m])
    BY <2>1, <2>3, SameTypes
  <2> HIDE DEF k
  <2> QED
    BY <2>2, <2>3, <2>4, SameTrans
<1>h. h \in Controllers
  BY <1>z DEF Controllers
<1>i. h.cmd = "none" /\ h.busy = f.busy /\ h.irq = f.irq /\ h.line = f.line /\ h.cond = f.cond
  BY DEF Controllers
<1>1. MotorStop(f) \in {After(k, "stop_wait"), After(f, f.step), h}
  BY DEF MotorStop, Stay
<1>2. Good(f, h)
  BY <1>h, <1>i DEF Good, Stops, StepFits, TypeI, TypeII, TypeIII
<1> HIDE DEF k, h
<1> QED
  BY <1>1, <1>2, <1>s, <1>k, SameSelf, MoveGood

LEMMA SetMotorOnGood ==
  ASSUME NEW f \in Controllers, f.cmd \in AllKinds, NEW g \in SetMotorOn(f)
  PROVE  Good(f, g)
<1> DEFINE m == IF Ready THEN "timer" ELSE f.mode
           n == [f EXCEPT !.motor = TRUE]
           k == [f EXCEPT !.motor = TRUE, !.mode = m]
           h == [k EXCEPT !.ip = 0]
<1>s. /\ "spin_up" \in Steps /\ Fits(f, "spin_up")
      /\ f.cmd \in TypeI => "motor_on" \in Steps /\ Fits(f, "motor_on")
      /\ f.cmd \notin TypeI => "head_load" \in Steps /\ Fits(f, "head_load")
  BY DEF Steps, Fits, StepsI, StepsII, TypeI, TypeII, TypeIII
<1>k. Same(f, k) /\ k \in Controllers
  <2>1. m \in {"timer", "stream"}
    BY DEF Controllers
  <2>2. k = [n EXCEPT !.mode = m]
    BY DEF Controllers
  <2>3. Same(f, n) /\ n \in Controllers
    <3>1. Same(f, n)
      BY SameTypes
    <3> QED
      BY <3>1 DEF Same
  <2> HIDE DEF n, m
  <2>4. Same(n, [n EXCEPT !.mode = m])
    BY <2>1, <2>3, SameTypes
  <2> HIDE DEF k
  <2>5. Same(f, k)
    BY <2>2, <2>3, <2>4, SameTrans
  <2> QED
    BY <2>5 DEF Same
<1>h. Same(f, h)
  <2>1. 0 \in 0 .. MaxPulses
    BY ConstantsAssumption DEF MaxPulses, Max2
  <2> HIDE DEF k
  <2>2. Same(k, h)
    BY <1>k, <2>1, SameTypes
  <2> HIDE DEF h
  <2> QED
    BY <1>k, <2>2, SameTrans
<1>1. \/ g = After(h, "spin_up")
      \/ f.cmd \in TypeI /\ g = Now(k, "motor_on")
      \/ f.cmd \notin TypeI /\ g = Now(k, "head_load")
  BY DEF SetMotorOn
<1> HIDE DEF k, h
<1> QED
  BY <1>1, <1>s, <1>k, <1>h, MoveGood

LEMMA SpinningUpGood ==
  ASSUME NEW f \in Controllers, f.cmd \in AllKinds, f.step = "spin_up", f.cond = {},
         NEW g \in SpinningUp(f)
  PROVE  Good(f, g)
<1>s. "spin_up" \in Steps /\ "spin_up" \in StepsI /\ "spin_up" \in StepsII /\ Fits(f, "spin_up")
  BY DEF Steps, Fits, StepsI, StepsII
<1>1. \/ g = After(f, f.step)
      \/ f.cmd \in TypeI /\ g \in MotorOnI(f)
      \/ f.cmd \notin TypeI /\ g \in HeadLoad(f)
  BY DEF SpinningUp, Stay
<1>2. CASE g = After(f, f.step)
  BY <1>2, <1>s, SameSelf, MoveGood
<1>3. CASE f.cmd \in TypeI /\ g \in MotorOnI(f)
  BY <1>3, <1>s, MotorOnIGood
<1>4. CASE f.cmd \notin TypeI /\ g \in HeadLoad(f)
  BY <1>4, <1>s, HeadLoadGood
<1> QED
  BY <1>1, <1>2, <1>3, <1>4

\* A turn of the handler keeps a command in its own steps, and leaves what the
\* program sees alone, completes the command or ends the motor stop sequence.
LEMMA RunCommandGood ==
  ASSUME NEW f \in Controllers, StepFits(f), f.cmd # "none", f.cmd \in AllKinds => f.cond = {},
         NEW g \in RunCommand(f)
  PROVE  Good(f, g)
<1>s. /\ f.cmd = "motor_stop" \/ f.cmd \in AllKinds
      /\ f.cmd \in AllKinds /\ f.cmd \notin TypeI => f.step \in StepsII
      /\ f.cmd \in TypeI => f.step \in StepsI
      /\ f.cmd \in AllKinds => f.cmd # "motor_stop"
  BY DEF Controllers, AllKinds, TypeI, TypeII, TypeIII, StepFits
<1>1. CASE f.cmd = "motor_stop"
  BY <1>1, MotorStopGood DEF RunCommand
<1>2. CASE f.cmd \in AllKinds /\ f.step = "start"
  <2>1. g \in SetMotorOn(f)
    BY <1>2, <1>s DEF RunCommand
  <2> QED
    BY <2>1, <1>2, SetMotorOnGood
<1>3. CASE f.cmd \in AllKinds /\ f.step = "spin_up"
  <2>1. g \in SpinningUp(f)
    BY <1>3, <1>s DEF RunCommand
  <2> QED
    BY <2>1, <1>3, SpinningUpGood
<1>4. CASE f.cmd \in TypeI /\ f.cmd \in AllKinds /\ f.step \notin {"start", "spin_up"}
  <2>1. g \in TypeIStep(f)
    BY <1>4, <1>s DEF RunCommand
  <2> QED
    BY <2>1, <1>4, <1>s, TypeIGood
<1>5. CASE f.cmd \notin TypeI /\ f.cmd \in AllKinds /\ f.step \notin {"start", "spin_up"}
  <2>1. g \in TypeIIStep(f)
    BY <1>5, <1>s DEF RunCommand
  <2> QED
    BY <2>1, <1>5, <1>s, TypeIIGood
<1> QED
  BY <1>1, <1>2, <1>3, <1>4, <1>5, <1>s

-----------------------------------------------------------------------------
(* The invariant.  w is the value of warm. *)

Alive(f, w) ==
  /\ f.busy = (f.cmd \in AllKinds)
  /\ f.cmd = "none" \/ f.timer # "none" \/ w
  /\ f.cmd \in AllKinds => f.cond = {}

LineFits(f, w) ==
  /\ f.irq # {} => f.line = 0
  /\ f.line = 0 => f.irq # {} \/ w

Fine(f, w) == f \in Controllers /\ StepFits(f) /\ Alive(f, w) /\ LineFits(f, w)

Disks == {"none", "sectors", "stream"}

IInv ==
  /\ Fine(fdc, warm)
  /\ selected \in BOOLEAN /\ disk \in Disks /\ warm \in BOOLEAN

\* A call that leaves the command as it was.
Keeps(f, g) ==
  /\ g \in Controllers
  /\ g.cmd = f.cmd /\ g.busy = f.busy /\ g.step = f.step /\ g.timer = f.timer
  /\ g.cond = f.cond

LEMMA KeepsFine ==
  ASSUME NEW f, NEW g, NEW w, StepFits(f), Alive(f, w), Keeps(f, g), LineFits(g, w)
  PROVE  Fine(g, w)
BY DEF Keeps, Fine, StepFits, Alive

\* FDC_SetIRQ and FDC_ClearIRQ leave the line right, though Unforce may not.
LEMMA SetIRQFits ==
  ASSUME NEW f \in Controllers, f.irq # {} => f.line = 0,
         NEW s \in {"complete", "forced", "index", "hdc"}, NEW w
  PROVE  /\ Keeps(f, SetIRQ(f, s)) /\ SetIRQ(f, s).cond = f.cond
         /\ LineFits(SetIRQ(f, s), w)
<1>1. SetIRQ(f, s) \in Controllers
  BY SetIRQType
<1>2. /\ SetIRQ(f, s).cmd = f.cmd /\ SetIRQ(f, s).busy = f.busy
      /\ SetIRQ(f, s).step = f.step /\ SetIRQ(f, s).timer = f.timer
      /\ SetIRQ(f, s).cond = f.cond
  BY DEF SetIRQ, Controllers
<1>3. /\ SetIRQ(f, s).line = IF f.irq = {} THEN 0 ELSE f.line
      /\ SetIRQ(f, s).irq = IF s = "hdc" THEN {"hdc"} ELSE (f.irq \ {"hdc"}) \cup {s}
  BY DEF SetIRQ, Controllers
<1> QED
  BY <1>1, <1>2, <1>3 DEF Keeps, LineFits

LEMMA ClearIRQFits ==
  ASSUME NEW f \in Controllers, f.irq # {} => f.line = 0, NEW w
  PROVE  /\ Keeps(f, ClearIRQ(f)) /\ ClearIRQ(f).cond = f.cond
         /\ LineFits(ClearIRQ(f), w)
         /\ "forced" \in f.irq => "forced" \in ClearIRQ(f).irq
<1>1. ClearIRQ(f) \in Controllers
  BY DEF ClearIRQ, Controllers
<1>2. /\ ClearIRQ(f).cmd = f.cmd /\ ClearIRQ(f).busy = f.busy
      /\ ClearIRQ(f).step = f.step /\ ClearIRQ(f).timer = f.timer
      /\ ClearIRQ(f).cond = f.cond
  BY DEF ClearIRQ, Controllers
<1>3. /\ "forced" \in f.irq => ClearIRQ(f).irq = {"forced"} /\ ClearIRQ(f).line = f.line
      /\ "forced" \notin f.irq => ClearIRQ(f).irq = {} /\ ClearIRQ(f).line = 1
  BY DEF ClearIRQ, Controllers
<1> QED
  BY <1>1, <1>2, <1>3 DEF Keeps, LineFits

LEMMA ClearHdcIRQFits ==
  ASSUME NEW f \in Controllers, NEW w, LineFits(f, w)
  PROVE  /\ Keeps(f, ClearHdcIRQ(f)) /\ LineFits(ClearHdcIRQ(f), w)
         /\ "forced" \in f.irq => "forced" \in ClearHdcIRQ(f).irq
<1>1. ClearHdcIRQ(f) \in Controllers
  BY DEF ClearHdcIRQ, Controllers
<1>2. /\ ClearHdcIRQ(f).cmd = f.cmd /\ ClearHdcIRQ(f).busy = f.busy
      /\ ClearHdcIRQ(f).step = f.step /\ ClearHdcIRQ(f).timer = f.timer
      /\ ClearHdcIRQ(f).cond = f.cond
  BY DEF ClearHdcIRQ, Controllers
<1>3. /\ ClearHdcIRQ(f).irq = f.irq \ {"hdc"}
      /\ ClearHdcIRQ(f).line = IF f.irq \subseteq {"hdc"} THEN 1 ELSE f.line
  BY DEF ClearHdcIRQ, Controllers
<1> QED
  BY <1>1, <1>2, <1>3 DEF Keeps, LineFits

LEMMA UnforceKeeps ==
  ASSUME NEW f \in Controllers, f.irq # {} => f.line = 0
  PROVE  /\ Keeps(f, Unforce(f))
         /\ Unforce(f).irq # {} => Unforce(f).line = 0
         /\ "immediate" \in f.cond => Unforce(f) = f
<1>1. Unforce(f) \in Controllers
  BY DEF Unforce, Controllers
<1>2. /\ Unforce(f).cmd = f.cmd /\ Unforce(f).busy = f.busy
      /\ Unforce(f).step = f.step /\ Unforce(f).timer = f.timer /\ Unforce(f).line = f.line
      /\ Unforce(f).irq \subseteq f.irq /\ Unforce(f).cond = f.cond
  BY DEF Unforce, Controllers
<1>3. "immediate" \in f.cond => Unforce(f) = f
  BY DEF Unforce
<1> QED
  BY <1>1, <1>2, <1>3 DEF Keeps

LEMMA PulseFine ==
  ASSUME NEW f, NEW w, Fine(f, w)
  PROVE  /\ Fine(Pulse(f), w) /\ Keeps(f, Pulse(f)) /\ Pulse(f).cond = f.cond
         /\ "forced" \in f.irq => "forced" \in Pulse(f).irq
<1> USE ConstantsAssumption
<1> DEFINE n == IF f.ip < MaxPulses THEN f.ip + 1 ELSE f.ip
           g == [f EXCEPT !.ip = n]
<1>f. f \in Controllers /\ (f.irq # {} => f.line = 0)
  BY DEF Fine, LineFits
<1>g. /\ g = [f EXCEPT !.ip = IF @ < MaxPulses THEN @ + 1 ELSE @]
      /\ g \in Controllers /\ g.irq = f.irq /\ g.line = f.line /\ g.cond = f.cond
      /\ Keeps(f, g)
  <2>1. n \in 0 .. MaxPulses
    BY <1>f DEF Controllers, MaxPulses, Max2
  <2>2. g = [f EXCEPT !.ip = IF @ < MaxPulses THEN @ + 1 ELSE @]
    OBVIOUS
  <2> HIDE DEF n
  <2>3. g \in Controllers
    BY <1>f, <2>1 DEF Controllers
  <2>4. /\ g.irq = f.irq /\ g.line = f.line /\ g.cond = f.cond
        /\ g.cmd = f.cmd /\ g.busy = f.busy /\ g.step = f.step /\ g.timer = f.timer
    BY <1>f DEF Controllers
  <2> QED
    BY <2>2, <2>3, <2>4 DEF Keeps
<1> HIDE DEF g, n
<1>1. Pulse(f) = IF "index" \in f.cond THEN SetIRQ(g, "index") ELSE g
  BY <1>g DEF Pulse
<1>2. CASE "index" \in f.cond
  <2>1. /\ Keeps(g, SetIRQ(g, "index")) /\ SetIRQ(g, "index").cond = g.cond
        /\ LineFits(SetIRQ(g, "index"), w)
    BY <1>f, <1>g, SetIRQFits
  <2>2. "forced" \in g.irq => "forced" \in SetIRQ(g, "index").irq
    BY <1>g DEF SetIRQ, Controllers
  <2>3. Keeps(f, SetIRQ(g, "index"))
    BY <1>g, <2>1 DEF Keeps
  <2>4. Fine(SetIRQ(g, "index"), w)
    BY <2>1, <2>3, KeepsFine DEF Fine
  <2> QED
    BY <1>1, <1>2, <1>g, <2>1, <2>2, <2>3, <2>4
<1>3. CASE "index" \notin f.cond
  <2>1. LineFits(g, w)
    BY <1>g DEF Fine, LineFits
  <2> QED
    BY <1>1, <1>3, <1>g, <2>1, KeepsFine DEF Fine
<1> QED
  BY <1>2, <1>3

LEMMA UpdateAllFine ==
  ASSUME NEW f, NEW w, Fine(f, w), NEW g \in UpdateAll(f)
  PROVE  /\ Fine(g, w) /\ Keeps(f, g) /\ g.cond = f.cond
         /\ "forced" \in f.irq => "forced" \in g.irq
<1>1. g = f \/ g = Pulse(f)
  BY DEF UpdateAll
<1>2. Keeps(f, f)
  BY DEF Keeps, Fine
<1> QED
  BY <1>1, <1>2, PulseFine

-----------------------------------------------------------------------------
(* The operations *)

\* One turn of the handler, completions of protected writes included.
LEMMA TurnFine ==
  ASSUME NEW f, Fine(f, warm), warm \in BOOLEAN, Turn(f)
  PROVE  /\ Fine(fdc', warm')
         /\ f.busy /\ ~fdc'.busy => "complete" \in fdc'.irq
         /\ "forced" \in f.irq => "forced" \in fdc'.irq
<1>f. /\ f \in Controllers /\ StepFits(f) /\ warm' = warm
      /\ f.cmd \in AllKinds => f.cond = {}
  BY DEF Fine, Turn, Alive
<1>1. CASE f.cmd = "none"
  <2>1. fdc' = [f EXCEPT !.timer = "none"]
    BY <1>1 DEF Turn
  <2>2. /\ fdc' \in Controllers /\ fdc'.cmd = f.cmd /\ fdc'.busy = f.busy
        /\ fdc'.step = f.step /\ fdc'.irq = f.irq /\ fdc'.line = f.line /\ fdc'.cond = f.cond
    BY <2>1, <1>f DEF Controllers
  <2> QED
    BY <2>2, <1>1, <1>f DEF Fine, StepFits, Alive, LineFits
<1>2. CASE f.cmd # "none"
  <2>1. fdc' \in RunCommand(f) \/ fdc' = CmdComplete(f)
    BY <1>2 DEF Turn, Protected
  <2>2. Good(f, fdc')
    BY <2>1, <1>2, <1>f, RunCommandGood, CompleteGood
  <2>3. CASE Moves(f, fdc')
    BY <2>2, <2>3, <1>f DEF Good, Moves, Fine, Alive, LineFits
  <2>4. CASE Completes(f, fdc')
    <3>1. "motor_stop" \notin AllKinds
      BY DEF AllKinds, TypeI, TypeII, TypeIII
    <3> QED
      BY <2>2, <2>4, <3>1, <1>f DEF Good, Completes, Fine, Alive, LineFits, Controllers
  <2>5. CASE Stops(f, fdc')
    <3>1. "motor_stop" \notin AllKinds /\ "none" \notin AllKinds
      BY DEF AllKinds, TypeI, TypeII, TypeIII
    <3> QED
      BY <2>2, <2>5, <3>1, <1>f DEF Good, Stops, Fine, Alive, LineFits
  <2> QED
    BY <2>2, <2>3, <2>4, <2>5 DEF Good
<1> QED
  BY <1>1, <1>2

LEMMA ExecuteFine ==
  ASSUME NEW f, NEW w, Fine(f, w), NEW kind \in Kinds, NEW flags \in FlagSets
  PROVE  /\ Fine(Execute(f, kind, flags), FALSE)
         /\ Execute(f, kind, flags).busy
         /\ "forced" \in f.irq /\ "immediate" \in f.cond
              => "forced" \in Execute(f, kind, flags).irq
<1> DEFINE u == Unforce(f)
           c == ClearIRQ(u)
           g == Execute(f, kind, flags)
<1>f. f \in Controllers /\ (f.irq # {} => f.line = 0)
  BY DEF Fine, LineFits
<1>u. /\ u \in Controllers /\ (u.irq # {} => u.line = 0)
      /\ "immediate" \in f.cond => u = f
  BY <1>f, UnforceKeeps DEF Keeps
<1>c. /\ c \in Controllers /\ LineFits(c, FALSE)
      /\ "forced" \in u.irq => "forced" \in c.irq
  <2> HIDE DEF u
  <2> QED
    BY <1>u, ClearIRQFits DEF Keeps
<1>k. kind \in AllKinds /\ flags \in SUBSET Flags /\ "start" \in Steps
  BY ConstantsAssumption DEF Steps
<1>g. g = [c EXCEPT !.cond = {}, !.cmd = kind, !.flags = flags, !.busy = TRUE,
             !.step = "start", !.timer = "pending", !.replace = TRUE]
  BY DEF Execute
<1> HIDE DEF c, u, g
<1>1. g \in Controllers
  BY <1>g, <1>c, <1>k DEF Controllers
<1>2. /\ g.cmd = kind /\ g.busy = TRUE /\ g.step = "start" /\ g.timer = "pending"
      /\ g.irq = c.irq /\ g.line = c.line /\ g.cond = {}
  BY <1>g, <1>c DEF Controllers
<1>3. StepFits(g)
  BY <1>2 DEF StepFits, StepsI, StepsII
<1>4. Fine(g, FALSE)
  BY <1>1, <1>2, <1>3, <1>c, <1>k DEF Fine, Alive, LineFits
<1> QED
  BY <1>4, <1>2, <1>c, <1>u DEF g

LEMMA TypeIVFine ==
  ASSUME NEW f, NEW w, Fine(f, w), NEW cond \in Conds
  PROVE  /\ Fine(TypeIV(f, cond), FALSE)
         /\ "forced" \in f.irq /\ "immediate" \in f.cond => "forced" \in TypeIV(f, cond).irq
<1> DEFINE u == Unforce(f)
           g == [u EXCEPT !.cond = cond, !.motor = @ \/ ~f.busy]
           h == IF "immediate" \in cond THEN SetIRQ(g, "forced") ELSE ClearIRQ(g)
           s == Stopping(h)
           a == After(s, "stop")
<1>f. f \in Controllers /\ (f.irq # {} => f.line = 0) /\ f.busy \in BOOLEAN
  BY DEF Fine, LineFits, Controllers
<1>u. /\ u \in Controllers /\ (u.irq # {} => u.line = 0)
      /\ "immediate" \in f.cond => u = f
  BY <1>f, UnforceKeeps DEF Keeps
<1>c. cond \in SUBSET {"immediate", "index"}
  BY ConstantsAssumption
<1>g. g \in Controllers /\ g.irq = u.irq /\ g.line = u.line
  <2> DEFINE m == u.motor \/ ~f.busy
  <2>1. g = [u EXCEPT !.cond = cond, !.motor = m]
    OBVIOUS
  <2>2. m \in BOOLEAN
    OBVIOUS
  <2> HIDE DEF m, u, g
  <2>3. g \in Controllers
    BY <2>1, <2>2, <1>u, <1>c DEF Controllers
  <2> QED
    BY <2>1, <2>3, <1>u DEF Controllers
<1>h. /\ h \in Controllers /\ LineFits(h, FALSE)
      /\ "forced" \in g.irq => "forced" \in h.irq
  <2> HIDE DEF g
  <2>1. CASE "immediate" \in cond
    <3>1. "forced" \in g.irq => "forced" \in SetIRQ(g, "forced").irq
      BY <1>g DEF SetIRQ, Controllers
    <3>2. SetIRQ(g, "forced") \in Controllers /\ LineFits(SetIRQ(g, "forced"), FALSE)
      BY <1>g, <1>u, SetIRQFits DEF Keeps
    <3> QED
      BY <2>1, <3>1, <3>2
  <2>2. CASE "immediate" \notin cond
    <3>1. /\ ClearIRQ(g) \in Controllers /\ LineFits(ClearIRQ(g), FALSE)
          /\ "forced" \in g.irq => "forced" \in ClearIRQ(g).irq
      BY <1>g, <1>u, ClearIRQFits DEF Keeps
    <3> QED
      BY <2>2, <3>1
  <2> QED
    BY <2>1, <2>2
<1>a. TypeIV(f, cond) = a
  BY DEF TypeIV
<1> HIDE DEF h, g, u
<1>s. /\ s \in Controllers /\ s.cmd = "motor_stop" /\ s.busy = FALSE
      /\ s.irq = h.irq /\ s.line = h.line
  <2>1. s \in Controllers
    BY <1>h DEF Stopping, Controllers, Steps
  <2> QED
    BY <2>1, <1>h DEF Stopping, Controllers
<1> HIDE DEF s
<1>1. /\ a \in Controllers /\ a.cmd = "motor_stop" /\ a.busy = FALSE /\ a.timer = "pending"
      /\ a.irq = h.irq /\ a.line = h.line
  <2>1. a \in Controllers
    BY <1>s DEF After, Controllers, Steps
  <2> QED
    BY <2>1, <1>s DEF After, Controllers
<1>2. "motor_stop" \notin AllKinds
  BY DEF AllKinds, TypeI, TypeII, TypeIII
<1> HIDE DEF a
<1>3. StepFits(a)
  BY <1>1 DEF StepFits, TypeI, TypeII, TypeIII
<1>4. Fine(a, FALSE)
  <2>1. Alive(a, FALSE)
    <3>1. a.busy \in BOOLEAN /\ ~a.busy /\ a.cmd \notin AllKinds
      BY <1>1, <1>2 DEF Controllers
    <3> QED
      BY <1>1, <3>1 DEF Alive
  <2> QED
    BY <1>1, <1>3, <1>h, <2>1 DEF Fine, LineFits
<1> QED
  BY <1>4, <1>1, <1>a, <1>h, <1>g, <1>u

LEMMA ResetFine ==
  ASSUME NEW f \in Controllers
  PROVE  /\ Fine(Reset(f), FALSE) /\ Reset(f).cmd = "none"
         /\ Fine([Reset(f) EXCEPT !.tr = 0, !.dr = 0, !.timer = "none"], FALSE)
         /\ [Reset(f) EXCEPT !.tr = 0, !.dr = 0, !.timer = "none"].cmd = "none"
<1> USE ConstantsAssumption
<1> DEFINE s == Stopping(f)
           r == Reset(f)
           c == [r EXCEPT !.tr = 0, !.dr = 0, !.timer = "none"]
<1>s. s \in Controllers
  BY DEF Stopping, Controllers, Steps
<1>b. s.busy = FALSE
  BY DEF Stopping, Controllers
<1>m. 0 \in 0 .. MaxPulses /\ 0 \in 0 .. Bytes /\ 0 \in 0 .. MaxTR /\ 1 \in 0 .. MaxSR
  BY DEF MaxPulses, Max2
<1>r. r = [s EXCEPT !.cmd = "none", !.motor = FALSE, !.sr = 1, !.cond = {},
                    !.irq = {}, !.line = 1, !.mode = "timer", !.ip = 0, !.left = 0]
  BY DEF Reset
<1>n. "none" \notin AllKinds
  BY DEF AllKinds, TypeI, TypeII, TypeIII
<1> HIDE DEF s, r
<1>1. r \in Controllers
  BY <1>s, <1>m, <1>r DEF Controllers
<1>2. r.cmd = "none" /\ r.busy = FALSE /\ r.irq = {} /\ r.line = 1
  BY <1>s, <1>r, <1>b DEF Controllers
<1>3. c \in Controllers
  BY <1>1, <1>m DEF Controllers
<1>4. c.cmd = "none" /\ c.busy = FALSE /\ c.irq = {} /\ c.line = 1
  BY <1>1, <1>2 DEF Controllers
<1> HIDE DEF c
<1>5. StepFits(r) /\ StepFits(c)
  BY <1>2, <1>4 DEF StepFits, TypeI, TypeII, TypeIII
<1>6. Fine(r, FALSE) /\ Fine(c, FALSE)
  <2>1. Alive(r, FALSE) /\ Alive(c, FALSE)
    <3>1. /\ r.busy \in BOOLEAN /\ ~r.busy /\ r.cmd \notin AllKinds
          /\ c.busy \in BOOLEAN /\ ~c.busy /\ c.cmd \notin AllKinds
      BY <1>1, <1>2, <1>3, <1>4, <1>n DEF Controllers
    <3> QED
      BY <1>2, <1>4, <3>1 DEF Alive
  <2>2. LineFits(r, FALSE) /\ LineFits(c, FALSE)
    BY <1>2, <1>4 DEF LineFits
  <2> QED
    BY <1>1, <1>3, <1>5, <2>1, <2>2 DEF Fine
<1> QED
  BY <1>6, <1>2, <1>4 DEF r, c

-----------------------------------------------------------------------------
(* Other calls change registers and the disk only. *)

LEMMA RegisterFine ==
  ASSUME NEW f, NEW w, Fine(f, w), NEW g, Same(f, g), g.step = f.step, g.timer = f.timer
  PROVE  Fine(g, w) /\ Keeps(f, g)
BY DEF Same, Fine, Keeps, StepFits, Alive, LineFits

LEMMA WriteRegisterFine ==
  ASSUME NEW f, NEW w, Fine(f, w), NEW g,
         \/ \E t \in Tracks : g \in {[f EXCEPT !.tr = t], [f EXCEPT !.dr = t]}
         \/ \E s \in Sectors : g = [f EXCEPT !.sr = s]
         \/ g = [f EXCEPT !.left = 0]
  PROVE  Fine(g, w) /\ g.irq = f.irq /\ g.cmd = f.cmd
<1> USE ConstantsAssumption
<1>f. f \in Controllers
  BY DEF Fine
<1>1. CASE \E t \in Tracks : g = [f EXCEPT !.tr = t]
  <2>0. PICK t \in 0 .. MaxTR : g = [f EXCEPT !.tr = t]
    BY <1>1
  <2>1. Same(f, g)
    BY <2>0, <1>f, SameTypes
  <2>2. g.step = f.step /\ g.timer = f.timer
    BY <2>0, <1>f DEF Controllers
  <2> QED
    BY <2>1, <2>2, RegisterFine DEF Same
<1>2. CASE \E t \in Tracks : g = [f EXCEPT !.dr = t]
  <2>0. PICK t \in 0 .. MaxTR : g = [f EXCEPT !.dr = t]
    BY <1>2
  <2>1. Same(f, g)
    BY <2>0, <1>f, SameTypes
  <2>2. g.step = f.step /\ g.timer = f.timer
    BY <2>0, <1>f DEF Controllers
  <2> QED
    BY <2>1, <2>2, RegisterFine DEF Same
<1>3. CASE \E s \in Sectors : g = [f EXCEPT !.sr = s]
  <2>0. PICK n \in 0 .. MaxSR : g = [f EXCEPT !.sr = n]
    BY <1>3
  <2>1. Same(f, g)
    BY <2>0, <1>f, SameTypes
  <2>2. g.step = f.step /\ g.timer = f.timer
    BY <2>0, <1>f DEF Controllers
  <2> QED
    BY <2>1, <2>2, RegisterFine DEF Same
<1>4. CASE g = [f EXCEPT !.left = 0]
  <2>0. 0 \in 0 .. Bytes
    OBVIOUS
  <2>1. Same(f, g)
    BY <1>4, <1>f, <2>0, SameTypes
  <2>2. g.step = f.step /\ g.timer = f.timer
    BY <1>4, <1>f DEF Controllers
  <2> QED
    BY <2>1, <2>2, RegisterFine DEF Same
<1> QED
  BY <1>1, <1>2, <1>3, <1>4

-----------------------------------------------------------------------------
\* What a step does to the interrupt, beside keeping the invariant.
StepRules ==
  /\ (Update \/ UpdateAtIndex) /\ fdc.busy /\ ~fdc'.busy => "complete" \in fdc'.irq
  /\ "forced" \in fdc.irq /\ "immediate" \in fdc.cond
       => "forced" \in fdc'.irq \/ "hdc" \in fdc'.irq \/ fdc'.cmd = "none"

LEMMA InitIInv == Init => IInv
<1> SUFFICES ASSUME Init PROVE IInv
  OBVIOUS
<1> USE ConstantsAssumption
<1>1. 0 \in 0 .. MaxPulses /\ 0 \in 0 .. Bytes /\ 0 \in 0 .. MaxTR /\ 1 \in 0 .. MaxSR
      /\ 0 \in 0 .. MaxHead
  BY DEF MaxPulses, Max2
<1>2. fdc \in Controllers
  BY <1>1 DEF Init, Controllers, Steps
<1>3. /\ fdc.cmd = "none" /\ ~fdc.busy /\ fdc.irq = {} /\ fdc.line = 1 /\ fdc.busy \in BOOLEAN
      /\ fdc.cmd \notin AllKinds
  BY DEF Init, AllKinds, TypeI, TypeII, TypeIII
<1>4. StepFits(fdc) /\ Alive(fdc, warm) /\ LineFits(fdc, warm)
  BY <1>3 DEF StepFits, Alive, LineFits, AllKinds
<1> QED
  BY <1>2, <1>4 DEF Init, IInv, Fine, Disks

LEMMA TurnStep ==
  ASSUME IInv, Update \/ UpdateAtIndex
  PROVE  IInv' /\ StepRules
<1>i. Fine(fdc, warm) /\ warm \in BOOLEAN
  BY DEF IInv
<1>1. PICK f : Turn(f) /\ (f = fdc \/ f = Pulse(fdc))
  BY DEF Update, UpdateAtIndex
<1>2. /\ Fine(f, warm) /\ f.busy = fdc.busy
      /\ "forced" \in fdc.irq => "forced" \in f.irq
  BY <1>1, <1>i, PulseFine DEF Keeps
<1>3. /\ Fine(fdc', warm')
      /\ f.busy /\ ~fdc'.busy => "complete" \in fdc'.irq
      /\ "forced" \in f.irq => "forced" \in fdc'.irq
  BY <1>1, <1>2, <1>i, TurnFine
<1>4. selected' \in BOOLEAN /\ disk' \in Disks /\ warm' \in BOOLEAN
  BY <1>1 DEF Turn, IInv
<1> QED
  BY <1>2, <1>3, <1>4 DEF IInv, StepRules

LEMMA ProgramStep ==
  ASSUME IInv, Program, ~(Update \/ UpdateAtIndex)
  PROVE  IInv' /\ StepRules
<1> USE ConstantsAssumption
<1>i. Fine(fdc, warm) /\ warm \in BOOLEAN /\ selected \in BOOLEAN /\ disk \in Disks
  BY DEF IInv
<1>f. fdc \in Controllers /\ (fdc.irq # {} => fdc.line = 0) /\ LineFits(fdc, warm)
      /\ fdc.timer \in {"none", "pending", "handler"}
  BY <1>i DEF Fine, LineFits, Controllers
\* Outside the handler, an operation takes the controller after FDC_UpdateAll.
<1>u. \A f \in UpdateAll(fdc) :
        /\ Fine(f, warm) /\ f \in Controllers /\ (f.irq # {} => f.line = 0) /\ LineFits(f, warm)
        /\ f.cond = fdc.cond /\ Keeps(fdc, f)
        /\ "forced" \in fdc.irq => "forced" \in f.irq
  BY <1>i, UpdateAllFine DEF Fine, LineFits
<1>k. ASSUME NEW g, Keeps(fdc, g), LineFits(g, warm)
      PROVE  Fine(g, warm)
  BY <1>k, <1>i, KeepsFine DEF Fine
<1>o. ASSUME Fine(fdc', warm'),
             warm' \in BOOLEAN, selected' \in BOOLEAN, disk' \in Disks,
             "forced" \in fdc.irq /\ "immediate" \in fdc.cond
               => "forced" \in fdc'.irq \/ "hdc" \in fdc'.irq \/ fdc'.cmd = "none"
      PROVE  IInv' /\ StepRules
  BY <1>o DEF IInv, StepRules
<1>1. ASSUME NEW kind \in Kinds, NEW flags \in FlagSets, WriteCommand(kind, flags)
      PROVE  IInv' /\ StepRules
  <2>1. PICK f \in UpdateAll(fdc) :
          IF Accepts(f, kind) THEN fdc' = Execute(f, kind, flags) /\ warm' = FALSE
          ELSE fdc' = f /\ warm' = warm
    BY <1>1 DEF WriteCommand
  <2>2. selected' = selected /\ disk' = disk
    BY <1>1 DEF WriteCommand
  <2>3. CASE fdc' = Execute(f, kind, flags) /\ warm' = FALSE
    <3>1. /\ Fine(fdc', FALSE)
          /\ "forced" \in f.irq /\ "immediate" \in f.cond => "forced" \in fdc'.irq
      BY <2>3, <1>u, ExecuteFine
    <3> QED
      BY <3>1, <2>2, <2>3, <1>i, <1>u, <1>o
  <2>4. CASE fdc' = f /\ warm' = warm
    BY <2>4, <2>2, <1>i, <1>u, <1>o
  <2> QED
    BY <2>1, <2>3, <2>4
<1>2. ASSUME NEW cond \in Conds, ForceInterrupt(cond)
      PROVE  IInv' /\ StepRules
  <2>1. PICK f \in UpdateAll(fdc) : fdc' = TypeIV(f, cond)
    BY <1>2 DEF ForceInterrupt
  <2>2. selected' = selected /\ disk' = disk /\ warm' = FALSE
    BY <1>2 DEF ForceInterrupt
  <2>3. /\ Fine(fdc', FALSE)
        /\ "forced" \in f.irq /\ "immediate" \in f.cond => "forced" \in fdc'.irq
    BY <2>1, <1>u, TypeIVFine
  <2> QED
    BY <2>2, <2>3, <1>i, <1>u, <1>o
<1>3. CASE ReadStatus
  <2>1. PICK f \in UpdateAll(fdc) : fdc' = ClearIRQ(Unforce(f))
    BY <1>3 DEF ReadStatus
  <2>2. selected' = selected /\ disk' = disk /\ warm' = warm
    BY <1>3 DEF ReadStatus
  <2> DEFINE u == Unforce(f)
  <2>3. /\ Keeps(f, u) /\ u \in Controllers /\ (u.irq # {} => u.line = 0)
        /\ "immediate" \in f.cond => u = f
    BY <1>u, UnforceKeeps DEF Keeps
  <2>4. fdc' = ClearIRQ(u)
    BY <2>1
  <2> HIDE DEF u
  <2>5. /\ Keeps(u, fdc') /\ LineFits(fdc', warm)
        /\ "forced" \in u.irq => "forced" \in fdc'.irq
    BY <2>3, <2>4, ClearIRQFits
  <2>6. Keeps(fdc, fdc')
    BY <2>3, <2>5, <1>u DEF Keeps
  <2>7. Fine(fdc', warm)
    BY <2>5, <2>6, <1>k
  <2> QED
    BY <2>2, <2>3, <2>5, <2>7, <1>i, <1>u, <1>o
<1>4. CASE WriteRegister
  <2>1. PICK f \in UpdateAll(fdc) :
          \/ \E t \in Tracks : fdc' \in {[f EXCEPT !.tr = t], [f EXCEPT !.dr = t]}
          \/ \E s \in Sectors : fdc' = [f EXCEPT !.sr = s]
    BY <1>4 DEF WriteRegister
  <2>2. selected' = selected /\ disk' = disk /\ warm' = warm
    BY <1>4 DEF WriteRegister
  <2>3. Fine(fdc', warm) /\ fdc'.irq = f.irq
    BY <2>1, <1>u, WriteRegisterFine
  <2> QED
    BY <2>2, <2>3, <1>i, <1>u, <1>o
<1>5. CASE ResetDMA
  <2>1. fdc' = [fdc EXCEPT !.left = 0] \/ fdc' = fdc
    BY <1>5, <1>f DEF ResetDMA, Controllers
  <2>2. selected' = selected /\ disk' = disk /\ warm' = warm
    BY <1>5 DEF ResetDMA
  <2>3. Fine(fdc', warm) /\ fdc'.irq = fdc.irq
    BY <2>1, <1>i, WriteRegisterFine
  <2> QED
    BY <2>2, <2>3, <1>i, <1>o
<1>6. CASE SetDriveSide
  BY <1>6, <1>i, <1>o DEF SetDriveSide
<1>7. CASE HdcSetIRQ
  <2>1. fdc' = SetIRQ(fdc, "hdc") /\ selected' = selected /\ disk' = disk /\ warm' = warm
    BY <1>7 DEF HdcSetIRQ
  <2>2. Keeps(fdc, fdc') /\ LineFits(fdc', warm)
    BY <2>1, <1>f, SetIRQFits
  <2>3. "hdc" \in fdc'.irq
    BY <2>1, <1>f DEF SetIRQ, Controllers
  <2> QED
    BY <2>1, <2>2, <2>3, <1>i, <1>k, <1>o
<1>8. CASE HdcClearIRQ
  <2>1. fdc' = ClearHdcIRQ(fdc) /\ selected' = selected /\ disk' = disk /\ warm' = warm
    BY <1>8 DEF HdcClearIRQ
  <2>2. /\ Keeps(fdc, fdc') /\ LineFits(fdc', warm)
        /\ "forced" \in fdc.irq => "forced" \in fdc'.irq
    BY <2>1, <1>f, ClearHdcIRQFits
  <2> QED
    BY <2>1, <2>2, <1>i, <1>k, <1>o
<1>9. CASE ScsiClearIRQ
  <2>1. fdc' = ClearIRQ(fdc) /\ selected' = selected /\ disk' = disk /\ warm' = warm
    BY <1>9 DEF ScsiClearIRQ
  <2>2. /\ Keeps(fdc, fdc') /\ LineFits(fdc', warm)
        /\ "forced" \in fdc.irq => "forced" \in fdc'.irq
    BY <2>1, <1>f, ClearIRQFits
  <2> QED
    BY <2>1, <2>2, <1>i, <1>k, <1>o
<1>10. CASE CustomReset
  <2>1. fdc' = Reset(fdc) /\ selected' = selected /\ disk' = disk /\ warm' = FALSE
    BY <1>10 DEF CustomReset
  <2>2. Fine(fdc', FALSE) /\ fdc'.cmd = "none"
    BY <2>1, <1>f, ResetFine
  <2> QED
    BY <2>1, <2>2, <1>i, <1>o
<1> QED
  BY <1>1, <1>2, <1>3, <1>4, <1>5, <1>6, <1>7, <1>8, <1>9, <1>10 DEF Program, Commands

LEMMA UserStep ==
  ASSUME IInv, User, ~(Update \/ UpdateAtIndex)
  PROVE  IInv' /\ StepRules
<1>i. Fine(fdc, warm) /\ warm \in BOOLEAN /\ selected \in BOOLEAN /\ disk \in Disks
  BY DEF IInv
<1>f. fdc \in Controllers
  BY <1>i DEF Fine
<1>1. CASE InsertFloppy \/ EjectFloppy
  <2>1. /\ fdc' = [fdc EXCEPT !.mode = "timer"]
        /\ selected' = selected /\ disk' \in Disks /\ warm' = warm
    BY <1>1 DEF InsertFloppy, EjectFloppy, Disks
  <2>2. Same(fdc, fdc') /\ fdc'.step = fdc.step /\ fdc'.timer = fdc.timer
    BY <2>1, <1>f, SameTypes DEF Controllers
  <2>3. Fine(fdc', warm)
    BY <2>2, <1>i, RegisterFine
  <2> QED
    BY <2>1, <2>2, <2>3, <1>i DEF IInv, StepRules, Same
<1>2. CASE ResetCold
  <2>1. /\ fdc' = [Reset(fdc) EXCEPT !.tr = 0, !.dr = 0, !.timer = "none"]
        /\ selected' = selected /\ disk' = disk /\ warm' = FALSE
    BY <1>2 DEF ResetCold
  <2>2. Fine(fdc', FALSE) /\ fdc'.cmd = "none"
    BY <2>1, <1>f, ResetFine
  <2> QED
    BY <2>1, <2>2, <1>i DEF IInv, StepRules
<1>3. CASE ResetWarm
  <2>1. /\ fdc' = [fdc EXCEPT !.timer = "none", !.line = 0]
        /\ selected' = selected /\ disk' = disk /\ warm' = TRUE
    BY <1>3 DEF ResetWarm
  <2>2. fdc' \in Controllers
    BY <2>1, <1>f DEF Controllers
  <2>3. /\ fdc'.cmd = fdc.cmd /\ fdc'.busy = fdc.busy /\ fdc'.step = fdc.step
        /\ fdc'.irq = fdc.irq /\ fdc'.line = 0 /\ fdc'.cond = fdc.cond
    BY <2>1, <1>f DEF Controllers
  <2>4. Fine(fdc', TRUE)
    BY <2>2, <2>3, <1>i DEF Fine, StepFits, Alive, LineFits
  <2> QED
    BY <2>1, <2>3, <2>4, <1>i DEF IInv, StepRules
<1> QED
  BY <1>1, <1>2, <1>3 DEF User

LEMMA NextIInv ==
  ASSUME IInv, Next
  PROVE  IInv' /\ StepRules
BY TurnStep, ProgramStep, UserStep DEF Next

LEMMA SpecIInv == Spec => []IInv
<1>1. IInv /\ UNCHANGED vars => IInv'
  BY DEF IInv, vars
<1> QED
  BY InitIInv, NextIInv, <1>1, PTL DEF Spec

-----------------------------------------------------------------------------
\* Head, registers and counters stay in their ranges whatever the program
\* writes between two events of a command (FDC_UpdateSeekCmd and the others).
THEOREM TypeCorrect == Spec => []TypeOK
<1>1. IInv => TypeOK
  BY DEF IInv, Fine, Controllers, TypeOK, Disks
<1> QED
  BY SpecIInv, <1>1, PTL

\* A busy controller has its event, for disks and commands of any length.
\* (FDC_InterruptHandler_Update, FDC_ExecuteCommand, FDC_CmdCompleteCommon)
THEOREM BusyHasEvent == Spec => []CommandHasEvent
<1>1. IInv => CommandHasEvent
  BY DEF IInv, Fine, Alive, CommandHasEvent
<1> QED
  BY SpecIInv, <1>1, PTL

\* The line the floppy controller and the hard disks share is low exactly while
\* one of them has an interrupt (FDC_SetIRQ, FDC_ClearIRQ, FDC_ClearHdcIRQ).
THEOREM LineHasSource == Spec => []IrqFollows
<1>1. IInv => IrqFollows
  BY DEF IInv, Fine, LineFits, IrqFollows
<1> QED
  BY SpecIInv, <1>1, PTL

\* A forced interrupt is not lost (FDC_ClearIRQ).
THEOREM ForcedNotLost == Spec => ForcedStays
<1>1. IInv /\ [Next]_vars =>
        [ /\ "forced" \in fdc.irq /\ "forced" \notin fdc'.irq
          /\ "immediate" \in fdc.cond /\ "hdc" \notin fdc'.irq
          => fdc'.cmd = "none"]_vars
  BY NextIInv DEF StepRules, vars
<1> QED
  BY SpecIInv, <1>1, PTL DEF Spec, ForcedStays

\* A command that ends by itself raises the interrupt (FDC_CmdCompleteCommon).
THEOREM CommandInterrupts == Spec => EndsWithIrq
<1>1. IInv /\ [Next]_vars =>
        [fdc.busy /\ ~fdc'.busy /\ (Update \/ UpdateAtIndex) => "complete" \in fdc'.irq]_vars
  BY NextIInv DEF StepRules, vars
<1> QED
  BY SpecIInv, <1>1, PTL DEF Spec, EndsWithIrq
=============================================================================
