-------------------------- MODULE McpServerProofs --------------------------
(***************************************************************************)
(* Proofs about McpServer, for any number of calls, breakpoints and frames *)
(* and any distance between images.                                        *)
(***************************************************************************)
EXTENDS McpServer, FiniteSetTheorems, TLAPS

-----------------------------------------------------------------------------
(* Counting frames up to the next image *)

\* A multiple of e below e and above -e is zero.
LEMMA OnlyZero ==
  ASSUME NEW e \in Nat \ {0}, NEW k \in Int, e * k < e, e * k > 0 - e
  PROVE  k = 0
<1>1. CASE k >= 1
  <2>1. e * k = e + e * (k - 1)
    OBVIOUS
  <2>2. e * (k - 1) >= 0
    BY <1>1
  <2> QED
    BY <2>1, <2>2
<1>2. CASE k <= -1
  <2>1. e * k = e * (k + 1) - e
    OBVIOUS
  <2>2. e * (0 - k - 1) >= 0
    BY <1>2
  <2>3. e * (k + 1) = 0 - e * (0 - k - 1)
    OBVIOUS
  <2> QED
    BY <2>1, <2>2, <2>3
<1> QED
  BY <1>1, <1>2

\* m frames are counted, p of them since the last image, and d more come: there is
\* one more image, or none.
Counted(e, m, p, d) ==
  /\ (m + d) % e = IF p + d = e THEN 0 ELSE p + d
  /\ (p + d) % e = IF p + d = e THEN 0 ELSE p + d
  /\ (p + d) \div e = IF p + d = e THEN 1 ELSE 0

LEMMA CountFrames ==
  ASSUME NEW e \in Nat \ {0}, NEW m \in Nat, NEW p \in Nat, NEW d \in Nat,
         m % e = p, p + d <= e
  PROVE  Counted(e, m, p, d)
<1> DEFINE r == IF p + d = e THEN 0 ELSE p + d
           one == IF p + d = e THEN 1 ELSE 0
           q == m \div e
<1>1. r \in 0 .. e - 1 /\ p + d = e * one + r /\ one \in {0, 1}
  OBVIOUS
<1>2. q \in Nat /\ m = e * q + p
  OBVIOUS
<1>3. \A x \in Nat, i \in Nat : x = e * i + r => x % e = r /\ x \div e = i
  <2> SUFFICES ASSUME NEW x \in Nat, NEW i \in Nat, x = e * i + r
               PROVE  x % e = r /\ x \div e = i
    OBVIOUS
  <2> DEFINE j == x \div e
             s == x % e
  <2>1. j \in Nat /\ s \in 0 .. e - 1 /\ x = e * j + s
    OBVIOUS
  <2> HIDE DEF j, s, r
  <2>2. e * (j - i) = r - s
    <3>1. e * (j - i) = e * j - e * i
      BY <2>1
    <3> QED
      BY <3>1, <2>1, <1>1
  <2>3. j - i = 0
    BY <2>1, <2>2, <1>1, OnlyZero
  <2> QED
    BY <2>1, <2>2, <2>3, <1>1 DEF j, s
<1> HIDE DEF r, one, q
<1>4. m + d = e * (q + one) + r
  BY <1>1, <1>2
<1>5. (m + d) % e = r
  BY <1>1, <1>2, <1>3, <1>4
<1>6. (p + d) % e = r /\ (p + d) \div e = one
  BY <1>1, <1>3
<1> QED
  BY <1>5, <1>6 DEF r, one, Counted

-----------------------------------------------------------------------------
(* Positions in the listing *)

\* The position found is that of an entry with the expression.
LEMMA PositionFound ==
  ASSUME NEW e
  PROVE  /\ Position(e) \in Nat
         /\ Position(e) # 0 => table[Position(e)].expr = e
<1> DEFINE I == {i \in 1 .. Len(table) : table[i].expr = e}
<1>1. Position(e) = IF I # {} THEN Min(I) ELSE 0
  BY DEF Position, SelectInSeq
<1>2. CASE I = {}
  BY <1>1, <1>2
<1>3. CASE I # {}
  <2>1. I \subseteq Nat
    OBVIOUS
  <2>2. PICK m \in I : \A i \in I : <<i, m>> \notin OpToRel(<, Nat)
    BY <2>1, <1>3, WFMin, NatLessThanWellFounded, Zenon
  <2>3. \A i \in I : m <= i
    <3> SUFFICES ASSUME NEW i \in I, ~(m <= i) PROVE FALSE
      OBVIOUS
    <3>1. i \in Nat /\ m \in Nat /\ i < m
      BY <2>1
    <3>2. <<i, m>> \in OpToRel(<, Nat)
      BY <3>1 DEF OpToRel
    <3> QED
      BY <3>2, <2>2
  <2> HIDE DEF I
  <2>4. Min(I) \in I
    BY <2>3 DEF Min
  <2> QED
    BY <1>1, <1>3, <2>4, <2>1 DEF I
<1> QED
  BY <1>2, <1>3

-----------------------------------------------------------------------------
(* The invariant *)

InProgress == {"run", "cleanup", "remove"}

\* The call that holds the session is the only one inside the core.
HoldOk ==
  /\ session \in Calls \cup {Nobody}
  /\ \A c \in Calls : call[c].at \in InProgress => session = c
  /\ session # Nobody => call[session].at \in InProgress
  /\ closed => session = Nobody

CallOk(k) ==
  /\ k \in CallType
  /\ k.at # "run" => k.done = 0
  /\ k.at \in {"run", "cleanup"} => k.id = 0
  /\ k.at \in {"checked", "read"} => k.every \in Every
  /\ k.at = "run" => k.chunk \in Nat /\ k.chunk <= k.left

\* A run that captures does so from its start, and stops at the next image.
RunOk(k, r, s, cl) ==
  k.at = "run" =>
    /\ k.capturing => s # "none" /\ r.pending + k.done + k.chunk <= r.every
    /\ s = "filming" \/ (s # "none" /\ cl) => k.capturing

\* The position read is that of the expression.
PointOk(k) ==
  k.at = "remove" /\ k.id # 0 =>
    k.id \in DOMAIN points /\ table[k.pos].expr = points[k.id]

\* Frames that are not in an image yet.
RecOk(r, s, w) ==
  /\ r \in RecType
  /\ s # "none" => /\ r.every \in Nat \ {0} /\ r.pending < r.every
                   /\ r.emulated % r.every = r.pending
  /\ s = "armed" => r.frames = 0 /\ w = 0

\* Frames of the run in progress that the recorder has not counted.
Uncounted == IF session = Nobody THEN 0 ELSE call[session].done

Sound(r, s, w, d) == s = "filming" => w = (r.frames - 1) * r.every + r.pending + d

Scale(r, s, cl, d, t) ==
  s # "none" /\ cl => r.cyclesLast - r.cycles0 = r.emulated /\ r.cyclesLast + d = t

TypeInv ==
  /\ DOMAIN call = Calls /\ call = [c \in Calls |-> call[c]]
  /\ now \in Nat /\ written \in Nat
  /\ sink \in {"none", "armed", "filming", "failed", "broken"}
  /\ closed \in BOOLEAN /\ clean \in BOOLEAN

IInv ==
  /\ TypeInv /\ HoldOk
  /\ \A c \in Calls : CallOk(call[c]) /\ RunOk(call[c], rec, sink, clean) /\ PointOk(call[c])
  /\ RecOk(rec, sink, written)
  /\ Sound(rec, sink, written, Uncounted)
  /\ Scale(rec, sink, clean, Uncounted, now)

\* What the action properties ask of a step.
StepRules ==
  /\ rec'.frames > rec.frames =>
       rec'.emulated % rec'.every = 0 /\ rec'.frames = rec.frames + 1
  /\ \A c \in Calls : call[c].at = "remove" /\ call[c].id # 0 /\ Len(table') < Len(table) =>
       /\ call[c].id \in DOMAIN points
       /\ table[call[c].pos].expr = points[call[c].id]

\* The second of them follows from the invariant alone.
LEMMA PointsKnown ==
  ASSUME IInv, NEW c \in Calls, call[c].at = "remove", call[c].id # 0
  PROVE  call[c].id \in DOMAIN points /\ table[call[c].pos].expr = points[call[c].id]
BY DEF IInv, PointOk

LEMMA IdleOk == CallOk(Idle) /\ Idle.at = "idle" /\ Idle.done = 0 /\ Idle.id = 0
BY DEF CallOk, Idle, CallType

LEMMA InitIInv == Init => IInv
<1> SUFFICES ASSUME Init PROVE IInv
  OBVIOUS
<1> USE ConstantsAssumption
<1>1. TypeInv /\ HoldOk
  BY IdleOk DEF Init, TypeInv, HoldOk, InProgress
<1>2. \A c \in Calls : CallOk(call[c]) /\ RunOk(call[c], rec, sink, clean) /\ PointOk(call[c])
  BY IdleOk DEF Init, RunOk, PointOk
<1>3. RecOk(rec, sink, written)
  BY DEF Init, RecOk, NoRec, RecType
<1>4. Sound(rec, sink, written, Uncounted) /\ Scale(rec, sink, clean, Uncounted, now)
  BY DEF Init, Sound, Scale
<1> QED
  BY <1>1, <1>2, <1>3, <1>4 DEF IInv

-----------------------------------------------------------------------------
(* Steps that concern one call and leave clock and recorder alone *)

\* A call goes from outside the core to outside it.
LEMMA OutsideStep ==
  ASSUME IInv, NEW c \in Calls, NEW k,
         call[c].at \notin InProgress, k.at \notin InProgress, CallOk(k),
         call' = [call EXCEPT ![c] = k],
         UNCHANGED <<session, now, sink, rec, written, clean, debugger, closed>>
  PROVE  IInv'
<1> USE ConstantsAssumption
<1>1. /\ call'[c] = k /\ \A d \in Calls \ {c} : call'[d] = call[d]
      /\ session # c /\ DOMAIN call' = Calls /\ call' = [d \in Calls |-> call'[d]]
  BY DEF IInv, TypeInv, HoldOk
<1>2. TypeInv' /\ HoldOk'
  BY <1>1 DEF IInv, TypeInv, HoldOk
<1>3. \A d \in Calls : CallOk(call'[d]) /\ RunOk(call'[d], rec, sink, clean) /\ PointOk(call'[d])
  BY <1>1 DEF IInv, RunOk, PointOk, InProgress
<1>4. Uncounted' = Uncounted
  BY <1>1 DEF Uncounted, IInv, HoldOk
<1>5. \A d \in Calls : PointOk(call[d])'
  BY <1>3 DEF PointOk, debugger
<1> QED
  BY <1>2, <1>3, <1>4, <1>5 DEF IInv

-----------------------------------------------------------------------------
(* Steps inside the core: only one call takes part, and what must hold after *)
(* them concerns that call, the recorder and the clock.                      *)

\* d frames are not counted yet.
Recording(d) ==
  /\ RecOk(rec', sink', written')
  /\ Sound(rec', sink', written', d)
  /\ Scale(rec', sink', clean', d, now')
  /\ now' \in Nat /\ written' \in Nat /\ sink' \in {"none", "armed", "filming", "failed", "broken"}
  /\ clean' \in BOOLEAN /\ closed' \in BOOLEAN

Inside(c, k) ==
  /\ session \in {Nobody, c} /\ session' \in {Nobody, c}
  /\ ~closed /\ ~closed'
  /\ call' = [call EXCEPT ![c] = k]
  /\ CallOk(k) /\ (k.at \in InProgress <=> session' = c)
  /\ RunOk(k, rec', sink', clean')
  /\ k.at = "remove" /\ k.id # 0 => k.id \in DOMAIN points' /\ table'[k.pos].expr = points'[k.id]
  /\ Recording(k.done)

LEMMA InsideStep ==
  ASSUME IInv, NEW c \in Calls, NEW k, Inside(c, k)
  PROVE  IInv'
<1> USE ConstantsAssumption
<1>1. /\ call'[c] = k /\ \A d \in Calls \ {c} : call'[d] = call[d]
      /\ DOMAIN call' = Calls /\ call' = [d \in Calls |-> call'[d]]
  BY DEF IInv, TypeInv, Inside
<1>2. \A d \in Calls \ {c} : call'[d].at \notin InProgress
  BY <1>1 DEF IInv, HoldOk, Inside
<1>3. TypeInv'
  BY <1>1 DEF TypeInv, Inside, Recording
<1>4. HoldOk'
  BY <1>1, <1>2 DEF HoldOk, Inside
<1>5. \A d \in Calls : CallOk(call'[d])
  BY <1>1 DEF IInv, Inside
<1>6. \A d \in Calls : RunOk(call'[d], rec', sink', clean')
  BY <1>1, <1>2 DEF RunOk, InProgress, Inside
<1>7. \A d \in Calls : PointOk(call[d])'
  BY <1>1, <1>2 DEF PointOk, InProgress, Inside
<1>8. Uncounted' = k.done
  BY <1>1 DEF Uncounted, CallOk, InProgress, Inside
<1> QED
  BY <1>3, <1>4, <1>5, <1>6, <1>7, <1>8 DEF IInv, Inside, Recording

\* The recorder of a call outside the core is left alone.
LEMMA SameRecorder ==
  ASSUME IInv, UNCHANGED <<now, sink, rec, written, clean, closed>>
  PROVE  Recording(Uncounted)
BY DEF IInv, TypeInv, Recording

LEMMA CallFacts ==
  ASSUME IInv, NEW c \in Calls
  PROVE  /\ CallOk(call[c]) /\ call[c] \in CallType
         /\ call[c].at \in InProgress => session = c /\ ~closed /\ Uncounted = call[c].done
         /\ session = Nobody => call[c].at \notin InProgress /\ Uncounted = 0
         /\ RunOk(call[c], rec, sink, clean) /\ PointOk(call[c])
BY ConstantsAssumption DEF IInv, HoldOk, CallOk, TypeInv, Uncounted

\* The call is over; what it took down in the debugger is not the call's.
LEMMA LeaveStep ==
  ASSUME IInv, NEW c \in Calls, session = c, call[c].done = 0, Leave(c),
         UNCHANGED <<now, sink, rec, written, clean, closed>>
  PROVE  IInv'
<1> USE ConstantsAssumption
<1>1. /\ session' = Nobody /\ call' = [call EXCEPT ![c] = Idle]
      /\ ~closed /\ Uncounted = 0
  BY DEF Leave, IInv, HoldOk, Uncounted
<1>2. Recording(Idle.done)
  BY <1>1, SameRecorder, IdleOk
<1>3. RunOk(Idle, rec', sink', clean') /\ Idle.at \notin InProgress
  BY IdleOk DEF RunOk, InProgress
<1>4. Inside(c, Idle)
  BY <1>1, <1>2, <1>3, IdleOk DEF Inside
<1> QED
  BY <1>4, InsideStep

\* Nobody is inside the core and only the tables of breakpoints change.
LEMMA TablesStep ==
  ASSUME IInv, session = Nobody,
         UNCHANGED <<session, call, now, sink, rec, written, clean, closed>>
  PROVE  IInv'
<1>1. \A c \in Calls : PointOk(call[c])'
  BY CallFacts DEF PointOk, InProgress
<1>2. TypeInv' /\ HoldOk'
  BY DEF IInv, TypeInv, HoldOk
<1>3. Uncounted' = Uncounted
  BY DEF Uncounted
<1> QED
  BY <1>1, <1>2, <1>3 DEF IInv

-----------------------------------------------------------------------------
(* One lemma per tool *)

LEMMA SetBreakpointStep ==
  ASSUME IInv, NEW c \in Calls, NEW e \in Exprs, SetBreakpoint(c, e)
  PROVE  IInv'
BY TablesStep DEF SetBreakpoint, MayRead, recorder, main

LEMMA DebugCommandStep ==
  ASSUME IInv, NEW c \in Calls, DebugCommand(c)
  PROVE  IInv'
BY TablesStep DEF DebugCommand, MayRead, recorder, main

LEMMA ClearBreakpointStep ==
  ASSUME IInv, NEW c \in Calls, NEW id \in 1 .. MaxId, ClearBreakpoint(c, id)
  PROVE  IInv'
<1> USE ConstantsAssumption
<1>1. CASE Position(points[id]) = 0
  BY <1>1, TablesStep DEF ClearBreakpoint, MayRead, recorder, main
<1>2. CASE Position(points[id]) # 0
  <2> DEFINE k == [Idle EXCEPT !.at = "remove", !.id = id, !.pos = Position(points[id])]
  <2>1. /\ call' = [call EXCEPT ![c] = k] /\ session = Nobody /\ session' = c
        /\ ~closed /\ id \in DOMAIN points
        /\ UNCHANGED <<now, sink, rec, written, clean, table, points, closed>>
    BY <1>2 DEF ClearBreakpoint, MayRead, recorder, main
  <2>2. Position(points[id]) \in Nat /\ table[Position(points[id])].expr = points[id]
    BY <1>2, PositionFound
  <2>a. /\ k \in CallType /\ k.at = "remove" /\ k.id = id
        /\ k.pos = Position(points[id]) /\ k.done = 0
    <3> DEFINE pos == Position(points[id])
    <3>1. pos \in Nat /\ id \in Nat
      BY <2>2
    <3>2. k = [Idle EXCEPT !.at = "remove", !.id = id, !.pos = pos]
      OBVIOUS
    <3> HIDE DEF pos, k
    <3>3. k.at = "remove" /\ k.id = id /\ k.pos = pos /\ k.done = 0
      BY <3>2 DEF Idle
    <3>4. k \in CallType
      <4>1. Idle \in CallType
        BY IdleOk DEF CallOk
      <4> QED
        BY <3>1, <3>2, <4>1 DEF CallType
    <3> QED
      BY <3>3, <3>4 DEF pos
  <2>3. CallOk(k) /\ k.at = "remove" /\ k.id = id /\ k.pos = Position(points[id]) /\ k.done = 0
    BY <2>a DEF CallOk
  <2> HIDE DEF k
  <2>4. Uncounted = 0
    BY <2>1, CallFacts
  <2>5. /\ k.at \in InProgress /\ RunOk(k, rec', sink', clean')
        /\ k.id \in DOMAIN points' /\ table'[k.pos].expr = points'[k.id]
    BY <2>1, <2>2, <2>3 DEF InProgress, RunOk
  <2>6. Recording(k.done)
    BY <2>1, <2>3, <2>4, SameRecorder
  <2>7. Inside(c, k)
    BY <2>1, <2>3, <2>5, <2>6 DEF Inside
  <2> QED
    BY <2>7, InsideStep
<1> QED
  BY <1>1, <1>2

LEMMA RemovePositionStep ==
  ASSUME IInv, NEW c \in Calls, RemovePosition(c)
  PROVE  IInv'
<1>1. session = c /\ call[c].done = 0
  BY CallFacts DEF RemovePosition, InProgress, CallOk
<1> QED
  BY <1>1, LeaveStep DEF RemovePosition, recorder, main

LEMMA CleanupStep ==
  ASSUME IInv, NEW c \in Calls, Cleanup(c)
  PROVE  IInv'
<1> USE ConstantsAssumption
<1> DEFINE e == call[c].until
           k == [call[c] EXCEPT !.at = "remove", !.pos = Position(e)]
<1>1. /\ session = c /\ call[c].done = 0 /\ call[c].id = 0 /\ ~closed /\ Uncounted = 0
      /\ call[c] \in CallType
      /\ UNCHANGED <<now, sink, rec, written, clean, table, points, closed>>
  BY CallFacts DEF Cleanup, InProgress, CallOk, recorder, debugger, main
<1>2. CASE ~(Position(e) > 0)
  BY <1>1, <1>2, LeaveStep DEF Cleanup
<1>3. CASE Position(e) > 0
  <2>1. call' = [call EXCEPT ![c] = k] /\ session' = c
    BY <1>1, <1>3 DEF Cleanup, IInv, TypeInv
  <2>2. k \in CallType /\ k.at = "remove" /\ k.id = 0 /\ k.done = 0
    BY <1>1, PositionFound DEF CallType
  <2> HIDE DEF k
  <2>3. CallOk(k) /\ k.at \in InProgress /\ RunOk(k, rec', sink', clean')
    BY <2>2 DEF CallOk, InProgress, RunOk
  <2>4. Recording(k.done)
    BY <1>1, <2>2, SameRecorder
  <2>5. Inside(c, k)
    BY <1>1, <2>1, <2>2, <2>3, <2>4 DEF Inside
  <2> QED
    BY <2>5, InsideStep
<1> QED
  BY <1>2, <1>3

-----------------------------------------------------------------------------
(* Runs *)

\* The first step of a run that captures, or the next one, ends at an image.
LEMMA ChunkFits ==
  ASSUME NEW n \in Nat, NEW r \in RecType, NEW p \in Nat, p <= r.every, rec.every = r.every
  PROVE  Chunk(n, p) \in Nat /\ Chunk(n, p) <= n /\ p + Chunk(n, p) <= r.every
BY DEF Chunk, Smallest, RecType

LEMMA CallFields ==
  ASSUME NEW k \in CallType
  PROVE  /\ [k EXCEPT !.at = "run"] \in CallType
         /\ \A n \in Nat : [k EXCEPT !.left = n] \in CallType
         /\ \A n \in Nat : [k EXCEPT !.chunk = n] \in CallType
         /\ [k EXCEPT !.done = 0] \in CallType
         /\ \A e \in Exprs \cup {NoExpr} : [k EXCEPT !.until = e] \in CallType
         /\ \A b \in BOOLEAN : [k EXCEPT !.capturing = b] \in CallType
<1>1. [k EXCEPT !.at = "run"] \in CallType
  BY DEF CallType
<1>2. \A n \in Nat : [k EXCEPT !.left = n] \in CallType
  BY DEF CallType
<1>3. \A n \in Nat : [k EXCEPT !.chunk = n] \in CallType
  BY DEF CallType
<1>4. \A e \in Exprs \cup {NoExpr} : [k EXCEPT !.until = e] \in CallType
  BY DEF CallType
<1>5. \A b \in BOOLEAN : [k EXCEPT !.capturing = b] \in CallType
  BY DEF CallType
<1>6. [k EXCEPT !.done = 0] \in CallType
  BY DEF CallType
<1> QED
  BY <1>1, <1>2, <1>3, <1>4, <1>5, <1>6

LEMMA StartRunStep ==
  ASSUME IInv, NEW c \in Calls, NEW n \in Lengths, NEW e \in Exprs \cup {NoExpr},
         StartRun(c, n, e)
  PROVE  IInv'
<1> USE ConstantsAssumption
<1> DEFINE ch == IF sink # "none" THEN Chunk(n, rec.pending) ELSE n
           cap == sink # "none"
           k == [Idle EXCEPT !.at = "run", !.left = n, !.until = e,
                             !.capturing = cap, !.chunk = ch]
<1>1. /\ session = Nobody /\ session' = c /\ ~closed /\ call' = [call EXCEPT ![c] = k]
      /\ UNCHANGED <<now, sink, rec, written, clean, closed>>
  BY DEF StartRun, MayRead, recorder, main
<1>2. /\ ch \in Nat /\ ch <= n /\ n \in Nat
      /\ sink # "none" => rec.pending + ch <= rec.every
  <2>1. rec \in RecType /\ (sink # "none" => rec.pending < rec.every)
    BY DEF IInv, RecOk
  <2>2. CASE sink # "none"
    BY <2>1, <2>2, ChunkFits DEF RecType
  <2>3. CASE sink = "none"
    BY <2>3
  <2> QED
    BY <2>2, <2>3
<1>a. cap \in BOOLEAN /\ (cap <=> sink # "none")
  OBVIOUS
<1> HIDE DEF ch, cap
<1>3. /\ k.at = "run" /\ k.id = 0 /\ k.done = 0 /\ k.left = n /\ k.chunk = ch
      /\ k.capturing = cap
  BY DEF Idle
<1>4. k \in CallType
  <2>1. Idle \in CallType
    BY IdleOk DEF CallOk
  <2> DEFINE k1 == [Idle EXCEPT !.at = "run"]
             k2 == [k1 EXCEPT !.left = n]
             k3 == [k2 EXCEPT !.chunk = ch]
             k4 == [k3 EXCEPT !.until = e]
             k5 == [k4 EXCEPT !.capturing = cap]
  <2>2. k5 = k
    BY DEF Idle
  <2> HIDE DEF k
  <2>3. k1 \in CallType
    BY <2>1, CallFields
  <2> HIDE DEF k1
  <2>4. k2 \in CallType
    BY <1>2, <2>3, CallFields
  <2> HIDE DEF k2
  <2>5. k3 \in CallType
    BY <1>2, <2>4, CallFields
  <2> HIDE DEF k3
  <2>6. k4 \in CallType
    BY <2>5, CallFields
  <2> HIDE DEF k4
  <2>7. k5 \in CallType
    BY <1>a, <2>6, CallFields
  <2> QED
    BY <2>2, <2>7
<1> HIDE DEF k
<1>5. CallOk(k) /\ k.at \in InProgress
  BY <1>2, <1>3, <1>4 DEF CallOk, InProgress
<1>6. RunOk(k, rec', sink', clean')
  <2>1. rec \in RecType
    BY DEF IInv, RecOk
  <2>2. k.capturing => sink # "none"
    BY <1>3, <1>a
  <2>3. sink # "none" => k.capturing
    BY <1>3, <1>a
  <2>4. sink # "none" => rec.pending + k.done + k.chunk <= rec.every
    BY <1>2, <1>3, <2>1 DEF RecType
  <2> QED
    BY <1>1, <2>2, <2>3, <2>4 DEF RunOk
<1>7. Recording(k.done)
  BY <1>1, <1>3, SameRecorder, CallFacts
<1>8. Inside(c, k)
  BY <1>1, <1>3, <1>5, <1>6, <1>7 DEF Inside
<1> QED
  BY <1>8, InsideStep

\* What a run in progress knows.
LEMMA RunFacts ==
  ASSUME IInv, NEW c \in Calls, call[c].at = "run"
  PROVE  /\ session = c /\ ~closed /\ Uncounted = call[c].done /\ call[c].id = 0
         /\ call[c] \in CallType /\ call[c].chunk \in Nat /\ call[c].chunk <= call[c].left
         /\ call[c].capturing =>
              sink # "none" /\ rec.pending + call[c].done + call[c].chunk <= rec.every
         /\ sink = "filming" \/ (sink # "none" /\ clean) => call[c].capturing
BY CallFacts DEF InProgress, CallOk, RunOk

LEMMA EmulateFrameStep ==
  ASSUME IInv, NEW c \in Calls, EmulateFrame(c)
  PROVE  IInv'
<1> USE ConstantsAssumption
<1> DEFINE k == [call[c] EXCEPT !.left = @ - 1, !.chunk = @ - 1, !.done = @ + 1]
<1>1. /\ call[c].at = "run" /\ call[c].chunk > 0 /\ now' = now + 1
      /\ written' = (IF Writes THEN written + 1 ELSE written)
      /\ UNCHANGED <<session, sink, rec, clean, closed>>
  BY DEF EmulateFrame, InRun, main
<1>2. call' = [call EXCEPT ![c] = k]
  BY DEF EmulateFrame
<1>3. /\ session = c /\ ~closed /\ Uncounted = call[c].done /\ call[c].id = 0
      /\ call[c] \in CallType /\ call[c].chunk \in Nat /\ call[c].chunk <= call[c].left
      /\ call[c].capturing =>
           sink # "none" /\ rec.pending + call[c].done + call[c].chunk <= rec.every
      /\ sink = "filming" \/ (sink # "none" /\ clean) => call[c].capturing
  BY <1>1, RunFacts
<1>4. /\ k.at = "run" /\ k.id = 0 /\ k.done = call[c].done + 1
      /\ k.left = call[c].left - 1 /\ k.chunk = call[c].chunk - 1
      /\ k.capturing = call[c].capturing
  BY <1>1, <1>3 DEF CallType
<1>5. call[c].done \in Nat /\ call[c].left \in Nat
  BY <1>3 DEF CallType
<1>6. k \in CallType
  <2>1. call[c].left - 1 \in Nat /\ call[c].chunk - 1 \in Int /\ call[c].done + 1 \in Nat
    BY <1>1, <1>3, <1>5
  <2> QED
    BY <2>1, <1>3 DEF CallType
<1> HIDE DEF k
<1>7. CallOk(k) /\ k.at \in InProgress
  BY <1>1, <1>3, <1>4, <1>5, <1>6 DEF CallOk, InProgress
<1>8. /\ now \in Nat /\ written \in Nat /\ rec \in RecType
      /\ sink \in {"none", "armed", "filming", "failed", "broken"} /\ clean \in BOOLEAN /\ closed \in BOOLEAN
      /\ RecOk(rec, sink, written)
      /\ Sound(rec, sink, written, call[c].done)
      /\ Scale(rec, sink, clean, call[c].done, now)
  BY <1>3 DEF IInv, TypeInv, RecOk
<1>9. RunOk(k, rec', sink', clean')
  <2>1. rec.pending \in Nat /\ rec.every \in Nat
    BY <1>8 DEF RecType
  <2> QED
    BY <1>1, <1>3, <1>4, <1>5, <2>1 DEF RunOk
<1>10. RecOk(rec', sink', written')
  BY <1>1, <1>8 DEF RecOk, Writes
<1>11. Sound(rec', sink', written', k.done) /\ Scale(rec', sink', clean', k.done, now')
  <2> DEFINE shown == (rec.frames - 1) * rec.every + rec.pending
  <2>1. /\ rec.emulated \in Nat /\ rec.cyclesLast \in Nat /\ rec.cycles0 \in Nat
        /\ shown \in Int
    BY <1>8 DEF RecType
  <2>2. sink = "filming" => written = shown + call[c].done
    BY <1>8 DEF Sound
  <2> HIDE DEF shown
  <2>3. sink = "filming" => written' = shown + k.done
    BY <1>1, <1>4, <1>5, <1>8, <2>1, <2>2 DEF Writes
  <2>4. Sound(rec', sink', written', k.done)
    BY <1>1, <2>3 DEF Sound, shown
  <2> QED
    BY <1>1, <1>4, <1>5, <1>8, <2>1, <2>4 DEF Scale
<1>12. Recording(k.done)
  BY <1>1, <1>8, <1>10, <1>11 DEF Recording
<1>13. Inside(c, k)
  BY <1>1, <1>2, <1>3, <1>4, <1>7, <1>9, <1>12 DEF Inside
<1> QED
  BY <1>13, InsideStep

\* The debugger has stopped the run.
LEMMA StoppedStep ==
  ASSUME IInv, NEW c \in Calls, Stoppable(c), NEW h \in {"breakpoint", "other"},
         call' = [call EXCEPT ![c].hit = h],
         UNCHANGED <<session, now, sink, rec, written, clean, closed>>
  PROVE  IInv'
<1> USE ConstantsAssumption
<1> DEFINE k == [call[c] EXCEPT !.hit = h]
<1>1. call[c].at = "run" /\ CallOk(call[c]) /\ call[c] \in CallType
  BY CallFacts DEF Stoppable
<1>2. call' = [call EXCEPT ![c] = k]
  OBVIOUS
<1>3. /\ k.at = "run" /\ k.id = call[c].id /\ k.done = call[c].done
      /\ k.left = call[c].left /\ k.chunk = call[c].chunk
      /\ k.capturing = call[c].capturing /\ k \in CallType
  BY <1>1 DEF CallType
<1> HIDE DEF k
<1>4. CallOk(k) /\ k.at \in InProgress /\ RunOk(k, rec', sink', clean') /\ k.id = 0
  BY <1>1, <1>3, CallFacts DEF CallOk, RunOk, InProgress
<1>5. session = c /\ ~closed /\ Recording(k.done)
  BY <1>1, <1>3, SameRecorder, RunFacts
<1>6. Inside(c, k)
  BY <1>2, <1>3, <1>4, <1>5 DEF Inside
<1> QED
  BY <1>6, InsideStep

LEMMA HitStep ==
  ASSUME IInv, NEW c \in Calls, NEW m \in SUBSET Exprs, Hit(c, m)
  PROVE  IInv'
BY StoppedStep DEF Hit, recorder, main

LEMMA OtherStopStep ==
  ASSUME IInv, NEW c \in Calls, OtherStop(c)
  PROVE  IInv'
BY StoppedStep DEF OtherStop, recorder, main

\* The tool leaves the core, or stays to take its breakpoint away.
LEMMA AfterRunStep ==
  ASSUME IInv, NEW c \in Calls, call[c].at = "run", AfterRun(c), Recording(0), UNCHANGED closed
  PROVE  IInv'
<1> USE ConstantsAssumption
<1>1. session = c /\ ~closed /\ call[c] \in CallType
  BY RunFacts
<1> DEFINE k == [Idle EXCEPT !.at = "cleanup", !.until = call[c].until]
<1>2. CASE Leave(c)
  <2>1. RunOk(Idle, rec', sink', clean') /\ Idle.at \notin InProgress
    BY IdleOk DEF RunOk, InProgress
  <2>2. Inside(c, Idle)
    BY <1>1, <1>2, <2>1, IdleOk DEF Inside, Leave
  <2> QED
    BY <2>2, InsideStep
<1>3. CASE call' = [call EXCEPT ![c] = k] /\ UNCHANGED session
  <2>1. k.at = "cleanup" /\ k.id = 0 /\ k.done = 0
    BY DEF Idle
  <2>2. k \in CallType
    <3>1. Idle \in CallType /\ call[c].until \in Exprs \cup {NoExpr}
      BY <1>1, IdleOk DEF CallOk, CallType
    <3> QED
      BY <3>1 DEF CallType
  <2> HIDE DEF k
  <2>3. CallOk(k) /\ k.at \in InProgress /\ RunOk(k, rec', sink', clean')
    BY <2>1, <2>2 DEF CallOk, InProgress, RunOk
  <2>4. Inside(c, k)
    BY <1>1, <1>3, <2>1, <2>3 DEF Inside
  <2> QED
    BY <2>4, InsideStep
<1> QED
  BY <1>2, <1>3 DEF AfterRun

LEMMA RunEndsStep ==
  ASSUME IInv, NEW c \in Calls, RunEnds(c)
  PROVE  IInv'
<1>1. /\ call[c].at = "run" /\ ~call[c].capturing /\ AfterRun(c)
      /\ UNCHANGED <<now, sink, rec, written, clean, closed>>
  BY DEF RunEnds, RunOver, recorder, main
<1>2. Recording(Uncounted) /\ sink # "filming" /\ ~(sink # "none" /\ clean)
  BY <1>1, SameRecorder, RunFacts
<1>3. Recording(0)
  BY <1>1, <1>2 DEF Recording, Sound, Scale
<1> QED
  BY <1>1, <1>3, AfterRunStep

-----------------------------------------------------------------------------
(* Images *)

\* The recorder at the end of a run, or of a step of it.
LEMMA RecorderFacts ==
  ASSUME IInv, NEW c \in Calls, call[c].at = "run", call[c].capturing
  PROVE  /\ rec \in RecType /\ sink \in {"armed", "filming", "failed", "broken"}
         /\ rec.every \in Nat \ {0} /\ rec.pending \in Nat /\ rec.emulated \in Nat
         /\ rec.frames \in Nat /\ rec.cycles0 \in Nat /\ rec.cyclesLast \in Nat
         /\ now \in Nat /\ written \in Nat /\ clean \in BOOLEAN
         /\ call[c].done \in Nat /\ call[c].chunk \in Nat
         /\ rec.pending < rec.every
         /\ rec.pending + call[c].done <= rec.every
         /\ rec.emulated % rec.every = rec.pending
         /\ sink = "armed" => rec.frames = 0 /\ written = 0
         /\ Sound(rec, sink, written, call[c].done)
         /\ Scale(rec, sink, clean, call[c].done, now)
<1>1. /\ sink # "none" /\ rec.pending + call[c].done + call[c].chunk <= rec.every
      /\ Uncounted = call[c].done /\ call[c] \in CallType /\ call[c].chunk \in Nat
  BY RunFacts
<1>2. /\ rec \in RecType /\ rec.every \in Nat \ {0} /\ rec.pending < rec.every
      /\ rec.emulated % rec.every = rec.pending
      /\ sink = "armed" => rec.frames = 0 /\ written = 0
      /\ sink \in {"armed", "filming", "failed", "broken"}
      /\ now \in Nat /\ written \in Nat /\ clean \in BOOLEAN
      /\ Sound(rec, sink, written, call[c].done)
      /\ Scale(rec, sink, clean, call[c].done, now)
  BY <1>1 DEF IInv, RecOk, TypeInv
<1>3. /\ rec.pending \in Nat /\ rec.emulated \in Nat
      /\ rec.frames \in Nat /\ rec.cycles0 \in Nat /\ rec.cyclesLast \in Nat
  BY <1>2 DEF RecType
<1>4. call[c].done \in Nat
  BY <1>1 DEF CallType
<1>5. rec.pending + call[c].done <= rec.every
  BY <1>1, <1>2, <1>3, <1>4
<1> QED
  BY <1>1, <1>2, <1>3, <1>4, <1>5

LEMMA RecFields ==
  ASSUME NEW r \in RecType, NEW n \in Nat
  PROVE  /\ [r EXCEPT !.emulated = n] \in RecType
         /\ [r EXCEPT !.cyclesLast = n] \in RecType
         /\ [r EXCEPT !.pending = n] \in RecType
         /\ [r EXCEPT !.frames = n] \in RecType
<1>1. [r EXCEPT !.emulated = n] \in RecType
  BY DEF RecType
<1>2. [r EXCEPT !.cyclesLast = n] \in RecType
  BY DEF RecType
<1>3. [r EXCEPT !.pending = n] \in RecType
  BY DEF RecType
<1>4. [r EXCEPT !.frames = n] \in RecType
  BY DEF RecType
<1> QED
  BY <1>1, <1>2, <1>3, <1>4

\* The fields after d frames.
LEMMA ImagesFields ==
  ASSUME NEW d \in Nat, rec \in RecType, now \in Nat, rec.every \in Nat \ {0},
         rec.emulated % rec.every = rec.pending, rec.pending + d <= rec.every,
         d > 0, rec' = Images(d)
  PROVE  /\ rec' \in RecType /\ rec'.every = rec.every
         /\ rec'.emulated = rec.emulated + d
         /\ rec'.cyclesLast = now /\ rec'.cycles0 = rec.cycles0
         /\ rec'.pending = IF rec.pending + d = rec.every THEN 0 ELSE rec.pending + d
         /\ rec'.emulated % rec.every = rec'.pending
         /\ rec'.frames = rec.frames + IF rec.pending + d = rec.every THEN 1 ELSE 0
<1> DEFINE e == rec.every
           q == (rec.pending + d) \div e
           r == (rec.pending + d) % e
<1>1. /\ rec.pending \in Nat /\ rec.emulated \in Nat /\ rec.frames \in Nat
      /\ rec.cycles0 \in Nat /\ rec.cyclesLast \in Nat
  BY DEF RecType
<1>2. /\ (rec.emulated + d) % e = IF rec.pending + d = e THEN 0 ELSE rec.pending + d
      /\ r = IF rec.pending + d = e THEN 0 ELSE rec.pending + d
      /\ q = IF rec.pending + d = e THEN 1 ELSE 0
  <2> DEFINE m == rec.emulated
             p == rec.pending
  <2>1. e \in Nat \ {0} /\ m \in Nat /\ p \in Nat /\ m % e = p /\ p + d <= e
    BY <1>1
  <2> HIDE DEF m, p, e
  <2>2. Counted(e, m, p, d)
    BY <2>1, CountFrames
  <2> QED
    BY <2>2 DEF m, p, Counted
<1>3. /\ rec' = [rec EXCEPT !.emulated = rec.emulated + d, !.cyclesLast = now,
                            !.pending = r, !.frames = rec.frames + q]
  BY DEF Images, RecType
<1>4. q \in Nat /\ r \in Nat
  BY <1>1, <1>2
<1> HIDE DEF q, r
<1>5. /\ rec'.every = rec.every /\ rec'.emulated = rec.emulated + d
      /\ rec'.cyclesLast = now /\ rec'.cycles0 = rec.cycles0
      /\ rec'.pending = r /\ rec'.frames = rec.frames + q
  BY <1>3 DEF RecType
<1>6. rec' \in RecType
  <2> DEFINE r1 == [rec EXCEPT !.emulated = rec.emulated + d]
             r2 == [r1 EXCEPT !.cyclesLast = now]
             r3 == [r2 EXCEPT !.pending = r]
             r4 == [r3 EXCEPT !.frames = rec.frames + q]
  <2>1. r4 = rec'
    BY <1>3 DEF RecType
  <2>2. rec.emulated + d \in Nat /\ rec.frames + q \in Nat
    BY <1>1, <1>4
  <2>3. r1 \in RecType
    BY <2>2, RecFields
  <2> HIDE DEF r1
  <2>4. r2 \in RecType
    BY <2>3, RecFields
  <2> HIDE DEF r2
  <2>5. r3 \in RecType
    BY <1>4, <2>4, RecFields
  <2> HIDE DEF r3
  <2>6. r4 \in RecType
    BY <2>2, <2>5, RecFields
  <2> QED
    BY <2>1, <2>6
<1> QED
  BY <1>2, <1>5, <1>6

\* VideoRecorder.advanced leaves the recorder as it should be.
LEMMA AdvancedRecords ==
  ASSUME IInv, NEW c \in Calls, Advanced(c)
  PROVE  /\ Recording(0) /\ sink' # "none"
         /\ rec'.pending \in Nat /\ rec'.pending < rec'.every
         /\ rec'.frames > rec.frames =>
              rec'.emulated % rec'.every = 0 /\ rec'.frames = rec.frames + 1
<1> DEFINE d == call[c].done
           e == rec.every
<1>1. /\ call[c].at = "run" /\ call[c].capturing
      /\ rec' = IF d > 0 THEN Images(d) ELSE rec
      /\ sink' = IF rec'.frames > rec.frames /\ sink = "armed" THEN "filming" ELSE sink
      /\ sink \in {"failed", "broken"} => rec'.frames = rec.frames
      /\ UNCHANGED <<now, written, clean, closed>>
  BY DEF Advanced, RunOver, main
<1>2. /\ rec \in RecType /\ sink \in {"armed", "filming", "failed", "broken"}
      /\ e \in Nat \ {0} /\ rec.pending \in Nat /\ rec.emulated \in Nat
      /\ rec.frames \in Nat /\ rec.cycles0 \in Nat /\ rec.cyclesLast \in Nat
      /\ now \in Nat /\ written \in Nat /\ clean \in BOOLEAN
      /\ d \in Nat /\ rec.pending < e /\ rec.pending + d <= e
      /\ rec.emulated % e = rec.pending
      /\ sink = "armed" => rec.frames = 0 /\ written = 0
      /\ Sound(rec, sink, written, d) /\ Scale(rec, sink, clean, d, now)
  BY <1>1, RecorderFacts
<1>3. closed' \in BOOLEAN
  BY <1>1 DEF IInv, TypeInv
<1> HIDE DEF d
<1>4. CASE d = 0
  <2>1. rec' = rec /\ sink' = sink
    BY <1>1, <1>2, <1>4
  <2>2. RecOk(rec', sink', written')
    BY <1>1, <1>2, <2>1 DEF RecOk
  <2>3. Sound(rec', sink', written', 0) /\ Scale(rec', sink', clean', 0, now')
    BY <1>1, <1>2, <1>4, <2>1
  <2> QED
    BY <1>1, <1>2, <1>3, <2>1, <2>2, <2>3 DEF Recording
<1>5. CASE d > 0
  <2>1. /\ rec' \in RecType /\ rec'.every = e
        /\ rec'.emulated = rec.emulated + d
        /\ rec'.cyclesLast = now /\ rec'.cycles0 = rec.cycles0
        /\ rec'.pending = IF rec.pending + d = e THEN 0 ELSE rec.pending + d
        /\ rec'.emulated % e = rec'.pending
        /\ rec'.frames = rec.frames + IF rec.pending + d = e THEN 1 ELSE 0
    BY <1>1, <1>2, <1>5, ImagesFields
  <2> HIDE DEF e
  <2>2. /\ rec'.pending \in Nat /\ rec'.pending < e
        /\ rec'.frames > rec.frames <=> rec.pending + d = e
    BY <1>2, <2>1
  <2>3. /\ sink' \in {"armed", "filming", "failed", "broken"}
        /\ sink' = "armed" => sink = "armed" /\ rec.pending + d # e
        /\ sink' = "filming" => sink = "filming" \/ (sink = "armed" /\ rec.pending + d = e)
    BY <1>1, <1>2, <2>2
  <2>4. RecOk(rec', sink', written')
    <3>1. sink' = "armed" => rec'.frames = 0 /\ written' = 0
      BY <1>1, <1>2, <2>1, <2>3
    <3> QED
      BY <1>2, <2>1, <2>2, <3>1 DEF RecOk
  <2>5. Sound(rec', sink', written', 0)
    <3> SUFFICES ASSUME sink' = "filming" PROVE written' = (rec'.frames - 1) * rec'.every + rec'.pending
      BY <1>2, <2>1 DEF Sound
    <3> DEFINE last == (rec.frames - 1) * e
    <3>a. last \in Int /\ rec.frames * e = last + e
      BY <1>2
    <3>b. (rec.frames + 1 - 1) * e = rec.frames * e
      BY <1>2
    <3>1. CASE sink = "filming"
      <4>1. written' = last + rec.pending + d
        BY <1>1, <1>2, <3>1 DEF Sound, e
      <4> HIDE DEF last
      <4>2. CASE rec.pending + d = e
        <5>1. written' = last + e
          <6>1. rec.pending \in Nat /\ d \in Nat /\ last \in Int
            BY <1>2, <3>a
          <6>2. written' = last + (rec.pending + d)
            BY <4>1, <6>1
          <6> QED
            BY <4>2, <6>2
        <5>2. rec'.frames = rec.frames + 1 /\ rec'.every = e /\ rec'.pending = 0
          BY <2>1, <4>2
        <5>3. (rec'.frames - 1) * rec'.every = last + e
          <6>1. rec'.frames - 1 = rec.frames
            BY <1>2, <5>2
          <6> DEFINE f == rec'.frames - 1
                     v == rec'.every
          <6>2. f = rec.frames /\ v = e
            BY <5>2, <6>1
          <6> HIDE DEF f, v
          <6>3. f * v = rec.frames * e
            BY <6>2
          <6>4. f * v = last + e
            BY <3>a, <6>3
          <6> QED
            BY <6>4 DEF f, v
        <5> QED
          BY <1>2, <3>a, <5>1, <5>2, <5>3
      <4>3. CASE rec.pending + d # e
        <5>1. (rec'.frames - 1) * rec'.every = last /\ rec'.pending = rec.pending + d
          BY <1>2, <2>1, <4>3 DEF last
        <5> QED
          BY <1>2, <3>a, <4>1, <5>1
      <4> QED
        BY <4>2, <4>3
    <3>2. CASE sink = "armed" /\ rec.pending + d = e
      <4>1. written' = 0 /\ rec'.frames = 1 /\ rec'.pending = 0
        BY <1>1, <1>2, <2>1, <3>2
      <4> QED
        BY <1>2, <2>1, <4>1
    <3> QED
      BY <2>3, <3>1, <3>2
  <2>6. Scale(rec', sink', clean', 0, now')
    <3> SUFFICES ASSUME clean
                 PROVE  rec'.cyclesLast - rec'.cycles0 = rec'.emulated /\ rec'.cyclesLast = now'
      BY <1>1, <1>2, <2>1 DEF Scale
    <3>1. rec.cyclesLast - rec.cycles0 = rec.emulated /\ rec.cyclesLast + d = now
      BY <1>2 DEF Scale
    <3>2. /\ rec'.cyclesLast = now /\ rec'.cycles0 = rec.cycles0 /\ now' = now
          /\ rec'.emulated = rec.emulated + d /\ d \in Nat /\ now \in Nat
          /\ rec.emulated \in Nat /\ rec.cycles0 \in Nat /\ rec.cyclesLast \in Nat
      BY <1>1, <1>2, <2>1
    <3> QED
      BY <3>1, <3>2
  <2> QED
    BY <1>1, <1>2, <1>3, <2>1, <2>2, <2>3, <2>4, <2>5, <2>6 DEF Recording
<1> QED
  BY <1>2, <1>4, <1>5

LEMMA AdvancedStep ==
  ASSUME IInv, NEW c \in Calls, Advanced(c)
  PROVE  IInv'
<1> USE ConstantsAssumption
<1> DEFINE ch == Chunk(call[c].left, rec'.pending)
           k == [call[c] EXCEPT !.done = 0, !.chunk = ch]
<1>1. /\ call[c].at = "run" /\ call[c].capturing /\ UNCHANGED closed
      /\ AfterRun(c) \/ (call' = [call EXCEPT ![c] = k] /\ UNCHANGED session)
  BY DEF Advanced, RunOver, main
<1>2. /\ Recording(0) /\ sink' # "none"
      /\ rec'.pending \in Nat /\ rec'.pending < rec'.every
  BY AdvancedRecords
<1>3. CASE AfterRun(c)
  BY <1>1, <1>2, <1>3, AfterRunStep
<1>4. CASE call' = [call EXCEPT ![c] = k] /\ UNCHANGED session
  <2>1. session = c /\ ~closed /\ call[c].id = 0 /\ call[c] \in CallType
    BY <1>1, RunFacts
  <2>2. ch \in Nat /\ ch <= call[c].left /\ rec'.pending + ch <= rec'.every
    <3>1. rec'.every = rec.every /\ rec' \in RecType /\ call[c].left \in Nat
      <4>1. rec \in RecType
        BY DEF IInv, RecOk
      <4>2. rec' = rec \/ rec' = Images(call[c].done)
        BY DEF Advanced
      <4>3. rec'.every = rec.every
        BY <4>1, <4>2 DEF Images, RecType
      <4> QED
        BY <1>2, <2>1, <4>3 DEF Recording, RecOk, CallType
    <3>2. rec'.pending <= rec'.every
      BY <1>2, <3>1 DEF RecType
    <3> QED
      BY <1>2, <3>1, <3>2, ChunkFits
  <2> HIDE DEF ch
  <2>3. /\ k.at = "run" /\ k.id = 0 /\ k.done = 0 /\ k.left = call[c].left /\ k.chunk = ch
        /\ k.capturing = call[c].capturing
    BY <1>1, <2>1, <2>2 DEF CallType
  <2>a. k \in CallType
    <3> DEFINE k1 == [call[c] EXCEPT !.done = 0]
               k2 == [k1 EXCEPT !.chunk = ch]
    <3>1. k2 = k
      BY <2>1 DEF CallType
    <3>2. k1 \in CallType
      BY <2>1, CallFields
    <3> HIDE DEF k1
    <3>3. k2 \in CallType
      BY <2>2, <3>2, CallFields
    <3> QED
      BY <3>1, <3>3
  <2> HIDE DEF k
  <2>4. CallOk(k) /\ k.at \in InProgress
    BY <2>2, <2>3, <2>a DEF CallOk, InProgress
  <2>5. RunOk(k, rec', sink', clean')
    <3>1. rec'.every \in Nat
      BY <1>2 DEF Recording, RecOk
    <3> QED
      BY <1>1, <1>2, <2>2, <2>3, <3>1 DEF RunOk
  <2>6. Inside(c, k)
    BY <1>1, <1>2, <1>4, <2>1, <2>3, <2>4, <2>5 DEF Inside
  <2> QED
    BY <2>6, InsideStep
<1> QED
  BY <1>1, <1>3, <1>4

LEMMA EncoderFailsStep ==
  ASSUME IInv, NEW c \in Calls, EncoderFails(c)
  PROVE  IInv' /\ rec'.frames = rec.frames
<1> USE ConstantsAssumption
<1> DEFINE d == call[c].done
           e == rec.every
           left == rec.pending + d - e
<1>1. /\ call[c].at = "run" /\ call[c].capturing /\ d > 0 /\ rec.pending + d >= e
      /\ rec' = [rec EXCEPT !.emulated = @ + d, !.cyclesLast = now, !.pending = @ + d - rec.every]
      /\ sink' \in AfterFailure /\ Leave(c)
      /\ UNCHANGED <<now, written, clean, closed>>
  BY DEF EncoderFails, RunOver, main
<1>2. /\ rec \in RecType /\ sink \in {"armed", "filming", "failed", "broken"}
      /\ e \in Nat \ {0} /\ rec.pending \in Nat /\ rec.emulated \in Nat
      /\ rec.frames \in Nat /\ rec.cycles0 \in Nat /\ rec.cyclesLast \in Nat
      /\ now \in Nat /\ written \in Nat /\ clean \in BOOLEAN
      /\ d \in Nat /\ rec.pending < e /\ rec.pending + d <= e
      /\ rec.emulated % e = rec.pending
      /\ Scale(rec, sink, clean, d, now)
  BY <1>1, RecorderFacts
<1>a. /\ sink' \in {"armed", "failed", "broken"}
      /\ sink' = "armed" => rec.frames = 0 /\ written = 0
  BY <1>1, RecorderFacts DEF AfterFailure
<1>3. left = 0 /\ (rec.emulated + d) % e = 0
  <2>1. Counted(e, rec.emulated, rec.pending, d)
    BY <1>2, CountFrames
  <2> QED
    BY <1>1, <1>2, <2>1 DEF Counted
<1>4. rec' = [rec EXCEPT !.emulated = rec.emulated + d, !.cyclesLast = now, !.pending = 0]
  BY <1>1, <1>2, <1>3 DEF RecType
<1> HIDE DEF d
<1>5. /\ rec' \in RecType /\ rec'.every = rec.every /\ rec'.emulated = rec.emulated + d
      /\ rec'.pending = 0 /\ rec'.cyclesLast = now /\ rec'.cycles0 = rec.cycles0
      /\ rec'.frames = rec.frames
  <2> DEFINE n == rec.emulated + d
             r1 == [rec EXCEPT !.emulated = n]
             r2 == [r1 EXCEPT !.cyclesLast = now]
             r3 == [r2 EXCEPT !.pending = 0]
  <2>1. n \in Nat /\ now \in Nat /\ rec \in RecType
    BY <1>2
  <2>2. r3 = rec'
    BY <1>2, <1>4 DEF RecType
  <2> HIDE DEF n
  <2>3. /\ r3.every = rec.every /\ r3.emulated = n /\ r3.pending = 0
        /\ r3.cyclesLast = now /\ r3.cycles0 = rec.cycles0 /\ r3.frames = rec.frames
    BY <2>1 DEF RecType
  <2>4. r1 \in RecType
    BY <2>1, RecFields
  <2> HIDE DEF r1
  <2>5. r2 \in RecType
    BY <2>1, <2>4, RecFields
  <2> HIDE DEF r2
  <2>6. r3 \in RecType
    BY <2>5, RecFields
  <2> HIDE DEF r3
  <2> QED
    BY <2>2, <2>3, <2>6 DEF n
<1>6. RecOk(rec', sink', written')
  BY <1>1, <1>2, <1>a, <1>3, <1>5 DEF RecOk
<1>7. Sound(rec', sink', written', 0)
  BY <1>a DEF Sound
<1>8. Scale(rec', sink', clean', 0, now')
  BY <1>1, <1>2, <1>5 DEF Scale
<1>9. Recording(0)
  BY <1>1, <1>2, <1>a, <1>6, <1>7, <1>8 DEF Recording, IInv, TypeInv
<1>10. RunOk(Idle, rec', sink', clean') /\ Idle.at \notin InProgress
  BY IdleOk DEF RunOk, InProgress
<1>11. Inside(c, Idle)
  BY <1>1, <1>9, <1>10, IdleOk, RunFacts DEF Inside, Leave
<1> QED
  BY <1>5, <1>11, InsideStep

-----------------------------------------------------------------------------
(* Captures, outside the session and inside it *)

LEMMA ArmChecksStep ==
  ASSUME IInv, NEW c \in Calls, NEW e \in Every, ArmChecks(c, e)
  PROVE  IInv'
<1> USE ConstantsAssumption
<1> DEFINE k == [Idle EXCEPT !.at = "checked", !.every = e]
<1>1. k.at = "checked" /\ k.every = e /\ k.done = 0 /\ k.id = 0 /\ k \in CallType
  <2>1. k.at = "checked" /\ k.every = e /\ k.done = 0 /\ k.id = 0
    BY DEF Idle
  <2>2. Idle \in CallType /\ e \in Nat
    BY IdleOk DEF CallOk
  <2>3. k \in CallType
    BY <2>2 DEF CallType
  <2> QED
    BY <2>1, <2>3
<1>2. /\ call' = [call EXCEPT ![c] = k] /\ call[c].at = "idle"
      /\ UNCHANGED <<session, now, sink, rec, written, clean, debugger, closed>>
  BY DEF ArmChecks, recorder, main
<1> HIDE DEF k
<1>3. CallOk(k) /\ k.at \notin InProgress /\ call[c].at \notin InProgress
  BY <1>1, <1>2 DEF CallOk, InProgress
<1> QED
  BY <1>2, <1>3, OutsideStep

LEMMA ArmReadsStep ==
  ASSUME IInv, NEW c \in Calls, ArmReads(c)
  PROVE  IInv'
<1> USE ConstantsAssumption
<1> DEFINE k == [call[c] EXCEPT !.at = "read", !.cycles = now]
<1>1. /\ call[c].at = "checked" /\ call[c].at \notin InProgress
      /\ call' = [call EXCEPT ![c] = Idle] \/ call' = [call EXCEPT ![c] = k]
      /\ UNCHANGED <<session, now, sink, rec, written, clean, debugger, closed>>
  BY DEF ArmReads, recorder, main, InProgress
<1>2. CASE call' = [call EXCEPT ![c] = Idle]
  <2>1. Idle.at \notin InProgress
    BY IdleOk DEF InProgress
  <2> QED
    BY <1>1, <1>2, <2>1, IdleOk, OutsideStep
<1>3. CASE call' = [call EXCEPT ![c] = k]
  <2>1. /\ call[c] \in CallType /\ call[c].done = 0 /\ call[c].every \in Every /\ now \in Nat
    BY <1>1, CallFacts DEF CallOk, IInv, TypeInv
  <2>2. k.at = "read" /\ k.done = 0 /\ k.every = call[c].every /\ k.id = call[c].id
    BY <2>1 DEF CallType
  <2>3. k \in CallType
    BY <2>1 DEF CallType
  <2> HIDE DEF k
  <2>4. CallOk(k) /\ k.at \notin InProgress
    BY <2>1, <2>2, <2>3 DEF CallOk, InProgress
  <2> QED
    BY <1>1, <1>3, <2>4, OutsideStep
<1> QED
  BY <1>1, <1>2, <1>3

\* A run in progress is none of the new capture.
LEMMA ArmStep ==
  ASSUME IInv, NEW c \in Calls, Arm(c)
  PROVE  IInv' /\ ~(rec'.frames > rec.frames)
<1> USE ConstantsAssumption
<1>0. /\ call[c].at = "read" /\ call[c].at \notin InProgress /\ call' = [call EXCEPT ![c] = Idle]
      /\ UNCHANGED <<session, now, debugger, closed>>
  BY DEF Arm, main, InProgress
<1>i. Idle.at \notin InProgress /\ CallOk(Idle)
  BY IdleOk DEF InProgress
<1>r. rec \in RecType
  BY DEF IInv, RecOk
<1>1. CASE sink # "none"
  <2>1. UNCHANGED <<sink, rec, written, clean>>
    BY <1>1 DEF Arm, recorder
  <2>2. IInv'
    BY <1>0, <1>i, <2>1, OutsideStep
  <2> QED
    BY <1>r, <2>1, <2>2 DEF RecType
<1>2. CASE sink = "none"
  <2>1. /\ sink' = "armed" /\ rec' = Armed(c) /\ written' = 0
        /\ clean' = (call[c].cycles = now /\ \A d \in Calls : call[d].at # "run")
    BY <1>2 DEF Arm
  <2>2. /\ call'[c] = Idle /\ \A d \in Calls \ {c} : call'[d] = call[d]
        /\ DOMAIN call' = Calls /\ call' = [d \in Calls |-> call'[d]]
        /\ session # c
    BY <1>0 DEF IInv, TypeInv, HoldOk
  <2>3. /\ call[c] \in CallType /\ call[c].every \in Every
        /\ call[c].every \in Nat \ {0} /\ call[c].cycles \in Nat
    BY <1>0, CallFacts DEF CallOk, CallType
  <2>4. /\ rec' \in RecType /\ rec'.every = call[c].every /\ rec'.pending = 0
        /\ rec'.emulated = 0 /\ rec'.frames = 0
        /\ rec'.cycles0 = call[c].cycles /\ rec'.cyclesLast = call[c].cycles
    BY <2>1, <2>3 DEF Armed, RecType
  <2>5. TypeInv' /\ HoldOk'
    <3>1. clean' \in BOOLEAN
      BY <2>1
    <3>2. HoldOk'
      BY <1>0, <1>i, <2>2 DEF IInv, HoldOk
    <3> QED
      BY <1>0, <2>1, <2>2, <3>1, <3>2 DEF IInv, TypeInv
  <2>6. \A d \in Calls : CallOk(call'[d])
    BY <1>i, <2>2 DEF IInv
  <2>7. \A d \in Calls : PointOk(call[d])'
    <3>1. UNCHANGED <<table, points>>
      BY <1>0 DEF debugger
    <3>2. \A d \in Calls : PointOk(call'[d])
      BY <1>i, <2>2 DEF IInv, PointOk, InProgress
    <3> QED
      BY <3>1, <3>2 DEF PointOk
  <2>8. \A d \in Calls : RunOk(call'[d], rec', sink', clean')
    <3> SUFFICES ASSUME NEW d \in Calls, call'[d].at = "run"
                 PROVE  RunOk(call'[d], rec', sink', clean')
      BY DEF RunOk
    <3>1. d # c /\ call'[d] = call[d] /\ call[d].at = "run"
      BY <1>i, <2>2 DEF InProgress
    <3>2. ~call[d].capturing
      BY <1>2, <3>1, RunFacts
    <3>3. ~clean'
      BY <2>1, <3>1
    <3> QED
      BY <2>1, <3>1, <3>2, <3>3 DEF RunOk
  <2>9. RecOk(rec', sink', written') /\ Sound(rec', sink', written', Uncounted')
    <3>1. 0 % call[c].every = 0
      BY <2>3
    <3> QED
      BY <2>1, <2>3, <2>4, <3>1 DEF RecOk, Sound
  <2>10. Scale(rec', sink', clean', Uncounted', now')
    <3> SUFFICES ASSUME clean' PROVE rec'.cyclesLast - rec'.cycles0 = rec'.emulated
                                     /\ rec'.cyclesLast + Uncounted' = now'
      BY DEF Scale
    <3>1. call[c].cycles = now /\ \A d \in Calls : call[d].at # "run"
      BY <2>1
    <3>2. Uncounted' = 0
      <4>1. CASE session = Nobody
        BY <1>0, <4>1 DEF Uncounted
      <4>2. CASE session # Nobody
        <5>1. session \in Calls /\ call'[session] = call[session] /\ session' = session
          BY <1>0, <2>2, <4>2 DEF IInv, HoldOk
        <5>2. call[session].done = 0
          BY <3>1, <5>1, CallFacts DEF CallOk
        <5> QED
          BY <4>2, <5>1, <5>2 DEF Uncounted
      <4> QED
        BY <4>1, <4>2
    <3> QED
      BY <1>0, <2>3, <2>4, <3>1, <3>2
  <2>11. IInv'
    BY <2>5, <2>6, <2>7, <2>8, <2>9, <2>10 DEF IInv
  <2> QED
    BY <1>r, <2>4, <2>11 DEF RecType
<1> QED
  BY <1>1, <1>2 DEF IInv, TypeInv

LEMMA StopCaptureStep ==
  ASSUME IInv, NEW c \in Calls, StopCapture(c)
  PROVE  IInv'
<1> USE ConstantsAssumption
<1>1. /\ session = Nobody /\ session' = Nobody /\ sink' = "none"
      /\ UNCHANGED <<call, now, rec, written, clean, debugger, closed>>
  BY DEF StopCapture, MayRead, main
<1>2. TypeInv' /\ HoldOk'
  BY <1>1 DEF IInv, TypeInv, HoldOk
<1>3. \A d \in Calls : CallOk(call'[d]) /\ RunOk(call'[d], rec', sink', clean') /\ PointOk(call[d])'
  BY <1>1, CallFacts DEF RunOk, PointOk, InProgress, debugger
<1>4. /\ RecOk(rec', sink', written') /\ Sound(rec', sink', written', Uncounted')
      /\ Scale(rec', sink', clean', Uncounted', now')
  BY <1>1 DEF IInv, RecOk, Sound, Scale
<1> QED
  BY <1>2, <1>3, <1>4 DEF IInv

-----------------------------------------------------------------------------
(* The end of the server *)

LEMMA DieStep ==
  ASSUME IInv, Die
  PROVE  IInv' /\ rec'.frames = 0
<1> USE ConstantsAssumption
<1>1. /\ session' = Nobody /\ call' = [c \in Calls |-> Idle] /\ now' = 0 /\ sink' = "none"
      /\ rec' = NoRec /\ written' = 0 /\ clean' = FALSE /\ closed' = FALSE
  BY DEF Die
<1>2. TypeInv' /\ HoldOk'
  BY <1>1, IdleOk DEF TypeInv, HoldOk, InProgress
<1>3. \A c \in Calls : CallOk(call[c])' /\ RunOk(call[c], rec, sink, clean)' /\ PointOk(call[c])'
  BY <1>1, IdleOk DEF CallOk, RunOk, PointOk
<1>4. RecOk(rec', sink', written') /\ rec'.frames = 0
  BY <1>1 DEF RecOk, NoRec, RecType
<1>5. Sound(rec', sink', written', Uncounted') /\ Scale(rec', sink', clean', Uncounted', now')
  BY <1>1 DEF Sound, Scale
<1> QED
  BY <1>2, <1>3, <1>4, <1>5 DEF IInv

LEMMA MainStep ==
  ASSUME IInv, Main
  PROVE  IInv' /\ ~(rec'.frames > rec.frames)
<1>r. rec \in RecType
  BY DEF IInv, RecOk
<1>1. CASE Eof
  <2>1. UNCHANGED <<session, call, now, recorder, debugger, closed>>
    BY <1>1 DEF Eof
  <2>2. IInv'
    BY <2>1 DEF IInv, TypeInv, HoldOk, PointOk, Uncounted, recorder, debugger
  <2> QED
    BY <1>r, <2>1, <2>2 DEF recorder, RecType
<1>2. CASE CloseHook
  <2>1. /\ session = Nobody /\ closed' = TRUE
        /\ UNCHANGED <<session, call, now, recorder, debugger>>
    BY <1>2 DEF CloseHook
  <2>2. IInv'
    BY <2>1 DEF IInv, TypeInv, HoldOk, PointOk, Uncounted, recorder, debugger
  <2> QED
    BY <1>r, <2>1, <2>2 DEF recorder, RecType
<1>3. CASE Die
  <2>1. rec.frames \in Nat
    BY <1>r DEF RecType
  <2> QED
    BY <1>3, <2>1, DieStep
<1> QED
  BY <1>1, <1>2, <1>3 DEF Main, Exit, Watchdog

-----------------------------------------------------------------------------
(* The tables of breakpoints, and the bounds *)

\* The elements of a finite set of positions can be numbered in their order.
LEMMA NthFound ==
  ASSUME NEW S \in SUBSET Nat, IsFiniteSet(S), NEW i \in 1 .. Cardinality(S)
  PROVE  Nth(S, i) \in S /\ Cardinality({q \in S : q <= Nth(S, i)}) = i
<1> DEFINE Upto(p) == {q \in S : q <= p}
           T == {j \in 1 .. Cardinality(S) : \A p \in S : Cardinality(Upto(p)) # j}
<1>1. Cardinality(S) \in Nat
  BY FS_CardinalityType
<1>2. \A p \in S : IsFiniteSet(Upto(p))
  BY FS_Subset
<1>3. \A U \in SUBSET S : U # {} => \E p \in U : \A q \in U : p <= q
  <2> SUFFICES ASSUME NEW U \in SUBSET S, U # {} PROVE \E p \in U : \A q \in U : p <= q
    OBVIOUS
  <2>1. PICK p \in U : \A q \in U : <<q, p>> \notin OpToRel(<, Nat)
    BY WFMin, NatLessThanWellFounded, Zenon
  <2>2. \A q \in U : p <= q
    <3> SUFFICES ASSUME NEW q \in U, ~(p <= q) PROVE FALSE
      OBVIOUS
    <3>1. q \in Nat /\ p \in Nat /\ q < p
      OBVIOUS
    <3>2. <<q, p>> \in OpToRel(<, Nat)
      BY <3>1 DEF OpToRel
    <3> QED
      BY <3>2, <2>1
  <2> QED
    BY <2>2
<1>4. T = {}
  <2> SUFFICES ASSUME T # {} PROVE FALSE
    OBVIOUS
  <2>1. T \subseteq Nat
    BY <1>1
  <2>2. PICK m \in T : \A j \in T : <<j, m>> \notin OpToRel(<, Nat)
    BY <2>1, WFMin, NatLessThanWellFounded, Zenon
  <2>3. m \in 1 .. Cardinality(S) /\ \A p \in S : Cardinality(Upto(p)) # m
    OBVIOUS
  <2>4. m - 1 \notin T
    <3>1. m \in Nat /\ m - 1 \in Int /\ m - 1 < m
      BY <2>3, <1>1
    <3>2. m - 1 \in Nat => <<m - 1, m>> \in OpToRel(<, Nat)
      BY <3>1 DEF OpToRel
    <3> HIDE DEF T
    <3> QED
      BY <2>1, <2>2, <3>2
  <2>5. \E U \in SUBSET S : /\ IsFiniteSet(U) /\ Cardinality(U) = m - 1
                            /\ \A u \in U, q \in S \ U : u < q
    <3>1. CASE m = 1
      <4>1. IsFiniteSet({}) /\ Cardinality({}) = 0
        BY FS_EmptySet
      <4> QED
        BY <3>1, <4>1
    <3>2. CASE m # 1
      <4>1. PICK p \in S : Cardinality(Upto(p)) = m - 1
        BY <2>3, <2>4, <3>2, <1>1
      <4>2. Upto(p) \subseteq S /\ \A u \in Upto(p), q \in S \ Upto(p) : u < q
        OBVIOUS
      <4> HIDE DEF Upto
      <4> QED
        BY <4>1, <4>2, <1>2
    <3> QED
      BY <3>1, <3>2
  <2>6. PICK U \in SUBSET S : /\ IsFiniteSet(U) /\ Cardinality(U) = m - 1
                              /\ \A u \in U, q \in S \ U : u < q
    BY <2>5
  <2>7. S \ U # {}
    <3>1. U = S => m - 1 = Cardinality(S)
      BY <2>6
    <3>2. m - 1 # Cardinality(S)
      BY <2>3, <1>1
    <3> QED
      BY <3>1, <3>2
  <2>8. PICK p \in S \ U : \A q \in S \ U : p <= q
    BY <2>7, <1>3
  <2>9. Upto(p) = U \cup {p}
    <3>1. \A u \in U : u \in S /\ u <= p
      BY <2>6, <2>8
    <3>2. \A q \in S : q <= p => q \in U \cup {p}
      BY <2>6, <2>8
    <3>3. p \in S /\ p <= p
      BY <2>8
    <3> QED
      BY <3>1, <3>2, <3>3
  <2>10. Cardinality(U \cup {p}) = m
    <3>1. Cardinality(U \cup {p}) = Cardinality(U) + 1
      BY <2>6, <2>8, FS_AddElement
    <3>2. m \in Nat
      BY <2>3, <1>1
    <3> QED
      BY <2>6, <3>1, <3>2
  <2> QED
    BY <2>3, <2>8, <2>9, <2>10
<1>5. \E p \in S : Cardinality(Upto(p)) = i
  BY <1>4
<1> QED
  BY <1>5 DEF Nth

\* What Keep leaves: as many breakpoints as positions, each of the table, in
\* their order.
LEMMA KeepSound ==
  ASSUME table \in Seq(Breakpoint), NEW S \in SUBSET DOMAIN table
  PROVE  /\ Keep(S) \in Seq(Breakpoint)
         /\ Len(Keep(S)) = Cardinality(S) /\ Cardinality(S) <= Len(table)
         /\ \A i, j \in DOMAIN Keep(S) : i < j => Nth(S, i) < Nth(S, j)
<1>1. DOMAIN table = 1 .. Len(table) /\ Len(table) \in Nat /\ S \in SUBSET Nat
  OBVIOUS
<1>2. IsFiniteSet(DOMAIN table) /\ Cardinality(DOMAIN table) = Len(table)
  BY <1>1, FS_Interval
<1>3. IsFiniteSet(S) /\ Cardinality(S) <= Len(table) /\ Cardinality(S) \in Nat
  BY <1>2, FS_Subset, FS_CardinalityType
<1>4. \A i \in 1 .. Cardinality(S) :
        Nth(S, i) \in S /\ Cardinality({q \in S : q <= Nth(S, i)}) = i
  BY <1>1, <1>3, NthFound
<1>5. Keep(S) \in [1 .. Cardinality(S) -> Breakpoint]
  <2>1. \A p \in S : table[p] \in Breakpoint
    BY <1>1
  <2> QED
    BY <1>4, <2>1 DEF Keep
<1>6. Keep(S) \in Seq(Breakpoint) /\ Len(Keep(S)) = Cardinality(S)
  BY <1>3, <1>5
<1>7. ASSUME NEW i \in 1 .. Cardinality(S), NEW j \in 1 .. Cardinality(S), i < j,
             Nth(S, j) <= Nth(S, i)
      PROVE  FALSE
  <2> DEFINE A == {q \in S : q <= Nth(S, i)}
             B == {q \in S : q <= Nth(S, j)}
  <2>1. B \subseteq A
    <3>1. Nth(S, i) \in Nat /\ Nth(S, j) \in Nat
      BY <1>1, <1>4
    <3> QED
      BY <1>1, <1>7, <3>1
  <2>2. IsFiniteSet(A)
    BY <1>3, FS_Subset
  <2>3. Cardinality(A) = i /\ Cardinality(B) = j
    BY <1>4
  <2> HIDE DEF A, B
  <2>4. Cardinality(B) <= Cardinality(A)
    BY <2>1, <2>2, FS_Subset
  <2> QED
    BY <1>3, <1>7, <2>3, <2>4
<1>8. DOMAIN Keep(S) = 1 .. Cardinality(S)
  BY DEF Keep
<1>9. \A i \in DOMAIN Keep(S) : Nth(S, i) \in Nat
  BY <1>1, <1>4, <1>8
<1> QED
  BY <1>3, <1>6, <1>7, <1>8, <1>9

\* A breakpoint is taken out of the table.
LEMMA Removed ==
  ASSUME NEW X, NEW s \in Seq(X), NEW i \in Nat, i <= Len(s)
  PROVE  RemoveAt(s, i) \in Seq(X) /\ Len(RemoveAt(s, i)) <= Len(s)
<1> DEFINE a == SubSeq(s, 1, i - 1)
           b == SubSeq(s, i + 1, Len(s))
<1>0. \A x, y \in Seq(X) : x \o y \in Seq(X) /\ Len(x \o y) = Len(x) + Len(y)
  OBVIOUS
<1>1. CASE i = 0
  <2>1. a \in Seq(X) /\ Len(a) = 0 /\ b \in Seq(X) /\ Len(b) = Len(s)
    BY <1>1
  <2> HIDE DEF a, b
  <2>2. a \o b \in Seq(X) /\ Len(a \o b) = Len(s)
    BY <1>0, <2>1
  <2>3. RemoveAt(s, i) = a \o b
    BY DEF RemoveAt, a, b
  <2> QED
    BY <2>2, <2>3
<1>2. CASE i # 0
  <2>1. a \in Seq(X) /\ Len(a) = i - 1 /\ b \in Seq(X) /\ Len(b) = Len(s) - i
    BY <1>2
  <2> HIDE DEF a, b
  <2>2. a \o b \in Seq(X) /\ Len(a \o b) = Len(s) - 1
    BY <1>0, <1>2, <2>1
  <2>3. RemoveAt(s, i) = a \o b
    BY DEF RemoveAt, a, b
  <2> QED
    BY <2>2, <2>3
<1> QED
  BY <1>1, <1>2

\* The tables, the ids given so far, and the frames left to the run.
TablesOk ==
  /\ table \in Seq(Breakpoint) /\ Len(table) <= MaxTable
  /\ nextId \in 1 .. MaxId + 1
  /\ DOMAIN points \subseteq 1 .. nextId - 1
  /\ \A i \in DOMAIN points : points[i] \in Exprs

ClockOk ==
  /\ now <= MaxClock
  /\ \A c \in Calls : call[c].at = "run" => now + call[c].left <= MaxClock

BoundsInv == TablesOk /\ ClockOk /\ jvm \in {"serving", "exiting", "dead"}

LEMMA InitBounds == Init => BoundsInv
<1> SUFFICES ASSUME Init PROVE BoundsInv
  OBVIOUS
<1>1. TablesOk
  BY ConstantsAssumption DEF Init, TablesOk
<1>2. ClockOk
  BY ConstantsAssumption DEF Init, ClockOk, Idle
<1> QED
  BY <1>1, <1>2 DEF Init, BoundsInv

\* The tables change by the tools for breakpoints only.
LEMMA SetBreakpointTables ==
  ASSUME TablesOk, NEW c \in Calls, NEW e \in Exprs, SetBreakpoint(c, e)
  PROVE  TablesOk'
<1> USE ConstantsAssumption
<1>1. /\ nextId <= MaxId /\ Len(table) < MaxTable /\ nextId' = nextId + 1
      /\ table' = Append(table, [expr |-> e, once |-> FALSE])
      /\ points' = [i \in DOMAIN points \cup {nextId} |-> IF i = nextId THEN e ELSE points[i]]
  BY DEF SetBreakpoint
<1>2. table' \in Seq(Breakpoint) /\ Len(table') <= MaxTable
  <2>1. [expr |-> e, once |-> FALSE] \in Breakpoint
    BY DEF Breakpoint
  <2> QED
    BY <1>1, <2>1 DEF TablesOk
<1>3. nextId' \in 1 .. MaxId + 1 /\ DOMAIN points' \subseteq 1 .. nextId' - 1
  BY <1>1 DEF TablesOk
<1>4. \A i \in DOMAIN points' : points'[i] \in Exprs
  BY <1>1 DEF TablesOk
<1> QED
  BY <1>2, <1>3, <1>4 DEF TablesOk

LEMMA StartRunTables ==
  ASSUME TablesOk, NEW c \in Calls, NEW n \in Lengths, NEW e \in Exprs \cup {NoExpr},
         StartRun(c, n, e)
  PROVE  TablesOk'
<1> USE ConstantsAssumption
<1>1. table' \in Seq(Breakpoint) /\ Len(table') <= MaxTable
  <2>1. CASE e = NoExpr
    BY <2>1 DEF StartRun, TablesOk
  <2>2. CASE e # NoExpr
    <3>1. [expr |-> e, once |-> TRUE] \in Breakpoint
      BY <2>2 DEF Breakpoint
    <3> QED
      BY <2>2, <3>1 DEF StartRun, TablesOk
  <2> QED
    BY <2>1, <2>2
<1> QED
  BY <1>1 DEF TablesOk, StartRun

LEMMA HitTables ==
  ASSUME TablesOk, NEW c \in Calls, NEW m \in SUBSET Exprs, Hit(c, m)
  PROVE  TablesOk'
<1> USE ConstantsAssumption
<1> DEFINE S == {i \in DOMAIN table : ~(table[i].once /\ table[i].expr \in m)}
<1>1. table' = Keep(S) /\ S \in SUBSET DOMAIN table /\ UNCHANGED <<points, nextId>>
  BY DEF Hit
<1> HIDE DEF S
<1>2. table' \in Seq(Breakpoint) /\ Len(table') <= MaxTable
  <2>1. /\ Keep(S) \in Seq(Breakpoint)
        /\ Len(Keep(S)) = Cardinality(S) /\ Cardinality(S) <= Len(table)
    BY <1>1, KeepSound DEF TablesOk
  <2>2. Len(Keep(S)) \in Nat /\ Len(table) \in Nat
    BY <2>1 DEF TablesOk
  <2> QED
    BY <1>1, <2>1, <2>2 DEF TablesOk
<1> QED
  BY <1>1, <1>2 DEF TablesOk

\* A breakpoint leaves the table, or an id is forgotten, or both.
LEMMA RemovalTables ==
  ASSUME TablesOk, UNCHANGED nextId,
         table' = table \/ \E i \in Nat : i <= Len(table) /\ table' = RemoveAt(table, i),
         points' = points \/ \E id : points' = Without(id)
  PROVE  TablesOk'
<1> USE ConstantsAssumption
<1>1. table' \in Seq(Breakpoint) /\ Len(table') <= Len(table)
  BY Removed DEF TablesOk
<1>2. Len(table') <= MaxTable
  <2>1. Len(table) \in Nat /\ Len(table') \in Nat
    BY <1>1 DEF TablesOk
  <2> QED
    BY <1>1, <2>1 DEF TablesOk
<1>3. DOMAIN points' \subseteq DOMAIN points /\ \A i \in DOMAIN points' : points'[i] = points[i]
  BY DEF Without
<1> QED
  BY <1>1, <1>2, <1>3 DEF TablesOk

LEMMA TablesSteps ==
  ASSUME IInv, TablesOk, [Next]_vars
  PROVE  TablesOk'
<1> USE ConstantsAssumption
<1>1. CASE UNCHANGED debugger
  BY <1>1 DEF TablesOk, debugger
<1>2. ASSUME NEW c \in Calls, NEW n \in Lengths, NEW e \in Exprs \cup {NoExpr}, StartRun(c, n, e)
      PROVE  TablesOk'
  BY <1>2, StartRunTables
<1>3. ASSUME NEW c \in Calls, NEW m \in SUBSET Exprs, Hit(c, m) PROVE TablesOk'
  BY <1>3, HitTables
<1>4. ASSUME NEW c \in Calls, NEW e \in Exprs, SetBreakpoint(c, e) PROVE TablesOk'
  BY <1>4, SetBreakpointTables
<1>5. ASSUME NEW c \in Calls, NEW id \in 1 .. MaxId, ClearBreakpoint(c, id) PROVE TablesOk'
  <2>1. /\ UNCHANGED <<table, nextId>>
        /\ points' = points \/ points' = Without(id)
    BY <1>5 DEF ClearBreakpoint
  <2> QED
    BY <2>1, RemovalTables
<1>6. ASSUME NEW c \in Calls, RemovePosition(c) PROVE TablesOk'
  <2>1. call[c].pos \in Nat
    BY CallFacts DEF CallType
  <2>2. /\ UNCHANGED nextId /\ points' = Without(call[c].id)
        /\ table' = table \/ (call[c].pos <= Len(table) /\ table' = RemoveAt(table, call[c].pos))
    BY <1>6 DEF RemovePosition
  <2> QED
    BY <2>1, <2>2, RemovalTables
<1>7. ASSUME NEW c \in Calls, DebugCommand(c) PROVE TablesOk'
  <2>1. PICK i \in DOMAIN table : table' = RemoveAt(table, i)
    BY <1>7 DEF DebugCommand
  <2>2. i \in Nat /\ i <= Len(table)
    BY DEF TablesOk
  <2>3. UNCHANGED <<points, nextId>>
    BY <1>7 DEF DebugCommand
  <2> QED
    BY <2>1, <2>2, <2>3, RemovalTables
<1>8. CASE Main
  <2>1. UNCHANGED debugger
    BY <1>8 DEF Main, Eof, CloseHook, Exit, Watchdog, Die
  <2> QED
    BY <1>1, <2>1
<1>9. ASSUME NEW c \in Calls,
             \/ EmulateFrame(c) \/ AudioFails(c) \/ OtherStop(c) \/ Advanced(c)
             \/ EncoderFails(c) \/ RunEnds(c) \/ Cleanup(c) \/ ArmReads(c) \/ Arm(c)
             \/ StopCapture(c) \/ \E e \in Every : ArmChecks(c, e)
      PROVE  TablesOk'
  <2>1. UNCHANGED debugger
    BY <1>9 DEF EmulateFrame, AudioFails, Die, OtherStop, Advanced, EncoderFails, RunEnds,
                Cleanup, ArmReads, Arm, StopCapture, ArmChecks
  <2> QED
    BY <1>1, <2>1
<1> QED
  BY <1>1, <1>2, <1>3, <1>4, <1>5, <1>6, <1>7, <1>8, <1>9 DEF Next, Tool, vars

-----------------------------------------------------------------------------
(* The theorems *)

\* A step of a tool that takes no image.
LEMMA NoImage ==
  ASSUME IInv, UNCHANGED rec
  PROVE  ~(rec'.frames > rec.frames)
BY DEF IInv, RecOk, RecType

LEMMA ToolStep ==
  ASSUME IInv, NEW c \in Calls, Tool(c)
  PROVE  /\ IInv'
         /\ rec'.frames > rec.frames =>
              rec'.emulated % rec'.every = 0 /\ rec'.frames = rec.frames + 1
<1>1. CASE \E n \in Lengths, e \in Exprs \cup {NoExpr} : StartRun(c, n, e)
  BY <1>1, StartRunStep, NoImage DEF StartRun, recorder
<1>2. CASE EmulateFrame(c)
  BY <1>2, EmulateFrameStep, NoImage DEF EmulateFrame
<1>3. CASE AudioFails(c)
  <2>1. IInv' /\ rec'.frames = 0
    BY <1>3, DieStep DEF AudioFails
  <2>2. rec.frames \in Nat
    BY DEF IInv, RecOk, RecType
  <2> QED
    BY <2>1, <2>2
<1>4. CASE \E m \in SUBSET Exprs : Hit(c, m)
  BY <1>4, HitStep, NoImage DEF Hit, recorder
<1>5. CASE OtherStop(c)
  BY <1>5, OtherStopStep, NoImage DEF OtherStop, recorder
<1>6. CASE Advanced(c)
  BY <1>6, AdvancedStep, AdvancedRecords
<1>7. CASE EncoderFails(c)
  <2>1. IInv' /\ rec'.frames = rec.frames /\ rec.frames \in Nat
    BY <1>7, EncoderFailsStep DEF IInv, RecOk, RecType
  <2> QED
    BY <2>1
<1>8. CASE RunEnds(c)
  BY <1>8, RunEndsStep, NoImage DEF RunEnds, recorder
<1>9. CASE Cleanup(c)
  BY <1>9, CleanupStep, NoImage DEF Cleanup, recorder
<1>10. CASE \E e \in Exprs : SetBreakpoint(c, e)
  BY <1>10, SetBreakpointStep, NoImage DEF SetBreakpoint, recorder
<1>11. CASE \E id \in 1 .. MaxId : ClearBreakpoint(c, id)
  BY <1>11, ClearBreakpointStep, NoImage DEF ClearBreakpoint, recorder
<1>12. CASE RemovePosition(c)
  BY <1>12, RemovePositionStep, NoImage DEF RemovePosition, recorder
<1>13. CASE DebugCommand(c)
  BY <1>13, DebugCommandStep, NoImage DEF DebugCommand, recorder
<1>14. CASE \E e \in Every : ArmChecks(c, e)
  BY <1>14, ArmChecksStep, NoImage DEF ArmChecks, recorder
<1>15. CASE ArmReads(c)
  BY <1>15, ArmReadsStep, NoImage DEF ArmReads, recorder
<1>16. CASE Arm(c)
  BY <1>16, ArmStep
<1>17. CASE StopCapture(c)
  BY <1>17, StopCaptureStep, NoImage DEF StopCapture
<1> QED
  BY <1>1, <1>2, <1>3, <1>4, <1>5, <1>6, <1>7, <1>8, <1>9, <1>10, <1>11, <1>12,
     <1>13, <1>14, <1>15, <1>16, <1>17 DEF Tool

LEMMA NextIInv ==
  ASSUME IInv, Next
  PROVE  IInv' /\ StepRules
<1>1. \A c \in Calls : call[c].at = "remove" /\ call[c].id # 0 /\ Len(table') < Len(table) =>
        /\ call[c].id \in DOMAIN points
        /\ table[call[c].pos].expr = points[call[c].id]
  BY PointsKnown
<1>2. CASE Main
  BY <1>1, <1>2, MainStep DEF StepRules
<1>3. CASE \E c \in Calls : Tool(c)
  BY <1>1, <1>3, ToolStep DEF StepRules
<1> QED
  BY <1>2, <1>3 DEF Next

LEMMA SpecIInv == Spec => []IInv
<1>1. IInv /\ UNCHANGED vars => IInv'
  BY DEF IInv, TypeInv, HoldOk, PointOk, Uncounted, vars, recorder, debugger, main
<1>2. IInv /\ Next => IInv'
  BY NextIInv
<1> QED
  BY InitIInv, <1>1, <1>2, PTL DEF Spec

\* A call becomes k, at the same date.
LEMMA ClockSame ==
  ASSUME IInv, ClockOk, NEW c \in Calls, NEW k, call' = [call EXCEPT ![c] = k], now' = now,
         k.at = "run" => now + k.left <= MaxClock
  PROVE  ClockOk'
<1>1. call'[c] = k /\ \A d \in Calls \ {c} : call'[d] = call[d]
  BY DEF IInv, TypeInv
<1> QED
  BY <1>1 DEF ClockOk

LEMMA ClockLeave ==
  ASSUME IInv, ClockOk, NEW c \in Calls, Leave(c), now' = now
  PROVE  ClockOk'
<1>1. call' = [call EXCEPT ![c] = Idle] /\ Idle.at # "run"
  BY IdleOk DEF Leave
<1> QED
  BY <1>1, ClockSame

LEMMA ClockDie ==
  ASSUME Die
  PROVE  ClockOk'
<1>1. now' = 0 /\ \A c \in Calls : call'[c].at = "idle"
  BY IdleOk DEF Die
<1> QED
  BY <1>1, ConstantsAssumption DEF ClockOk

LEMMA ClockFrame ==
  ASSUME IInv, ClockOk, NEW c \in Calls, EmulateFrame(c)
  PROVE  ClockOk'
<1> USE ConstantsAssumption
<1> DEFINE k == [call[c] EXCEPT !.left = @ - 1, !.chunk = @ - 1, !.done = @ + 1]
<1>1. /\ call[c].at = "run" /\ call[c].chunk > 0 /\ now' = now + 1
      /\ call' = [call EXCEPT ![c] = k]
  BY DEF EmulateFrame, InRun
<1>2. /\ call[c] \in CallType /\ call[c].chunk \in Nat /\ call[c].chunk <= call[c].left
      /\ \A d \in Calls \ {c} : call[d].at # "run"
  BY <1>1, RunFacts DEF IInv, HoldOk, InProgress
<1>3. k.left = call[c].left - 1 /\ call[c].left \in Nat /\ now \in Nat
  BY <1>2 DEF CallType, IInv, TypeInv
<1>4. call'[c] = k /\ \A d \in Calls \ {c} : call'[d] = call[d]
  BY <1>1 DEF IInv, TypeInv
<1> HIDE DEF k
<1>5. now + call[c].left <= MaxClock
  BY <1>1 DEF ClockOk
<1>6. now' <= MaxClock /\ now' + k.left <= MaxClock
  BY <1>1, <1>2, <1>3, <1>5
<1> QED
  BY <1>2, <1>4, <1>6 DEF ClockOk

LEMMA ClockAfterRun ==
  ASSUME IInv, ClockOk, NEW c \in Calls, AfterRun(c), now' = now
  PROVE  ClockOk'
<1>1. CASE Leave(c)
  BY <1>1, ClockLeave
<1>2. CASE ~Leave(c)
  <2> DEFINE k == [Idle EXCEPT !.at = "cleanup", !.until = call[c].until]
  <2>1. call' = [call EXCEPT ![c] = k] /\ k.at # "run"
    BY <1>2 DEF AfterRun, Idle
  <2> QED
    BY <2>1, ClockSame
<1> QED
  BY <1>1, <1>2

LEMMA ClockAdvanced ==
  ASSUME IInv, ClockOk, NEW c \in Calls, Advanced(c)
  PROVE  ClockOk'
<1>1. now' = now /\ call[c].at = "run"
  BY DEF Advanced, RunOver
<1>2. CASE AfterRun(c)
  BY <1>1, <1>2, ClockAfterRun
<1>3. CASE ~AfterRun(c)
  <2> DEFINE k == [call[c] EXCEPT !.done = 0, !.chunk = Chunk(call[c].left, rec'.pending)]
  <2>1. call' = [call EXCEPT ![c] = k]
    BY <1>3 DEF Advanced
  <2>2. k.left = call[c].left
    BY <1>1, RunFacts DEF CallType
  <2> HIDE DEF k
  <2>3. now + k.left <= MaxClock
    BY <1>1, <2>2 DEF ClockOk
  <2> QED
    BY <1>1, <2>1, <2>3, ClockSame
<1> QED
  BY <1>2, <1>3

\* Steps that start no run and emulate no frame.
LEMMA ClockOther ==
  ASSUME IInv, ClockOk, NEW c \in Calls,
         \/ \E m \in SUBSET Exprs : Hit(c, m)
         \/ OtherStop(c) \/ Cleanup(c) \/ ArmReads(c) \/ Arm(c)
         \/ \E id \in 1 .. MaxId : ClearBreakpoint(c, id)
         \/ \E e \in Every : ArmChecks(c, e)
  PROVE  ClockOk'
<1>0. call[c] \in CallType
  BY CallFacts
<1>1. ASSUME NEW h, call[c].at = "run", call' = [call EXCEPT ![c].hit = h], now' = now
      PROVE  ClockOk'
  <2> DEFINE k == [call[c] EXCEPT !.hit = h]
  <2>1. call' = [call EXCEPT ![c] = k] /\ k.left = call[c].left
    BY <1>0, <1>1 DEF CallType
  <2> HIDE DEF k
  <2>2. now + k.left <= MaxClock
    BY <1>1, <2>1 DEF ClockOk
  <2> QED
    BY <1>1, <2>1, <2>2, ClockSame
<1>2. CASE \E m \in SUBSET Exprs : Hit(c, m)
  BY <1>1, <1>2 DEF Hit, Stoppable
<1>3. CASE OtherStop(c)
  BY <1>1, <1>3 DEF OtherStop, Stoppable
<1>4. CASE Cleanup(c)
  <2>1. CASE Leave(c)
    BY <1>4, <2>1, ClockLeave DEF Cleanup
  <2>2. CASE ~Leave(c)
    <3> DEFINE k == [call[c] EXCEPT !.at = "remove", !.pos = Position(call[c].until)]
    <3>1. call' = [call EXCEPT ![c] = k] /\ k.at = "remove" /\ now' = now
      BY <1>0, <1>4, <2>2 DEF Cleanup, CallType
    <3> QED
      BY <3>1, ClockSame
  <2> QED
    BY <2>1, <2>2
<1>5. CASE ArmReads(c)
  <2> DEFINE k == IF closed THEN Idle ELSE [call[c] EXCEPT !.at = "read", !.cycles = now]
  <2>1. call' = [call EXCEPT ![c] = k] /\ k.at # "run" /\ now' = now
    BY <1>0, <1>5 DEF ArmReads, Idle, CallType
  <2> QED
    BY <2>1, ClockSame
<1>6. CASE Arm(c)
  <2>1. call' = [call EXCEPT ![c] = Idle] /\ Idle.at # "run" /\ now' = now
    BY <1>6, IdleOk DEF Arm
  <2> QED
    BY <2>1, ClockSame
<1>7. CASE \E e \in Every : ArmChecks(c, e)
  <2>1. PICK e \in Every : ArmChecks(c, e)
    BY <1>7
  <2> DEFINE k == [Idle EXCEPT !.at = "checked", !.every = e]
  <2>2. call' = [call EXCEPT ![c] = k] /\ k.at # "run" /\ now' = now
    BY <2>1 DEF ArmChecks, Idle
  <2> QED
    BY <2>2, ClockSame
<1>8. CASE \E id \in 1 .. MaxId : ClearBreakpoint(c, id)
  <2>1. PICK id \in 1 .. MaxId : ClearBreakpoint(c, id)
    BY <1>8
  <2> DEFINE k == [Idle EXCEPT !.at = "remove", !.id = id, !.pos = Position(points[id])]
  <2>2. now' = now /\ (call' = call \/ call' = [call EXCEPT ![c] = k]) /\ k.at # "run"
    BY <2>1 DEF ClearBreakpoint, Idle
  <2> HIDE DEF k
  <2>3. CASE call' = call
    BY <2>2, <2>3 DEF ClockOk
  <2> QED
    BY <2>2, <2>3, ClockSame
<1> QED
  BY <1>2, <1>3, <1>4, <1>5, <1>6, <1>7, <1>8

LEMMA ClockSteps ==
  ASSUME IInv, ClockOk, [Next]_vars
  PROVE  ClockOk'
<1>1. CASE UNCHANGED <<call, now>>
  BY <1>1 DEF ClockOk
<1>2. CASE Main
  BY <1>1, <1>2, ClockDie DEF Main, Eof, CloseHook, Exit, Watchdog
<1>3. ASSUME NEW c \in Calls, NEW n \in Lengths, NEW e \in Exprs \cup {NoExpr}, StartRun(c, n, e)
      PROVE  ClockOk'
  <2> DEFINE k == [Idle EXCEPT !.at = "run", !.left = n, !.until = e,
                    !.capturing = (sink # "none"),
                    !.chunk = IF sink # "none" THEN Chunk(n, rec.pending) ELSE n]
  <2>1. call' = [call EXCEPT ![c] = k] /\ now' = now /\ now + n <= MaxClock
    BY <1>3 DEF StartRun
  <2>2. k.left = n
    BY DEF Idle
  <2> QED
    BY <2>1, <2>2, ClockSame
<1>4. ASSUME NEW c \in Calls, EncoderFails(c) \/ RunEnds(c) \/ RemovePosition(c) PROVE ClockOk'
  BY <1>4, ClockLeave, ClockAfterRun DEF EncoderFails, RunEnds, RemovePosition
<1>5. ASSUME NEW c \in Calls, \/ DebugCommand(c) \/ StopCapture(c)
                              \/ \E e \in Exprs : SetBreakpoint(c, e)
      PROVE  ClockOk'
  BY <1>1, <1>5 DEF SetBreakpoint, DebugCommand, StopCapture
<1>6. ASSUME NEW c \in Calls, AudioFails(c) PROVE ClockOk'
  BY <1>6, ClockDie DEF AudioFails
<1> QED
  BY <1>1, <1>2, <1>3, <1>4, <1>5, <1>6, ClockFrame, ClockAdvanced, ClockOther
     DEF Next, Tool, vars

LEMMA SpecBounds == Spec => []BoundsInv
<1>1. IInv /\ BoundsInv /\ [Next]_vars => BoundsInv'
  <2> SUFFICES ASSUME IInv, BoundsInv, [Next]_vars PROVE BoundsInv'
    OBVIOUS
  <2>1. TablesOk' /\ ClockOk'
    BY TablesSteps, ClockSteps DEF BoundsInv
  <2>2. jvm' \in {"serving", "exiting", "dead"}
    <3>1. jvm' \in {jvm, "exiting", "dead"}
      BY DEF Next, Main, Tool, Eof, CloseHook, Exit, Watchdog, Die, StartRun, EmulateFrame,
             AudioFails, Hit, OtherStop, Advanced, EncoderFails, RunEnds, Cleanup,
             SetBreakpoint, ClearBreakpoint, RemovePosition, DebugCommand, ArmChecks,
             ArmReads, Arm, StopCapture, main, vars
    <3> QED
      BY <3>1 DEF BoundsInv
  <2> QED
    BY <2>1, <2>2 DEF BoundsInv
<1> QED
  BY InitBounds, SpecIInv, <1>1, PTL DEF Spec

-----------------------------------------------------------------------------
\* Every variable stays in its range: the call that holds the session and the frames
\* of its run, the recorder, the two tables of breakpoints and the ids, whatever is
\* removed from the list by others (BreakCond_DoDelayedActions, DebugTools.add).
THEOREM TypeCorrect == Spec => []TypeOK
<1>1. IInv /\ BoundsInv => TypeOK
  <2> SUFFICES ASSUME IInv, BoundsInv PROVE TypeOK
    OBVIOUS
  <2>1. session \in Calls \cup {Nobody} /\ call \in [Calls -> CallType]
    BY DEF IInv, TypeInv, HoldOk, CallOk
  <2>2. now \in 0 .. MaxClock /\ written \in Nat
    BY ConstantsAssumption DEF IInv, TypeInv, BoundsInv, ClockOk
  <2>3. rec \in RecType /\ (sink # "none" => rec.pending < rec.every)
    BY DEF IInv, RecOk
  <2> QED
    BY <2>1, <2>2, <2>3 DEF TypeOK, IInv, TypeInv, BoundsInv, TablesOk
<1> QED
  BY SpecIInv, SpecBounds, <1>1, PTL

\* No call is inside the core when it is closed, for any number of calls
\* (EmulatorSession.close).
THEOREM CloseWaits == Spec => []NoUseAfterClose
<1>1. IInv => NoUseAfterClose
  BY ConstantsAssumption DEF IInv, HoldOk, InProgress, NoUseAfterClose
<1> QED
  BY SpecIInv, <1>1, PTL

\* Sound and images begin and go on together, for any distance between images and
\* however often ffmpeg is launched in vain (VideoRecorder.advanced, FfmpegSink.accept).
THEOREM SoundWithImages == Spec => []SoundAligned
<1>1. IInv => SoundAligned
  BY DEF IInv, Sound, Uncounted, SoundAligned
<1> QED
  BY SpecIInv, <1>1, PTL

\* The cycles of a capture are those of its frames, if it was armed outside a
\* run (VideoRecorder.realSeconds).
THEOREM ScaleCorrect == Spec => []ScaleIsFilmed
<1>1. IInv => ScaleIsFilmed
  BY DEF IInv, Scale, ScaleIsFilmed
<1> QED
  BY SpecIInv, <1>1, PTL

\* Images are taken one at a time and on time, however runs are cut
\* (VideoRecorder.chunk).
THEOREM ImagesCorrect == Spec => ImagesOnTime
<1>1. IInv /\ [Next]_vars =>
        [rec'.frames > rec.frames =>
           rec'.emulated % rec'.every = 0 /\ rec'.frames = rec.frames + 1]_vars
  BY NextIInv DEF StepRules, vars
<1> QED
  BY SpecIInv, <1>1, PTL DEF Spec, ImagesOnTime

\* An id clears a breakpoint with its own expression, whatever the other calls do
\* to the list (DebugTools.removeOne).
THEOREM ClearsCorrect == Spec => ClearsItsPoint
<1>1. IInv /\ [Next]_vars =>
        [\A c \in Calls : call[c].at = "remove" /\ call[c].id # 0 /\ Len(table') < Len(table) =>
           /\ call[c].id \in DOMAIN points
           /\ table[call[c].pos].expr = points[call[c].id]]_vars
  BY NextIInv DEF StepRules, vars
<1> QED
  BY SpecIInv, <1>1, PTL DEF Spec, ClearsItsPoint
=============================================================================
