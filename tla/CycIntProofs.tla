---------------------------- MODULE CycIntProofs ----------------------------
(***************************************************************************)
(* CycInt for any set of handlers, delays and bounds: its types, the       *)
(* soundness of its list, and the order in which handlers are called.      *)
(*                                                                         *)
(* The list is reasoned about once, apart from the state: Linked says that *)
(* two functions chain the elements of a set S along a strict order B (a   *)
(* set of pairs) that ends with NULL, and three lemmas say that the chain  *)
(* survives the removal of an element and the insertion of one.            *)
(***************************************************************************)
EXTENDS CycInt, TLAPS

StrictOrder(S, B) ==
  /\ \A i \in S : <<i, i>> \notin B
  /\ \A i, j \in S : i = j \/ <<i, j>> \in B \/ <<j, i>> \in B
  /\ \A i, j, k \in S : <<i, j>> \in B /\ <<j, k>> \in B => <<i, k>> \in B
  /\ \A i \in S \ {NULL} : <<i, NULL>> \in B

Linked(S, B, first, prev, next) ==
  /\ NULL \in S /\ next[NULL] = NONE
  /\ first \in S /\ prev[first] = NONE
  /\ \A j \in S \ {first} : <<first, j>> \in B
  /\ \A i \in S \ {NULL} :
       /\ next[i] \in S
       /\ prev[next[i]] = i
       /\ <<i, next[i]>> \in B
       /\ \A k \in S : <<i, k>> \in B => k = next[i] \/ <<next[i], k>> \in B
  /\ \A j \in S \ {first} : prev[j] \in S /\ next[prev[j]] = j

LEMMA NoneIsNoHandler == NONE \notin Interrupts /\ NULL \in Interrupts
  BY ConstantsAssumption DEF Interrupts, NULL, NONE

\* The head leaves the list (CycInt_AcknowledgeInterrupt).
LEMMA RemoveFirst ==
  ASSUME NEW S \in SUBSET Interrupts, NEW B, NEW first \in S \ {NULL},
         NEW prev \in [Interrupts -> Interrupts \cup {NONE}],
         NEW next \in [Interrupts -> Interrupts \cup {NONE}],
         StrictOrder(S, B), Linked(S, B, first, prev, next)
  PROVE  Linked(S \ {first}, B, next[first], [prev EXCEPT ![next[first]] = NONE], next)
<1> DEFINE T == S \ {first}
           n == next[first]
           p == [prev EXCEPT ![n] = NONE]
<1>1. NULL \in T /\ n \in T /\ p[n] = NONE /\ next[NULL] = NONE
  <2>1. n \in S /\ <<first, n>> \in B
    BY DEF Linked
  <2>2. n # first
    BY <2>1 DEF StrictOrder
  <2>3. QED
    BY <2>1, <2>2 DEF Linked
<1>2. \A j \in T \ {n} : <<n, j>> \in B
  BY DEF Linked
<1>3. ASSUME NEW i \in T \ {NULL}
      PROVE  /\ next[i] \in T
             /\ p[next[i]] = i
             /\ <<i, next[i]>> \in B
             /\ \A k \in T : <<i, k>> \in B => k = next[i] \/ <<next[i], k>> \in B
  <2>1. next[i] \in S /\ prev[next[i]] = i /\ <<i, next[i]>> \in B
    BY DEF Linked
  <2>2. next[i] # first
    BY <2>1 DEF Linked, StrictOrder
  <2>3. next[i] # n
    BY <2>1 DEF Linked
  <2>4. QED
    BY <2>1, <2>2, <2>3 DEF Linked
<1>4. ASSUME NEW j \in T \ {n}
      PROVE  p[j] \in T /\ next[p[j]] = j
  <2>1. prev[j] \in S /\ next[prev[j]] = j
    BY DEF Linked
  <2>2. prev[j] # first
    BY <2>1
  <2>3. QED
    BY <2>1, <2>2
<1>5. QED
  BY <1>1, <1>2, <1>3, <1>4 DEF Linked

\* An element in the middle leaves the list (CycInt_RemovePendingInterrupt).
LEMMA RemoveMiddle ==
  ASSUME NEW S \in SUBSET Interrupts, NEW B, NEW first \in S,
         NEW x \in S \ {NULL, first},
         NEW prev \in [Interrupts -> Interrupts \cup {NONE}],
         NEW next \in [Interrupts -> Interrupts \cup {NONE}],
         StrictOrder(S, B), Linked(S, B, first, prev, next)
  PROVE  Linked(S \ {x}, B, first,
                [prev EXCEPT ![next[x]] = prev[x]],
                [next EXCEPT ![prev[x]] = next[x]])
<1> DEFINE T == S \ {x}
           before == prev[x]
           after == next[x]
           p == [prev EXCEPT ![after] = before]
           n == [next EXCEPT ![before] = after]
<1>1. /\ before \in S /\ next[before] = x /\ before # NULL
      /\ after \in S /\ prev[after] = x
      /\ <<x, after>> \in B
  BY NoneIsNoHandler DEF Linked
<1>2. <<before, x>> \in B
  BY <1>1 DEF Linked
<1>3. before # x /\ after # x /\ before # after /\ after # first
  BY <1>1, <1>2 DEF Linked, StrictOrder
<1>4. NULL \in T /\ first \in T /\ n[NULL] = NONE /\ p[first] = NONE
  BY <1>1, <1>3 DEF Linked
<1>5. \A j \in T \ {first} : <<first, j>> \in B
  BY DEF Linked
<1>6. ASSUME NEW i \in T \ {NULL}
      PROVE  /\ n[i] \in T
             /\ p[n[i]] = i
             /\ <<i, n[i]>> \in B
             /\ \A k \in T : <<i, k>> \in B => k = n[i] \/ <<n[i], k>> \in B
  <2>1. CASE i = before
    <3>1. n[i] = after /\ p[after] = i
      BY <1>1, <2>1
    <3>2. <<i, after>> \in B
      BY <1>1, <1>2, <2>1 DEF StrictOrder
    <3>3. ASSUME NEW k \in T, <<i, k>> \in B
          PROVE  k = after \/ <<after, k>> \in B
      BY <1>1, <2>1, <3>3 DEF Linked
    <3>4. QED
      BY <1>1, <1>3, <3>1, <3>2, <3>3
  <2>2. CASE i # before
    <3>1. n[i] = next[i] /\ next[i] \in S /\ prev[next[i]] = i
      BY <2>2 DEF Linked
    <3>2. next[i] # x /\ next[i] # after
      BY <1>1, <2>2, <3>1
    <3>3. p[next[i]] = i
      BY <3>1, <3>2
    <3>4. QED
      BY <3>1, <3>2, <3>3 DEF Linked
  <2>3. QED
    BY <2>1, <2>2
<1>7. ASSUME NEW j \in T \ {first}
      PROVE  p[j] \in T /\ n[p[j]] = j
  <2>1. CASE j = after
    BY <1>1, <1>3, <2>1
  <2>2. CASE j # after
    <3>1. p[j] = prev[j] /\ prev[j] \in S /\ next[prev[j]] = j
      BY <2>2 DEF Linked
    <3>2. prev[j] # x /\ prev[j] # before
      BY <1>1, <2>2, <3>1
    <3>3. QED
      BY <3>1, <3>2
  <2>3. QED
    BY <2>1, <2>2
<1>8. QED
  BY <1>4, <1>5, <1>6, <1>7 DEF Linked

\* An element enters the list before cursor (CycInt_InsertInt).
LEMMA InsertBefore ==
  ASSUME NEW S \in SUBSET Interrupts, NEW B, NEW first \in S, NEW cursor_ \in S,
         NEW x \in Interrupts \ S,
         NEW prev \in [Interrupts -> Interrupts \cup {NONE}],
         NEW next \in [Interrupts -> Interrupts \cup {NONE}],
         StrictOrder(S \cup {x}, B), Linked(S, B, first, prev, next),
         <<x, cursor_>> \in B,
         \A k \in S : <<k, cursor_>> \in B => <<k, x>> \in B
  PROVE  Linked(S \cup {x}, B,
                IF cursor_ = first THEN x ELSE first,
                [prev EXCEPT ![cursor_] = x,
                             ![x] = IF cursor_ = first THEN NONE ELSE prev[cursor_]],
                IF cursor_ = first
                  THEN [next EXCEPT ![x] = cursor_]
                  ELSE [next EXCEPT ![x] = cursor_, ![prev[cursor_]] = x])
<1> DEFINE T == S \cup {x}
           p == [prev EXCEPT ![cursor_] = x,
                             ![x] = IF cursor_ = first THEN NONE ELSE prev[cursor_]]
<1>1. x # NULL /\ x # cursor_ /\ NULL \in T
  BY DEF Linked
<1>2. \A k \in S : k = cursor_ \/ <<cursor_, k>> \in B => <<x, k>> \in B
  BY DEF StrictOrder
<1>3. CASE cursor_ = first
  <2> DEFINE n == [next EXCEPT ![x] = cursor_]
  <2>1. n[NULL] = NONE /\ p[x] = NONE
    BY <1>1, <1>3 DEF Linked
  <2>2. \A j \in T \ {x} : <<x, j>> \in B
    BY <1>2, <1>3 DEF Linked
  <2>3. ASSUME NEW i \in T \ {NULL}
        PROVE  /\ n[i] \in T
               /\ p[n[i]] = i
               /\ <<i, n[i]>> \in B
               /\ \A k \in T : <<i, k>> \in B => k = n[i] \/ <<n[i], k>> \in B
    <3>1. CASE i = x
      BY <1>1, <1>3, <3>1 DEF Linked, StrictOrder
    <3>2. CASE i # x
      <4>1. n[i] = next[i] /\ next[i] \in S /\ prev[next[i]] = i /\ i \in S
        BY <3>2 DEF Linked
      <4>2. next[i] # cursor_ /\ next[i] # x
        BY <1>3, <4>1, NoneIsNoHandler DEF Linked
      <4>3. p[next[i]] = i
        BY <4>1, <4>2
      <4>4. ~(<<i, x>> \in B)
        BY <2>2, <3>2, <4>1, <1>1 DEF StrictOrder
      <4>5. QED
        BY <4>1, <4>2, <4>3, <4>4 DEF Linked
    <3>3. QED
      BY <3>1, <3>2
  <2>4. ASSUME NEW j \in T \ {x}
        PROVE  p[j] \in T /\ n[p[j]] = j
    <3>1. CASE j = cursor_
      BY <1>1, <3>1
    <3>2. CASE j # cursor_
      <4>1. p[j] = prev[j] /\ prev[j] \in S /\ next[prev[j]] = j
        BY <1>3, <3>2 DEF Linked
      <4>2. QED
        BY <4>1
    <3>3. QED
      BY <3>1, <3>2
  <2>5. QED
    BY <1>1, <1>3, <2>1, <2>2, <2>3, <2>4 DEF Linked
<1>4. CASE cursor_ # first
  <2> DEFINE b == prev[cursor_]
             n == [next EXCEPT ![x] = cursor_, ![b] = x]
  <2>1. b \in S /\ next[b] = cursor_ /\ b # NULL /\ b # x /\ <<b, cursor_>> \in B
    BY <1>4, NoneIsNoHandler DEF Linked
  <2>2. <<b, x>> \in B /\ p[x] = b /\ p[cursor_] = x /\ n[x] = cursor_ /\ n[b] = x
    BY <1>1, <1>4, <2>1
  <2>3. n[NULL] = NONE /\ p[first] = NONE
    BY <1>1, <1>4, <2>1 DEF Linked
  <2>4. \A j \in T \ {first} : <<first, j>> \in B
    BY <1>4 DEF Linked
  <2>5. ASSUME NEW i \in T \ {NULL}
        PROVE  /\ n[i] \in T
               /\ p[n[i]] = i
               /\ <<i, n[i]>> \in B
               /\ \A k \in T : <<i, k>> \in B => k = n[i] \/ <<n[i], k>> \in B
    <3>1. CASE i = x
      <4>1. ASSUME NEW k \in S, <<x, k>> \in B
            PROVE  k = cursor_ \/ <<cursor_, k>> \in B
        <5>1. ~(<<k, x>> \in B)
          BY <4>1 DEF StrictOrder
        <5>2. ~(<<k, cursor_>> \in B)
          BY <5>1
        <5>3. QED
          BY <5>2 DEF StrictOrder
      <4>2. <<x, x>> \notin B
        BY DEF StrictOrder
      <4>3. QED
        BY <2>2, <3>1, <4>1, <4>2
    <3>2. CASE i = b
      <4>1. ASSUME NEW k \in T, <<b, k>> \in B
            PROVE  k = x \/ <<x, k>> \in B
        BY <1>2, <2>1, <4>1 DEF Linked
      <4>2. QED
        BY <2>2, <3>2, <4>1
    <3>3. CASE i # x /\ i # b
      <4>1. /\ n[i] = next[i] /\ next[i] \in S /\ prev[next[i]] = i /\ i \in S
            /\ <<i, next[i]>> \in B
        BY <3>3 DEF Linked
      <4>2. next[i] # cursor_ /\ next[i] # x
        BY <3>3, <4>1
      <4>3. p[next[i]] = i
        BY <4>1, <4>2
      <4>4. ASSUME <<i, x>> \in B
            PROVE  <<next[i], x>> \in B
        <5>1. <<i, cursor_>> \in B
          BY <4>1, <4>4, <1>1 DEF StrictOrder
        <5>2. <<next[i], cursor_>> \in B
          BY <4>1, <4>2, <5>1 DEF Linked
        <5>3. QED
          BY <4>1, <5>2
      <4>5. ASSUME NEW k \in S, <<i, k>> \in B
            PROVE  k = next[i] \/ <<next[i], k>> \in B
        BY <4>1, <4>5 DEF Linked
      <4>6. QED
        BY <4>1, <4>3, <4>4, <4>5
    <3>4. QED
      BY <3>1, <3>2, <3>3
  <2>6. ASSUME NEW j \in T \ {first}
        PROVE  p[j] \in T /\ n[p[j]] = j
    <3>1. CASE j = x
      BY <2>1, <2>2, <3>1
    <3>2. CASE j = cursor_
      BY <2>2, <3>2
    <3>3. CASE j # x /\ j # cursor_
      <4>1. p[j] = prev[j] /\ prev[j] \in S /\ next[prev[j]] = j
        BY <3>3 DEF Linked
      <4>2. prev[j] # b /\ prev[j] # x
        BY <2>1, <3>3, <4>1
      <4>3. QED
        BY <4>1, <4>2
    <3>4. QED
      BY <3>1, <3>2, <3>3
  <2>7. QED
    BY <1>1, <1>4, <2>3, <2>4, <2>5, <2>6 DEF Linked
<1>5. QED
  BY <1>3, <1>4

\* Two orders that agree on S chain it alike.
LEMMA SameOrder ==
  ASSUME NEW S, NEW B, NEW C, NEW first, NEW prev, NEW next,
         Linked(S, B, first, prev, next),
         \A i, j \in S : <<i, j>> \in B <=> <<i, j>> \in C
  PROVE  Linked(S, C, first, prev, next)
  BY DEF Linked

-----------------------------------------------------------------------------
(* The inductive invariant. *)

\* Before, as a set of pairs.
Pairs == {p \in Interrupts \X Interrupts : Before(p[1], p[2])}

ActiveSet == {i \in Interrupts : Active[i]}

\* over orders the active handlers by the date of their last insertion.
OverInv ==
  /\ \A i \in Handlers : over[i] \subseteq Armed \ {i}
  /\ \A i, j \in Armed : i # j => (j \in over[i] <=> i \notin over[j])
  /\ \A i, j, k \in Armed : j \in over[i] /\ k \in over[j] => k \in over[i]

\* While the position of a handler is searched, the handler is younger than all
\* others, and those before the cursor have an earlier date.
WalkInv ==
  inserting # NULL =>
    /\ inserting \in Armed
    /\ over[inserting] = Armed \ {inserting}
    /\ cursor \in Listed
    /\ \A k \in Listed : Before(k, cursor) => Cycles[k] < Cycles[inserting]

PhaseInv ==
  /\ inserting # NULL => phase \in {"cpu", "handler"}
  /\ phase = "called" =>
       /\ running # NULL /\ ActiveInt # NULL
       /\ running = ActiveInt \/ (running = AutoSend /\ Commands)
  /\ phase = "handler" => running # NULL
  /\ clock + currcycle <= MaxClock
  /\ limit <= clock + currcycle

Inv == TypeOK /\ OverInv /\ WalkInv /\ PhaseInv /\ ListSound

LEMMA PairsOrder ==
  ASSUME TypeOK, OverInv, NullLast
  PROVE  StrictOrder(ActiveSet, Pairs)
<1>0. ActiveSet \subseteq Interrupts /\ \A i, j \in ActiveSet : <<i, j>> \in Pairs <=> Before(i, j)
  BY DEF Pairs, ActiveSet
<1>1. /\ \A i \in ActiveSet : Cycles[i] \in Nat
      /\ \A i \in Handlers : Cycles[i] < Never
      /\ Cycles[NULL] = Never
      /\ ActiveSet = Armed \cup {NULL}
      /\ NULL \notin Handlers
      /\ Never \in Nat
  BY ConstantsAssumption DEF TypeOK, NullLast, Armed, ActiveSet, Interrupts, NULL
<1>2. ASSUME NEW i \in ActiveSet
      PROVE  <<i, i>> \notin Pairs
  <2>1. i # NULL => i \in Handlers
    BY <1>0 DEF Interrupts
  <2>2. ~Before(i, i)
    BY <1>1, <2>1 DEF Before, OverInv
  <2>3. QED
    BY <1>0, <2>2
<1>3. ASSUME NEW i \in ActiveSet, NEW j \in ActiveSet, i # j
      PROVE  <<i, j>> \in Pairs \/ <<j, i>> \in Pairs
  <2>1. CASE Cycles[i] # Cycles[j]
    BY <1>0, <1>1, <2>1 DEF Before
  <2>2. CASE Cycles[i] = Cycles[j]
    <3>1. i \in Armed /\ j \in Armed
      BY <1>1, <1>3, <2>2 DEF Armed
    <3>2. j \in over[i] \/ i \in over[j]
      BY <1>3, <3>1 DEF OverInv
    <3>3. i # NULL /\ j # NULL
      BY <1>1, <3>1 DEF Armed
    <3>4. QED
      BY <1>0, <2>2, <3>2, <3>3 DEF Before
  <2>3. QED
    BY <2>1, <2>2
<1>4. ASSUME NEW i \in ActiveSet, NEW j \in ActiveSet, NEW k \in ActiveSet,
             Before(i, j), Before(j, k)
      PROVE  Before(i, k)
  <2>1. CASE Cycles[i] = Cycles[j] /\ Cycles[j] = Cycles[k]
    <3>1. i # NULL /\ j # NULL /\ j \in over[i] /\ k \in over[j]
      BY <1>1, <1>4, <2>1 DEF Before
    <3>2. i \in Armed /\ j \in Armed /\ k \in Armed
      <4>1. i \in Armed /\ j \in Armed
        BY <1>1, <3>1
      <4>2. over[j] \subseteq Armed
        BY <4>1 DEF OverInv, Armed
      <4>3. QED
        BY <3>1, <4>1, <4>2
    <3>3. k \in over[i]
      BY <3>1, <3>2 DEF OverInv
    <3>4. QED
      BY <2>1, <3>1, <3>3 DEF Before
  <2>2. CASE Cycles[i] # Cycles[j] \/ Cycles[j] # Cycles[k]
    <3>1. Cycles[i] <= Cycles[j] /\ Cycles[j] <= Cycles[k]
      BY <1>1, <1>4 DEF Before
    <3>2. Cycles[i] < Cycles[k]
      BY <1>1, <2>2, <3>1
    <3>3. QED
      BY <3>2 DEF Before
  <2>3. QED
    BY <2>1, <2>2
<1>5. ASSUME NEW i \in ActiveSet \ {NULL}
      PROVE  <<i, NULL>> \in Pairs
  <2>1. i \in Handlers /\ NULL \in ActiveSet
    BY <1>1 DEF Armed
  <2>2. Before(i, NULL)
    BY <1>1, <2>1 DEF Before
  <2>3. QED
    BY <1>0, <2>1, <2>2
<1>6. QED
  BY <1>0, <1>2, <1>3, <1>4, <1>5 DEF StrictOrder

\* The list of the state, in terms of Linked.
Chained ==
  /\ Linked(Listed, Pairs, ActiveInt, IntList_Prev, IntList_Next)
  /\ ActiveInt_Cycles = Cycles[ActiveInt]

LEMMA ListIsChained == NullLast => (ListSound <=> Chained)
<1> SUFFICES ASSUME NullLast PROVE ListSound <=> Chained
  OBVIOUS
<1>1. Listed \subseteq Interrupts /\ \A i, j \in Listed : <<i, j>> \in Pairs <=> Before(i, j)
  BY DEF Listed, Pairs
<1>2. NULL \in Listed
  BY NoneIsNoHandler DEF Listed, NullLast
<1>3. ASSUME ListSound PROVE Chained
  BY <1>1, <1>2, <1>3 DEF ListSound, NullLast, HeadFirst, ForwardLinks, BackwardLinks,
                    Follows, Linked, Chained
<1>4. ASSUME Chained PROVE ListSound
  BY <1>1, <1>2, <1>4 DEF ListSound, NullLast, HeadFirst, ForwardLinks, BackwardLinks,
                    Follows, Linked, Chained
<1>5. QED
  BY <1>3, <1>4

LEMMA ChainedNext == NullLast' /\ Chained' => ListSound'
<1>1. NullLast /\ Chained => ListSound
  BY ListIsChained
<1>2. QED
  BY <1>1, PTL

\* A part of an ordered set is ordered.
LEMMA SubOrder ==
  ASSUME NEW S, NEW T \in SUBSET S, NEW B, StrictOrder(S, B)
  PROVE  StrictOrder(T, B)
  BY DEF StrictOrder

\* What Unlink leaves is linked.
LEMMA UnlinkSound ==
  ASSUME Inv, inserting = NULL, NEW x \in Armed
  PROVE  /\ Linked(Listed \ {x}, Pairs, FirstWithout(x), PrevWithout(x), NextWithout(x))
         /\ FirstWithout(x) = ActiveInt <=> x # ActiveInt
<1>1. /\ Listed = ActiveSet /\ x \in Listed \ {NULL} /\ Listed \in SUBSET Interrupts
      /\ IntList_Prev \in [Interrupts -> Interrupts \cup {NONE}]
      /\ IntList_Next \in [Interrupts -> Interrupts \cup {NONE}]
  BY ConstantsAssumption DEF Listed, ActiveSet, Armed, Interrupts, NULL, Inv, TypeOK
<1>2. /\ StrictOrder(Listed, Pairs)
      /\ Linked(Listed, Pairs, ActiveInt, IntList_Prev, IntList_Next)
  <2>1. TypeOK /\ OverInv /\ NullLast /\ ListSound
    BY DEF Inv, ListSound
  <2>2. StrictOrder(ActiveSet, Pairs)
    BY <2>1, PairsOrder
  <2>3. QED
    BY <1>1, <2>1, <2>2, ListIsChained DEF Chained
<1>3. CASE x = ActiveInt
  <2>0. ActiveInt \in Listed \ {NULL}
    BY <1>1, <1>3
  <2>1. Linked(Listed \ {ActiveInt}, Pairs, IntList_Next[ActiveInt],
               [IntList_Prev EXCEPT ![IntList_Next[ActiveInt]] = NONE], IntList_Next)
    BY <1>1, <1>2, <2>0, RemoveFirst
  <2>2. IntList_Next[x] # x
    BY <1>3, <2>1 DEF Linked
  <2>3. QED
    BY <1>3, <2>1, <2>2 DEF FirstWithout, PrevWithout, NextWithout
<1>4. CASE x # ActiveInt
  <2>1. ActiveInt \in Listed
    BY <1>2 DEF Linked
  <2>2. Linked(Listed \ {x}, Pairs, ActiveInt,
               [IntList_Prev EXCEPT ![IntList_Next[x]] = IntList_Prev[x]],
               [IntList_Next EXCEPT ![IntList_Prev[x]] = IntList_Next[x]])
    <3>1. x \in Listed \ {NULL, ActiveInt}
      BY <1>1, <1>4
    <3>2. QED
      BY <1>1, <1>2, <2>1, <3>1, RemoveMiddle
  <2>3. QED
    BY <1>4, <2>2 DEF FirstWithout, PrevWithout, NextWithout
<1>5. QED
  BY <1>3, <1>4

-----------------------------------------------------------------------------
(* The steps that change the list. *)

LEMMA ForgetOver ==
  ASSUME TypeOK, OverInv, NEW x \in Armed, Forget(x), Armed' = Armed \ {x}
  PROVE  OverInv' /\ over' \in [Handlers -> SUBSET Handlers]
<1>1. /\ x \in Handlers /\ over \in [Handlers -> SUBSET Handlers]
      /\ over' = [k \in Handlers |-> IF k = x THEN {} ELSE over[k] \ {x}]
      /\ Armed \subseteq Handlers
  BY DEF Forget, TypeOK, Armed
<1>2. /\ over'[x] = {}
      /\ \A k \in Handlers \ {x} : over'[k] = over[k] \ {x}
  BY <1>1
<1>3. \A i \in Handlers : over'[i] \subseteq Armed' \ {i}
  BY <1>1, <1>2 DEF OverInv
<1>4. \A i, j \in Armed' : i # j => (j \in over'[i] <=> i \notin over'[j])
  BY <1>1, <1>2 DEF OverInv
<1>5. \A i, j, k \in Armed' : j \in over'[i] /\ k \in over'[j] => k \in over'[i]
  BY <1>1, <1>2 DEF OverInv
<1>6. QED
  BY <1>1, <1>3, <1>4, <1>5 DEF OverInv

LEMMA RememberOver ==
  ASSUME TypeOK, OverInv, NEW x \in Handlers, Remember(x), Armed' = Armed \cup {x}
  PROVE  /\ OverInv' /\ over' \in [Handlers -> SUBSET Handlers]
         /\ over'[x] = Armed' \ {x}
         /\ \A k \in Handlers \ {x} : over'[k] = over[k] \ {x}
<1>1. /\ over \in [Handlers -> SUBSET Handlers]
      /\ over' = [k \in Handlers |-> IF k = x THEN Armed \ {x} ELSE over[k] \ {x}]
      /\ Armed \subseteq Handlers
  BY DEF Remember, TypeOK, Armed
<1>2. /\ over'[x] = Armed \ {x}
      /\ \A k \in Handlers \ {x} : over'[k] = over[k] \ {x}
  BY <1>1
<1>3. \A i \in Handlers : over'[i] \subseteq Armed' \ {i}
  BY <1>1, <1>2 DEF OverInv
<1>4. \A i, j \in Armed' : i # j => (j \in over'[i] <=> i \notin over'[j])
  <2>1. ASSUME NEW i \in Armed', NEW j \in Armed', i # j
        PROVE  j \in over'[i] <=> i \notin over'[j]
    <3>1. CASE i = x
      BY <1>1, <1>2, <2>1, <3>1
    <3>2. CASE j = x
      BY <1>1, <1>2, <2>1, <3>2
    <3>3. CASE i # x /\ j # x
      BY <1>1, <1>2, <2>1, <3>3 DEF OverInv
    <3>4. QED
      BY <3>1, <3>2, <3>3
  <2>2. QED
    BY <2>1
<1>5. ASSUME NEW i \in Armed', NEW j \in Armed', NEW k \in Armed',
             j \in over'[i], k \in over'[j]
      PROVE  k \in over'[i]
  <2>1. j # x /\ k # x
    <3>1. j # x
      BY <1>1, <1>2, <1>5
    <3>2. QED
      BY <1>1, <1>2, <1>5, <3>1
  <2>2. CASE i = x
    BY <1>1, <1>2, <2>1, <2>2
  <2>3. CASE i # x
    BY <1>1, <1>2, <1>5, <2>1, <2>3 DEF OverInv
  <2>4. QED
    BY <2>2, <2>3
<1>6. QED
  BY <1>1, <1>2, <1>3, <1>4, <1>5 DEF OverInv

\* A handler leaves the list, and the others keep their order.
LEMMA UnlinkNext ==
  ASSUME Inv, inserting = NULL, NEW x \in Armed, Unlink(x),
         Listed' = Listed \ {x},
         \A k \in Interrupts \ {x} : Cycles'[k] = Cycles[k],
         \A k \in Handlers \ {x} : over'[k] = over[k] \ {x}
  PROVE  /\ Chained'
         /\ IntList_Prev' \in [Interrupts -> Interrupts \cup {NONE}]
         /\ IntList_Next' \in [Interrupts -> Interrupts \cup {NONE}]
         /\ ActiveInt' \in Interrupts /\ ActiveInt_Cycles' \in Nat
<1> DEFINE S == Listed \ {x}
<1>1. /\ Linked(S, Pairs, ActiveInt', IntList_Prev', IntList_Next')
      /\ FirstWithout(x) = ActiveInt <=> x # ActiveInt
  BY UnlinkSound DEF Unlink
<1>2. S \subseteq Interrupts /\ ActiveInt' \in S
  BY <1>1 DEF Linked, Listed
<1>3. \A i, j \in S : <<i, j>> \in Pairs <=> <<i, j>> \in Pairs'
  <2>1. ASSUME NEW i \in S, NEW j \in S
        PROVE  Before(i, j) <=> Before(i, j)'
    <3>1. Cycles'[i] = Cycles[i] /\ Cycles'[j] = Cycles[j]
      BY <1>2
    <3>2. i # NULL => over'[i] = over[i] \ {x}
      BY <1>2 DEF Interrupts
    <3>3. QED
      BY <3>1, <3>2 DEF Before
  <2>2. QED
    BY <1>2, <2>1 DEF Pairs
<1>4. Linked(Listed', Pairs', ActiveInt', IntList_Prev', IntList_Next')
  BY <1>1, <1>3, SameOrder
<1>5. ActiveInt_Cycles' = Cycles'[ActiveInt']
  <2>1. ActiveInt_Cycles = Cycles[ActiveInt]
    BY DEF Inv, ListSound, HeadFirst
  <2>2. CASE x = ActiveInt
    BY <1>2, <2>2 DEF Unlink, FirstWithout
  <2>3. CASE x # ActiveInt
    BY <1>2, <2>1, <2>3 DEF Unlink, FirstWithout
  <2>4. QED
    BY <2>2, <2>3
<1>6. /\ Cycles \in [Interrupts -> Nat]
      /\ IntList_Prev \in [Interrupts -> Interrupts \cup {NONE}]
      /\ IntList_Next \in [Interrupts -> Interrupts \cup {NONE}]
  BY DEF Inv, TypeOK
<1>7. ActiveInt' \in Interrupts /\ ActiveInt_Cycles' \in Nat
  BY <1>2, <1>5, <1>6
<1>8. x \in Interrupts
  BY DEF Armed, Interrupts
<1>9. IntList_Prev' \in [Interrupts -> Interrupts \cup {NONE}]
  BY <1>6, <1>8 DEF Unlink, PrevWithout
<1>10. IntList_Next' \in [Interrupts -> Interrupts \cup {NONE}]
  BY <1>6, <1>8 DEF Unlink, NextWithout
<1>11. QED
  BY <1>4, <1>5, <1>7, <1>9, <1>10 DEF Chained

NothingBeforeHead == \A k \in Listed : ~Before(k, ActiveInt)

LEMMA HeadIsLeast == TypeOK /\ OverInv /\ ListSound => NothingBeforeHead
<1> SUFFICES ASSUME TypeOK, OverInv, ListSound, NEW k \in Listed
             PROVE  ~Before(k, ActiveInt)
  BY DEF NothingBeforeHead
<1>1. StrictOrder(ActiveSet, Pairs)
  BY PairsOrder DEF ListSound
<1>2. k \in ActiveSet /\ ActiveInt \in ActiveSet
  BY DEF ListSound, HeadFirst, Listed, ActiveSet
<1>3. \A i, j \in ActiveSet : <<i, j>> \in Pairs <=> Before(i, j)
  BY DEF Pairs, ActiveSet
<1>4. k = ActiveInt \/ Before(ActiveInt, k)
  BY DEF ListSound, HeadFirst
<1>5. QED
  BY <1>1, <1>2, <1>3, <1>4 DEF StrictOrder

LEMMA HeadIsLeastNext == TypeOK' /\ OverInv' /\ ListSound' => NothingBeforeHead'
  BY HeadIsLeast, PTL

\* A handler is armed or rearmed: its position is still to be found.
LEMMA RearmInv ==
  ASSUME Inv, MayCall, NEW x \in Handlers, NEW d, Rearm(x, d)
  PROVE  Inv'
<1> USE NoneIsNoHandler
<1>1. /\ TypeOK /\ OverInv /\ NullLast /\ ListSound /\ inserting = NULL
      /\ d \in Nat /\ d < Never /\ x \in Interrupts /\ x # NULL
  BY ConstantsAssumption DEF Inv, ListSound, MayCall, Rearm, Interrupts, NULL
<1>2. /\ Active' = [Active EXCEPT ![x] = TRUE]
      /\ Cycles' = [Cycles EXCEPT ![x] = d]
      /\ inserting' = x /\ Remember(x) /\ ops' \in 0..MaxOps
      /\ UNCHANGED <<loop, time>>
  BY <1>1, ConstantsAssumption DEF Rearm, Count, TypeOK
<1>3. /\ Active \in [Interrupts -> BOOLEAN] /\ Cycles \in [Interrupts -> Nat]
      /\ over \in [Handlers -> SUBSET Handlers]
  BY <1>1 DEF TypeOK
<1>4. /\ Armed' = Armed \cup {x}
      /\ Listed' = Listed \ {x}
      /\ \A k \in Interrupts \ {x} : Cycles'[k] = Cycles[k]
  BY <1>1, <1>2, <1>3 DEF Armed, Listed, Interrupts
<1>5. /\ OverInv' /\ over' \in [Handlers -> SUBSET Handlers]
      /\ over'[x] = Armed' \ {x}
      /\ \A k \in Handlers \ {x} : over'[k] = over[k] \ {x}
  BY <1>1, <1>2, <1>4, RememberOver
<1>6. /\ Chained'
      /\ IntList_Prev' \in [Interrupts -> Interrupts \cup {NONE}]
      /\ IntList_Next' \in [Interrupts -> Interrupts \cup {NONE}]
      /\ ActiveInt' \in Interrupts /\ ActiveInt_Cycles' \in Nat
      /\ cursor' = ActiveInt'
  <2>1. CASE Active[x]
    <3>1. x \in Armed /\ Unlink(x) /\ cursor' = FirstWithout(x)
      BY <2>1 DEF Armed, Rearm
    <3>2. cursor' = ActiveInt'
      BY <3>1 DEF Unlink
    <3>3. QED
      BY <1>1, <1>4, <1>5, <3>1, <3>2, UnlinkNext
  <2>2. CASE ~Active[x]
    <3>1. /\ UNCHANGED <<IntList_Prev, IntList_Next, ActiveInt, ActiveInt_Cycles>>
          /\ cursor' = ActiveInt
      BY <2>2 DEF Rearm
    <3>2. x \notin Listed /\ Listed' = Listed /\ Listed \subseteq Interrupts /\ x \notin Armed
      BY <1>4, <2>2 DEF Listed, Armed
    <3>3. \A i, j \in Listed : <<i, j>> \in Pairs <=> <<i, j>> \in Pairs'
      <4>1. ASSUME NEW i \in Listed, NEW j \in Listed
            PROVE  Before(i, j) <=> Before(i, j)'
        <5>1. Cycles'[i] = Cycles[i] /\ Cycles'[j] = Cycles[j]
          BY <1>4, <3>2
        <5>2. i # NULL => over'[i] = over[i] \ {x}
          BY <1>5, <3>2 DEF Interrupts
        <5>3. j # x
          BY <3>2
        <5>4. QED
          BY <5>1, <5>2, <5>3 DEF Before
      <4>2. QED
        BY <3>2, <4>1 DEF Pairs
    <3>4. Chained
      BY <1>1, ListIsChained
    <3>5. Linked(Listed', Pairs', ActiveInt', IntList_Prev', IntList_Next')
      <4>1. Linked(Listed, Pairs', ActiveInt, IntList_Prev, IntList_Next)
        BY <3>3, <3>4, SameOrder DEF Chained
      <4>2. QED
        BY <3>1, <3>2, <4>1
    <3>6. ActiveInt_Cycles' = Cycles'[ActiveInt']
      <4>1. ActiveInt \in Listed /\ ActiveInt_Cycles = Cycles[ActiveInt]
        BY <3>4 DEF Chained, Linked
      <4>2. QED
        BY <1>4, <3>1, <3>2, <4>1
    <3>7. QED
      BY <1>1, <3>1, <3>5, <3>6 DEF Chained, TypeOK
  <2>3. QED
    BY <2>1, <2>2
<1>7. TypeOK'
  BY <1>1, <1>2, <1>3, <1>5, <1>6 DEF TypeOK, loop, time
<1>8. NullLast'
  <2>1. IntList_Next'[NULL] = NONE
    BY <1>6 DEF Chained, Linked
  <2>2. \A i \in Handlers : Cycles'[i] < Never
    BY <1>1, <1>2, <1>3 DEF NullLast, Interrupts
  <2>3. QED
    BY <1>1, <1>2, <1>3, <2>1, <2>2 DEF NullLast
<1>9. ListSound'
  BY <1>6, <1>8, ChainedNext
<1>10. WalkInv'
  <2>1. NothingBeforeHead'
    BY <1>5, <1>7, <1>9, HeadIsLeastNext
  <2>2. x \in Armed' /\ cursor' \in Listed'
    BY <1>4, <1>6 DEF Chained, Linked
  <2>3. QED
    BY <1>2, <1>5, <1>6, <2>1, <2>2 DEF WalkInv, NothingBeforeHead, Before
<1>11. PhaseInv'
  BY <1>1, <1>2 DEF Inv, PhaseInv, MayCall, loop, time
<1>12. QED
  BY <1>5, <1>7, <1>9, <1>10, <1>11 DEF Inv

\* A handler leaves the list for good: removed, or acknowledged.
LEMMA LeaveInv ==
  ASSUME Inv, inserting = NULL, inserting' = NULL, NEW x \in Armed,
         Unlink(x), Forget(x), Cycles' = Cycles,
         Active' = [Active EXCEPT ![x] = FALSE]
  PROVE  /\ OverInv' /\ WalkInv' /\ ListSound'
         /\ Active' \in [Interrupts -> BOOLEAN]
         /\ Cycles' \in [Interrupts -> Nat]
         /\ IntList_Prev' \in [Interrupts -> Interrupts \cup {NONE}]
         /\ IntList_Next' \in [Interrupts -> Interrupts \cup {NONE}]
         /\ ActiveInt' \in Interrupts /\ ActiveInt_Cycles' \in Nat
         /\ over' \in [Handlers -> SUBSET Handlers]
<1>1. /\ TypeOK /\ OverInv /\ NullLast /\ ListSound
      /\ Active \in [Interrupts -> BOOLEAN] /\ Cycles \in [Interrupts -> Nat]
      /\ over \in [Handlers -> SUBSET Handlers]
      /\ x \in Handlers /\ x # NULL /\ NULL \in Interrupts
  BY ConstantsAssumption, NoneIsNoHandler
     DEF Inv, ListSound, TypeOK, Armed, NULL
<1>2. Armed' = Armed \ {x} /\ Listed' = Listed \ {x}
  BY <1>1 DEF Armed, Listed, Interrupts
<1>3. OverInv' /\ over' \in [Handlers -> SUBSET Handlers]
  BY <1>1, <1>2, ForgetOver
<1>4. \A k \in Handlers \ {x} : over'[k] = over[k] \ {x}
  BY <1>1 DEF Forget
<1>5. /\ Chained'
      /\ IntList_Prev' \in [Interrupts -> Interrupts \cup {NONE}]
      /\ IntList_Next' \in [Interrupts -> Interrupts \cup {NONE}]
      /\ ActiveInt' \in Interrupts /\ ActiveInt_Cycles' \in Nat
  BY <1>2, <1>4, UnlinkNext
<1>6. NullLast'
  BY <1>1, <1>5 DEF NullLast, Chained, Linked
<1>7. ListSound'
  BY <1>5, <1>6, ChainedNext
<1>8. WalkInv'
  BY DEF WalkInv
<1>9. QED
  BY <1>1, <1>3, <1>5, <1>7, <1>8

LEMMA RemoveInv ==
  ASSUME Inv, NEW x \in Handlers, RemovePendingInterrupt(x)
  PROVE  Inv'
<1>1. /\ x \in Armed /\ inserting = NULL /\ inserting' = NULL
      /\ Unlink(x) /\ Forget(x) /\ UNCHANGED <<Cycles, loop, time, inserting, cursor>>
      /\ Active' = [Active EXCEPT ![x] = FALSE]
      /\ ops' \in 0..MaxOps
  BY ConstantsAssumption DEF RemovePendingInterrupt, MayCall, Count, Armed, Inv, TypeOK
<1>2. /\ OverInv' /\ WalkInv' /\ ListSound'
      /\ Active' \in [Interrupts -> BOOLEAN]
      /\ Cycles' \in [Interrupts -> Nat]
      /\ IntList_Prev' \in [Interrupts -> Interrupts \cup {NONE}]
      /\ IntList_Next' \in [Interrupts -> Interrupts \cup {NONE}]
      /\ ActiveInt' \in Interrupts /\ ActiveInt_Cycles' \in Nat
      /\ over' \in [Handlers -> SUBSET Handlers]
  BY <1>1, LeaveInv
<1>3. TypeOK'
  BY <1>1, <1>2 DEF Inv, TypeOK, loop, time
<1>4. PhaseInv'
  BY <1>1 DEF Inv, PhaseInv, loop, time, RemovePendingInterrupt, MayCall
<1>5. QED
  BY <1>2, <1>3, <1>4 DEF Inv

LEMMA AcknowledgeInv ==
  ASSUME Inv, AcknowledgeInterrupt
  PROVE  Inv'
<1>0. Acknowledges
  BY ConstantsAssumption DEF Inv, PhaseInv, AcknowledgeInterrupt, Acknowledges
<1>1. /\ ActiveInt # NULL /\ running # NULL /\ inserting = NULL /\ inserting' = NULL
      /\ ActiveInt \in Armed
  BY DEF Inv, PhaseInv, ListSound, HeadFirst, Listed, Armed, AcknowledgeInterrupt,
         Interrupts
<1>2. Unlink(ActiveInt)
  BY <1>0 DEF Unlink, PrevWithout, NextWithout, FirstWithout, AcknowledgeInterrupt
<1>3. /\ Forget(ActiveInt) /\ Cycles' = Cycles
      /\ Active' = [Active EXCEPT ![ActiveInt] = FALSE]
      /\ ops' \in 0..MaxOps
  BY <1>0, ConstantsAssumption DEF AcknowledgeInterrupt, Inv, TypeOK
<1>4. /\ OverInv' /\ WalkInv' /\ ListSound'
      /\ Active' \in [Interrupts -> BOOLEAN]
      /\ Cycles' \in [Interrupts -> Nat]
      /\ IntList_Prev' \in [Interrupts -> Interrupts \cup {NONE}]
      /\ IntList_Next' \in [Interrupts -> Interrupts \cup {NONE}]
      /\ ActiveInt' \in Interrupts /\ ActiveInt_Cycles' \in Nat
      /\ over' \in [Handlers -> SUBSET Handlers]
  BY <1>1, <1>2, <1>3, LeaveInv
<1>5. TypeOK'
  BY <1>3, <1>4 DEF Inv, TypeOK, AcknowledgeInterrupt, time, Phases
<1>6. PhaseInv'
  BY <1>1 DEF Inv, PhaseInv, AcknowledgeInterrupt, time
<1>7. QED
  BY <1>4, <1>5, <1>6 DEF Inv

\* One more handler is passed: its date is earlier, and so are those of the
\* handlers before it.
LEMMA WalkStepInv ==
  ASSUME Inv, WalkStep
  PROVE  Inv'
<1>1. /\ inserting # NULL /\ inserting \in Armed
      /\ over[inserting] = Armed \ {inserting}
      /\ cursor \in Listed
      /\ \A k \in Listed : Before(k, cursor) => Cycles[k] < Cycles[inserting]
      /\ Cycles[inserting] > Cycles[cursor]
      /\ cursor' = IntList_Next[cursor]
      /\ UNCHANGED <<list, loop, time, inserting, ops, over>>
  BY DEF Inv, WalkInv, WalkStep
<1>2. cursor # NULL
  BY <1>1, ConstantsAssumption DEF Inv, TypeOK, ListSound, NullLast, Armed, Interrupts, NULL
<1>3. cursor' \in Listed /\ Follows(cursor, cursor')
  BY <1>1, <1>2 DEF Inv, ListSound, ForwardLinks
<1>4. ASSUME NEW k \in Listed, Before(k, cursor')
      PROVE  Cycles[k] < Cycles[inserting]
  <2>1. k = cursor \/ Before(k, cursor) \/ Before(cursor, k)
    <3>1. StrictOrder(ActiveSet, Pairs)
      BY PairsOrder DEF Inv, ListSound
    <3>2. k \in ActiveSet /\ cursor \in ActiveSet
      BY <1>1 DEF Listed, ActiveSet
    <3>3. QED
      BY <3>1, <3>2 DEF StrictOrder, Pairs
  <2>2. CASE Before(cursor, k)
    <3>1. StrictOrder(ActiveSet, Pairs)
      BY PairsOrder DEF Inv, ListSound
    <3>2. /\ k \in ActiveSet /\ cursor' \in ActiveSet
          /\ \A i, j \in ActiveSet : <<i, j>> \in Pairs <=> Before(i, j)
      BY <1>3 DEF Listed, ActiveSet, Pairs
    <3>3. k = cursor' \/ Before(cursor', k)
      BY <1>3, <2>2 DEF Follows
    <3>4. QED
      BY <1>4, <3>1, <3>2, <3>3 DEF StrictOrder
  <2>3. QED
    BY <1>1, <2>1, <2>2
<1>5. Listed' = Listed /\ Armed' = Armed
  BY <1>1 DEF Listed, Armed, list
<1>6. WalkInv'
  BY <1>1, <1>3, <1>4, <1>5 DEF WalkInv, Before, list
<1>7. TypeOK'
  BY <1>1, <1>3 DEF Inv, TypeOK, list, loop, time, Listed
<1>8. OverInv' /\ PhaseInv' /\ ListSound'
  BY <1>1, <1>5 DEF Inv, OverInv, PhaseInv, ListSound, NullLast, HeadFirst, ForwardLinks,
                    BackwardLinks, Follows, Before, list, loop, time
<1>9. QED
  BY <1>6, <1>7, <1>8 DEF Inv

\* The handler enters the list.
LEMMA LinkInv ==
  ASSUME Inv, Link
  PROVE  Inv'
<1> DEFINE x == inserting
<1>1. /\ x # NULL /\ x \in Armed
      /\ over[x] = Armed \ {x}
      /\ cursor \in Listed
      /\ \A k \in Listed : Before(k, cursor) => Cycles[k] < Cycles[x]
      /\ Cycles[x] <= Cycles[cursor]
      /\ inserting' = NULL /\ cursor' = NULL
      /\ UNCHANGED <<Active, Cycles, loop, time, ops, over>>
  BY DEF Inv, WalkInv, Link
<1>2. /\ TypeOK /\ OverInv /\ NullLast /\ ListSound
      /\ IntList_Prev \in [Interrupts -> Interrupts \cup {NONE}]
      /\ IntList_Next \in [Interrupts -> Interrupts \cup {NONE}]
      /\ \A k \in Interrupts : Cycles[k] \in Nat
      /\ Never \in Nat
  BY ConstantsAssumption DEF Inv, TypeOK, ListSound
<1>3. /\ x \in Interrupts \ Listed /\ Listed \cup {x} = ActiveSet
      /\ Listed' = ActiveSet /\ Listed \in SUBSET Interrupts
      /\ Armed' = Armed /\ Pairs' = Pairs
  BY <1>1 DEF Listed, ActiveSet, Armed, Pairs, Before, Interrupts
<1>4. StrictOrder(Listed \cup {x}, Pairs)
  BY <1>2, <1>3, PairsOrder
<1>5. Linked(Listed, Pairs, ActiveInt, IntList_Prev, IntList_Next) /\ ActiveInt \in Listed
      /\ ActiveInt_Cycles = Cycles[ActiveInt]
  BY <1>2, ListIsChained DEF Chained, Linked
<1>6. <<x, cursor>> \in Pairs
  <2>1. CASE Cycles[x] < Cycles[cursor]
    BY <1>1, <1>3, <2>1 DEF Pairs, Before
  <2>2. CASE Cycles[x] = Cycles[cursor]
    <3>1. cursor # NULL /\ cursor # x /\ cursor \in Interrupts
      BY <1>1, <1>2, <1>3, <2>2 DEF NullLast, Armed
    <3>2. cursor \in Armed
      BY <1>1, <3>1 DEF Listed, Armed, Interrupts
    <3>3. QED
      BY <1>1, <1>3, <2>2, <3>1, <3>2 DEF Pairs, Before
  <2>3. QED
    BY <1>1, <1>2, <1>3, <2>1, <2>2
<1>7. \A k \in Listed : <<k, cursor>> \in Pairs => <<k, x>> \in Pairs
  BY <1>1, <1>3 DEF Pairs, Before
<1>8. Linked(Listed \cup {x}, Pairs,
             IF cursor = ActiveInt THEN x ELSE ActiveInt,
             [IntList_Prev EXCEPT ![cursor] = x,
                ![x] = IF cursor = ActiveInt THEN NONE ELSE IntList_Prev[cursor]],
             IF cursor = ActiveInt
               THEN [IntList_Next EXCEPT ![x] = cursor]
               ELSE [IntList_Next EXCEPT ![x] = cursor, ![IntList_Prev[cursor]] = x])
  BY <1>1, <1>2, <1>3, <1>4, <1>5, <1>6, <1>7, InsertBefore
<1>9. /\ ActiveInt' = IF cursor = ActiveInt THEN x ELSE ActiveInt
      /\ IntList_Prev' = [IntList_Prev EXCEPT ![cursor] = x,
                ![x] = IF cursor = ActiveInt THEN NONE ELSE IntList_Prev[cursor]]
      /\ IntList_Next' = IF cursor = ActiveInt
               THEN [IntList_Next EXCEPT ![x] = cursor]
               ELSE [IntList_Next EXCEPT ![x] = cursor, ![IntList_Prev[cursor]] = x]
      /\ ActiveInt_Cycles' = Cycles'[ActiveInt']
  <2>1. CASE cursor = ActiveInt
    BY <1>1, <2>1 DEF Link
  <2>2. CASE cursor # ActiveInt
    BY <1>1, <1>5, <2>2 DEF Link
  <2>3. QED
    BY <2>1, <2>2
<1>10. Chained'
  BY <1>3, <1>8, <1>9 DEF Chained
<1>11. NullLast'
  BY <1>1, <1>2, <1>10 DEF NullLast, Chained, Linked
<1>12. ListSound'
  BY <1>10, <1>11, ChainedNext
<1>13. TypeOK'
  <2>1. IntList_Prev[cursor] \in Interrupts \cup {NONE}
    BY <1>1, <1>2, <1>3
  <2>2. cursor \in Interrupts /\ x \in Interrupts
    BY <1>1, <1>3
  <2>3. IntList_Prev' \in [Interrupts -> Interrupts \cup {NONE}]
    BY <1>2, <1>9, <2>1, <2>2
  <2>4. IntList_Next' \in [Interrupts -> Interrupts \cup {NONE}]
    BY <1>2, <1>9, <2>2
  <2>5. ActiveInt' \in Interrupts
    BY <1>2, <1>9, <2>2 DEF TypeOK
  <2>6. ActiveInt_Cycles' \in Nat
    BY <1>1, <1>2, <1>9, <2>5
  <2>7. QED
    BY <1>1, <1>2, <2>3, <2>4, <2>5, <2>6, NoneIsNoHandler DEF TypeOK, loop, time
<1>14. OverInv' /\ WalkInv' /\ PhaseInv'
  BY <1>1, <1>3 DEF Inv, OverInv, WalkInv, PhaseInv, loop, time, Link
<1>15. QED
  BY <1>12, <1>13, <1>14 DEF Inv

\* The list CycInt_Reset leaves.
LEMMA EmptySound ==
  Active = NoneActive /\ Cycles = NoCycles /\ IntList_Prev = NoLinks
  /\ IntList_Next = NoLinks /\ ActiveInt = NULL /\ ActiveInt_Cycles = Never
  /\ over = [i \in Handlers |-> {}] /\ inserting = NULL
  => OverInv /\ WalkInv /\ ListSound
<1> SUFFICES ASSUME Active = NoneActive, Cycles = NoCycles, IntList_Prev = NoLinks,
                    IntList_Next = NoLinks, ActiveInt = NULL, ActiveInt_Cycles = Never,
                    over = [i \in Handlers |-> {}], inserting = NULL
             PROVE  OverInv /\ WalkInv /\ ListSound
  OBVIOUS
<1>1. /\ NULL \in Interrupts /\ \A i \in Handlers : i \in Interrupts /\ i # NULL
      /\ 0 < Never
  BY ConstantsAssumption DEF Interrupts, NULL
<1>2. Listed = {NULL} /\ Armed = {}
  BY <1>1 DEF Listed, Armed, NoneActive
<1>3. NullLast
  BY <1>1 DEF NullLast, NoneActive, NoCycles, NoLinks
<1>4. HeadFirst
  BY <1>1, <1>2 DEF HeadFirst, NoCycles, NoLinks
<1>5. ForwardLinks /\ BackwardLinks
  BY <1>2 DEF ForwardLinks, BackwardLinks
<1>6. OverInv /\ WalkInv
  BY <1>2 DEF OverInv, WalkInv
<1>7. QED
  BY <1>3, <1>4, <1>5, <1>6 DEF ListSound

LEMMA EmptySoundNext ==
  Active' = NoneActive /\ Cycles' = NoCycles /\ IntList_Prev' = NoLinks
  /\ IntList_Next' = NoLinks /\ ActiveInt' = NULL /\ ActiveInt_Cycles' = Never
  /\ over' = [i \in Handlers |-> {}] /\ inserting' = NULL
  => OverInv' /\ WalkInv' /\ ListSound'
<1>1. (Active = NoneActive /\ Cycles = NoCycles /\ IntList_Prev = NoLinks
       /\ IntList_Next = NoLinks /\ ActiveInt = NULL /\ ActiveInt_Cycles = Never
       /\ over = [i \in Handlers |-> {}] /\ inserting = NULL
       => OverInv /\ WalkInv /\ ListSound)'
  BY EmptySound, PTL
<1>2. QED
  BY <1>1

LEMMA EmptyTypes ==
  /\ NoneActive \in [Interrupts -> BOOLEAN]
  /\ NoCycles \in [Interrupts -> Nat]
  /\ NoLinks \in [Interrupts -> Interrupts \cup {NONE}]
  /\ NULL \in Interrupts /\ Never \in Nat
  /\ [i \in Handlers |-> {}] \in [Handlers -> SUBSET Handlers]
  BY ConstantsAssumption DEF NoneActive, NoCycles, NoLinks, Interrupts

\* A step that leaves the list alone.
LEMMA ListUnchanged ==
  ASSUME Inv, UNCHANGED <<list, over, inserting, cursor>>
  PROVE  OverInv' /\ WalkInv' /\ ListSound'
<1>1. Listed' = Listed /\ Armed' = Armed
  BY DEF Listed, Armed, list
<1>2. QED
  BY <1>1 DEF Inv, OverInv, WalkInv, ListSound, NullLast, HeadFirst, ForwardLinks,
              BackwardLinks, Follows, Before, list

-----------------------------------------------------------------------------
(* The invariant holds: initially, and after every step. *)

LEMMA InitInv == Init => Inv
<1> SUFFICES ASSUME Init PROVE Inv
  OBVIOUS
<1>1. OverInv /\ WalkInv /\ ListSound
  BY EmptySound DEF Init
<1>2. TypeOK
  BY EmptyTypes, ConstantsAssumption DEF Init, TypeOK, Phases
<1>3. PhaseInv
  BY ConstantsAssumption DEF Init, PhaseInv
<1>4. QED
  BY <1>1, <1>2, <1>3 DEF Inv

LEMMA ResetInv ==
  ASSUME Inv, Reset
  PROVE  Inv'
<1>1. OverInv' /\ WalkInv' /\ ListSound'
  BY EmptySoundNext DEF Reset, MayCall
<1>2. TypeOK'
  <2>1. ops' \in 0..MaxOps
    BY ConstantsAssumption DEF Reset, Count, Inv, TypeOK
  <2>2. QED
    BY <2>1, EmptyTypes DEF Reset, Inv, TypeOK, time
<1>3. PhaseInv'
  BY DEF Reset, MayCall, Inv, PhaseInv, time
<1>4. QED
  BY <1>1, <1>2, <1>3 DEF Inv

\* A machine that was reset in the middle of a handler has one timer.
LEMMA CommandInv ==
  ASSUME Inv, NEW x \in Handlers, NEW t \in Delays, Command(x, t)
  PROVE  Inv'
<1> DEFINE d == Immediate + t
<1>1. /\ x # NULL /\ x \in Interrupts /\ NULL \in Interrupts /\ 0 < Never /\ Never \in Nat
      /\ \A i \in Handlers : i \in Interrupts /\ i # NULL
      /\ d \in Nat /\ d < Never
  BY ConstantsAssumption DEF Command, Interrupts, NULL
<1> HIDE DEF d
<1>2. /\ Active' = [NoneActive EXCEPT ![x] = TRUE]
      /\ Cycles' = [NoCycles EXCEPT ![x] = d]
      /\ IntList_Prev' = [NoLinks EXCEPT ![NULL] = x]
      /\ IntList_Next' = [NoLinks EXCEPT ![x] = NULL]
      /\ ActiveInt' = x /\ ActiveInt_Cycles' = d
      /\ over' = [i \in Handlers |-> {}]
      /\ PendingInterruptCount' = 0
      /\ UNCHANGED <<limit, phase, running, nested, time, inserting, cursor>>
      /\ phase = "called" /\ running = AutoSend /\ Commands /\ ops' \in 0..MaxOps
  BY ConstantsAssumption DEF Command, Count, d, Inv, TypeOK
<1>3. inserting' = NULL
  BY <1>2 DEF Inv, PhaseInv
<1>4. /\ Active'[x] /\ Active'[NULL] /\ \A i \in Interrupts \ {x, NULL} : ~Active'[i]
      /\ Cycles'[x] = d /\ Cycles'[NULL] = Never
      /\ \A i \in Handlers \ {x} : Cycles'[i] = 0
      /\ IntList_Prev'[x] = NONE /\ IntList_Prev'[NULL] = x
      /\ IntList_Next'[x] = NULL /\ IntList_Next'[NULL] = NONE
  BY <1>1, <1>2 DEF NoneActive, NoCycles, NoLinks
<1>5. Listed' = {x, NULL} /\ Armed' = {x}
  BY <1>1, <1>3, <1>4 DEF Listed, Armed
<1>6. NullLast'
  BY <1>1, <1>4 DEF NullLast
<1>7. Before(x, NULL)' /\ ~Before(x, x)' /\ ~Before(NULL, x)' /\ ~Before(NULL, NULL)'
  BY <1>1, <1>2, <1>4 DEF Before
<1>8. HeadFirst'
  BY <1>2, <1>4, <1>5, <1>7 DEF HeadFirst
<1>9. ForwardLinks'
  BY <1>1, <1>4, <1>5, <1>7 DEF ForwardLinks, Follows
<1>10. BackwardLinks'
  BY <1>2, <1>4, <1>5 DEF BackwardLinks
<1>11. OverInv' /\ WalkInv'
  BY <1>2, <1>3, <1>5 DEF OverInv, WalkInv
<1>12. TypeOK'
  <2>1. /\ Active' \in [Interrupts -> BOOLEAN] /\ Cycles' \in [Interrupts -> Nat]
        /\ IntList_Prev' \in [Interrupts -> Interrupts \cup {NONE}]
        /\ IntList_Next' \in [Interrupts -> Interrupts \cup {NONE}]
    BY <1>1, <1>2, EmptyTypes
  <2>2. QED
    BY <1>1, <1>2, <2>1, EmptyTypes DEF Inv, TypeOK, time
<1>13. PhaseInv'
  BY <1>1, <1>2, <1>3 DEF Inv, PhaseInv, time
<1>14. QED
  BY <1>6, <1>8, <1>9, <1>10, <1>11, <1>12, <1>13 DEF Inv, ListSound

\* The steps of the CPU and of the loop, which leave the list alone.
LEMMA LoopInv ==
  ASSUME Inv,
         \/ \E c \in BusCycles : AddCycles(c)
         \/ Process \/ ProcessNested \/ UpdateTimers
         \/ CallActiveHandler \/ Return \/ EndProcess
  PROVE  Inv'
<1> USE ConstantsAssumption DEF Inv, TypeOK, PhaseInv, Phases, list
<1>1. ASSUME NEW c \in BusCycles, AddCycles(c)
      PROVE  Inv'
  <2>1. UNCHANGED <<list, over, inserting, cursor>>
    BY <1>1 DEF AddCycles
  <2>2. OverInv' /\ WalkInv' /\ ListSound'
    BY <2>1, ListUnchanged
  <2>3. /\ clock' \in Nat /\ currcycle' \in Nat
        /\ clock' + currcycle' <= MaxClock
        /\ limit <= clock' + currcycle'
    BY <1>1 DEF AddCycles
  <2>4. TypeOK' /\ PhaseInv'
    BY <1>1, <2>3 DEF AddCycles, loop
  <2>5. QED
    BY <2>2, <2>4
<1>2. CASE Process
  <2>1. OverInv' /\ WalkInv' /\ ListSound'
    BY <1>2, ListUnchanged DEF Process
  <2>2. TypeOK' /\ PhaseInv'
    BY <1>2 DEF Process
  <2>3. QED
    BY <2>1, <2>2
<1>3. CASE ProcessNested
  <2>1. OverInv' /\ WalkInv' /\ ListSound'
    BY <1>3, ListUnchanged DEF ProcessNested
  <2>2. TypeOK' /\ PhaseInv'
    BY <1>3, EmptyTypes DEF ProcessNested, Count, time
  <2>3. QED
    BY <2>1, <2>2
<1>4. CASE UpdateTimers
  <2>1. OverInv' /\ WalkInv' /\ ListSound'
    BY <1>4, ListUnchanged DEF UpdateTimers
  <2>2. TypeOK' /\ PhaseInv'
    BY <1>4 DEF UpdateTimers, Count, time
  <2>3. QED
    BY <2>1, <2>2
<1>5. CASE CallActiveHandler
  <2>1. OverInv' /\ WalkInv' /\ ListSound'
    BY <1>5, ListUnchanged DEF CallActiveHandler
  <2>2. ActiveInt # NULL
    <3>1. ActiveInt_Cycles = Cycles[ActiveInt] /\ Cycles[NULL] = Never
      BY DEF ListSound, HeadFirst, NullLast
    <3>2. limit * Scale <= MaxClock * Scale
      <4>1. limit \in Nat /\ MaxClock \in Nat /\ Scale \in Nat /\ limit <= MaxClock
        BY <1>5
      <4>2. QED
        BY <4>1, SMT
    <3>3. limit * Scale \in Nat /\ MaxClock * Scale \in Nat /\ MaxClock * Scale < Never
      OBVIOUS
    <3>4. limit * Scale < Never
      BY <3>2, <3>3
    <3>5. QED
      BY <1>5, <3>1, <3>3, <3>4 DEF CallActiveHandler
  <2>3. TypeOK'
    <3>1. limit * Scale \in Int
      OBVIOUS
    <3>2. PendingInterruptCount' \in Int
      BY <1>5, <3>1 DEF CallActiveHandler
    <3>3. QED
      BY <1>5, <3>2 DEF CallActiveHandler, time
  <2>4. PhaseInv'
    BY <1>5, <2>2 DEF CallActiveHandler, time
  <2>5. QED
    BY <2>1, <2>3, <2>4
<1>6. CASE Return
  <2>1. OverInv' /\ WalkInv' /\ ListSound'
    BY <1>6, ListUnchanged DEF Return
  <2>2. TypeOK' /\ PhaseInv'
    BY <1>6, EmptyTypes DEF Return, time
  <2>3. QED
    BY <2>1, <2>2
<1>7. CASE EndProcess
  <2>1. OverInv' /\ WalkInv' /\ ListSound'
    BY <1>7, ListUnchanged DEF EndProcess
  <2>2. TypeOK' /\ PhaseInv'
    BY <1>7, EmptyTypes DEF EndProcess, time
  <2>3. QED
    BY <2>1, <2>2
<1>8. QED
  BY <1>1, <1>2, <1>3, <1>4, <1>5, <1>6, <1>7

LEMMA NextInv == Inv /\ [Next]_vars => Inv'
<1> SUFFICES ASSUME Inv, [Next]_vars PROVE Inv'
  OBVIOUS
<1>1. ASSUME NEW i \in Handlers, RemovePendingInterrupt(i) PROVE Inv'
  BY <1>1, RemoveInv
<1>2. ASSUME NEW i \in Handlers, NEW t \in Delays, AddRelativeInterrupt(i, t) PROVE Inv'
  BY <1>2, RearmInv DEF AddRelativeInterrupt
<1>3. ASSUME NEW t \in Delays, RestartTimer(t) PROVE Inv'
  <2>1. running \in Handlers
    BY <1>3 DEF Inv, TypeOK, PhaseInv, RestartTimer, Interrupts
  <2>2. MayCall /\ Rearm(running, t + Immediate - PendingCyclesOver(t))
    BY <1>3 DEF RestartTimer
  <2>3. QED
    BY <2>1, <2>2, RearmInv
<1>4. ASSUME NEW t \in Changes, ModifyInterrupt(t) PROVE Inv'
  <2>1. MayCall /\ Rearm(Vbl, Cycles[Vbl] + t) /\ Vbl \in Handlers
    BY <1>4, ConstantsAssumption DEF ModifyInterrupt
  <2>2. QED
    BY <2>1, RearmInv
<1>5. CASE WalkStep
  BY <1>5, WalkStepInv
<1>6. CASE Link
  BY <1>6, LinkInv
<1>7. CASE Reset
  BY <1>7, ResetInv
<1>8. CASE AcknowledgeInterrupt
  BY <1>8, AcknowledgeInv
<1>9. CASE (\E c \in BusCycles : AddCycles(c)) \/ Process \/ ProcessNested \/ UpdateTimers
           \/ CallActiveHandler \/ Return \/ EndProcess
  BY <1>9, LoopInv
<1>12. ASSUME NEW i \in Handlers, NEW t \in Delays, Command(i, t) PROVE Inv'
  BY <1>12, CommandInv
<1>10. CASE UNCHANGED vars
  <2>1. OverInv' /\ WalkInv' /\ ListSound'
    BY <1>10, ListUnchanged DEF vars
  <2>2. TypeOK' /\ PhaseInv'
    BY <1>10 DEF Inv, TypeOK, PhaseInv, vars, list, loop, time
  <2>3. QED
    BY <2>1, <2>2 DEF Inv
<1>11. QED
  BY <1>1, <1>2, <1>3, <1>4, <1>5, <1>6, <1>7, <1>8, <1>9, <1>10, <1>12 DEF Next

THEOREM Invariance == Spec => []Inv
<1>1. QED
  BY InitInv, NextInv, PTL DEF Spec

\* The variables keep their types, whatever the handlers and the bounds.
THEOREM TypeCorrect == Spec => []TypeOK
<1>1. Inv => TypeOK
  BY DEF Inv
<1>2. QED
  BY <1>1, Invariance, PTL

\* The list always holds every active handler, in the order of their dates,
\* whatever sequence of insertions and removals built it.
THEOREM ListCorrect == Spec => []ListSound
<1>1. Inv => ListSound
  BY DEF Inv
<1>2. QED
  BY <1>1, Invariance, PTL

\* The assertion of CycInt_InsertInt never fails.
THEOREM WalkCorrect == Spec => []WalkAssertion
<1>1. Inv => WalkAssertion
  <2> SUFFICES ASSUME Inv, inserting # NULL, Cycles[inserting] > Cycles[cursor]
               PROVE  IntList_Next[cursor] >= 0
    BY DEF WalkAssertion
  <2>1. cursor \in Listed /\ inserting \in Armed
    BY DEF Inv, WalkInv
  <2>2. cursor # NULL
    <3>1. Cycles[NULL] = Never /\ Cycles[inserting] < Never
      BY <2>1 DEF Inv, ListSound, NullLast, Armed
    <3>2. Cycles[inserting] \in Nat /\ Never \in Nat
      BY ConstantsAssumption DEF Inv, TypeOK
    <3>3. QED
      BY <3>1, <3>2
  <2>3. IntList_Next[cursor] \in Interrupts
    BY <2>1, <2>2 DEF Inv, ListSound, ForwardLinks, Listed
  <2>4. Interrupts \subseteq Nat
    BY ConstantsAssumption DEF Interrupts, NULL
  <2>5. IntList_Next[cursor] \in Nat
    BY <2>3, <2>4
  <2>6. QED
    BY <2>5
<1>2. QED
  BY <1>1, Invariance, PTL

\* No handler that is due is left when the loop ends: the head of the list is
\* not due, and no other date is earlier.
THEOREM NoneLeftDueCorrect == Spec => NoneLeftDue
<1>1. ASSUME Inv, Next, phase = "process", phase' # "called"
      PROVE  EndProcess
  BY <1>1 DEF Next, RemovePendingInterrupt, AddRelativeInterrupt, RestartTimer,
              ModifyInterrupt, MayCall, WalkStep, Link, Reset, AddCycles, Process,
              ProcessNested, UpdateTimers, CallActiveHandler, Command, AcknowledgeInterrupt,
              Return, Inv, PhaseInv
<1>2. ASSUME Inv, EndProcess, NEW i \in Handlers, Active[i]
      PROVE  Cycles[i] > limit * Scale
  <2>1. i \in Listed /\ ActiveInt_Cycles > limit * Scale
    BY <1>2 DEF EndProcess, Inv, PhaseInv, Listed, Interrupts
  <2>2. Cycles[ActiveInt] <= Cycles[i] /\ ActiveInt_Cycles = Cycles[ActiveInt]
    BY <1>2, <2>1 DEF Inv, TypeOK, ListSound, HeadFirst, Before, Listed
  <2>3. Cycles[i] \in Nat /\ ActiveInt_Cycles \in Nat /\ limit * Scale \in Nat
    BY <1>2, ConstantsAssumption DEF Inv, TypeOK, Interrupts
  <2>4. QED
    BY <2>1, <2>2, <2>3
<1>3. Inv /\ [Next]_vars =>
        [phase = "process" /\ phase' # "called" =>
           \A i \in Handlers : Active[i] => Cycles[i] > limit * Scale]_vars
  BY <1>1, <1>2
<1>4. QED
  BY <1>3, Invariance, PTL DEF Spec, NoneLeftDue

-----------------------------------------------------------------------------
(* How late a handler is *)

\* The multiples of t are those of the whole numbers.
LEMMA MultipleOf ==
  ASSUME NEW t \in Nat \ {0}, NEW k \in Nat
  PROVE  (t * k) % t = 0
<1> DEFINE x == t * k
           q == x \div t
           r == x % t
<1>1. x \in Nat
  OBVIOUS
<1>2. q \in Int /\ r \in 0 .. t - 1 /\ x = t * q + r
  BY <1>1
<1> HIDE DEF q, r
<1>3. t * (k - q) = r
  BY <1>2
<1>4. k - q \in Int
  BY <1>2
<1>5. CASE k - q <= -1
  <2>1. t * (q - k) >= t
    <3>1. t * (q - k) = t + t * (q - k - 1)
      BY <1>2
    <3>2. t * (q - k - 1) >= 0
      BY <1>2, <1>5
    <3>3. t * (q - k - 1) \in Int
      BY <1>2
    <3>4. QED
      BY <3>1, <3>2, <3>3
  <2>2. t * (q - k) = 0 - r
    BY <1>2, <1>3
  <2>3. QED
    BY <1>2, <2>1, <2>2
<1>6. CASE k - q >= 1
  <2>1. t * (k - q) = t + t * (k - q - 1)
    BY <1>2
  <2>2. t * (k - q - 1) >= 0
    BY <1>2, <1>6
  <2>3. t * (k - q - 1) \in Int
    BY <1>2
  <2>4. QED
    BY <1>2, <1>3, <2>1, <2>2, <2>3
<1>7. CASE k - q = 0
  BY <1>3, <1>7 DEF r
<1>8. QED
  BY <1>4, <1>5, <1>6, <1>7

\* The next date of a timer of period t, restarted p units after its date: the
\* missed periods are left out, the rest of the delay is taken back.
Restarted(t, p) == t + p - (IF p > t THEN p % t ELSE p)

LEMMA OnTheGrid ==
  ASSUME NEW t \in Nat \ {0}, NEW p \in Nat
  PROVE  /\ Restarted(t, p) \in Nat /\ Restarted(t, p) > 0
         /\ Restarted(t, p) % t = 0
         /\ Restarted(t, p) - p \in 0 .. t
<1>1. CASE p > t
  <2> DEFINE q == p \div t
             r == p % t
  <2>1. q \in Nat /\ r \in 0 .. t - 1 /\ p = t * q + r
    OBVIOUS
  <2>2. Restarted(t, p) = t + p - r
    BY <1>1 DEF Restarted
  <2> HIDE DEF q, r
  <2>3. t + p - r = t * (q + 1)
    BY <2>1
  <2>4. (t * (q + 1)) % t = 0
    <3>1. q + 1 \in Nat
      BY <2>1
    <3>2. QED
      BY <3>1, MultipleOf
  <2>5. p - r \in Nat
    BY <1>1, <2>1
  <2>6. /\ Restarted(t, p) \in Nat /\ Restarted(t, p) > 0
        /\ Restarted(t, p) - p \in 0 .. t
    BY <2>1, <2>2, <2>5
  <2>7. QED
    BY <2>2, <2>3, <2>4, <2>6
<1>2. CASE ~(p > t)
  <2>1. Restarted(t, p) = t
    BY <1>2 DEF Restarted
  <2>2. t % t = 0
    <3>1. (t * 1) % t = 0 /\ t * 1 = t
      BY MultipleOf
    <3>2. QED
      BY <3>1
  <2>3. QED
    BY <1>2, <2>1, <2>2
<1>3. QED
  BY <1>1, <1>2

\* The loop compares with the date that the emulation has reached, and a handler
\* that has changed nothing yet knows how late it is called.
LateInv ==
  /\ nested \in {NULL, Blitter}
  /\ ~CE => currcycle = 0
  /\ CE => nested = NULL
  /\ phase \in {"process", "called"} \/ (phase = "handler" /\ (CE \/ running # Blitter))
       => limit = clock + currcycle
  /\ (phase = "called" /\ running # AutoSend)
     \/ (phase = "handler" /\ ops = 0 /\ running \notin {Vbl, Blitter, AutoSend})
       => /\ PendingInterruptCount = Cycles[running] - limit * Scale
          /\ PendingInterruptCount <= 0

\* An operation is counted.
LEMMA CountedLate ==
  ASSUME Inv, LateInv, phase \in {"cpu", "handler"}, Count,
         UNCHANGED <<limit, phase, running, nested, time>>
  PROVE  LateInv'
<1>1. ops' # 0 /\ phase' # "called"
  BY DEF Inv, TypeOK, Count
<1>2. QED
  BY <1>1 DEF LateInv, time

\* A step that leaves the dates, the clock and the loop alone.
LEMMA SameLate ==
  ASSUME LateInv, UNCHANGED <<Cycles, loop, time, ops>>
  PROVE  LateInv'
BY DEF LateInv, loop, time

LEMMA CallLate ==
  ASSUME Inv, LateInv, CallActiveHandler
  PROVE  LateInv'
<1>1. /\ phase = "process" /\ phase' = "called" /\ running' = ActiveInt
      /\ PendingInterruptCount' = ActiveInt_Cycles - limit * Scale
      /\ ActiveInt_Cycles <= limit * Scale
      /\ UNCHANGED <<Cycles, limit, nested, clock, currcycle>>
  BY DEF CallActiveHandler, list, time
<1>2. ActiveInt_Cycles = Cycles[ActiveInt]
  BY DEF Inv, ListSound, HeadFirst
<1>3. ActiveInt_Cycles \in Nat /\ limit * Scale \in Nat
  BY ConstantsAssumption DEF Inv, TypeOK
<1>4. PendingInterruptCount' = Cycles'[running'] - limit' * Scale /\ PendingInterruptCount' <= 0
  BY <1>1, <1>2, <1>3
<1>5. QED
  BY <1>1, <1>4 DEF LateInv

LEMMA NextLate == Inv /\ LateInv /\ [Next]_vars => LateInv'
<1> SUFFICES ASSUME Inv, LateInv, [Next]_vars PROVE LateInv'
  OBVIOUS
<1> USE DEF MayCall
<1>1. ASSUME NEW i \in Handlers, RemovePendingInterrupt(i) PROVE LateInv'
  BY <1>1, CountedLate DEF RemovePendingInterrupt, loop
<1>2. ASSUME NEW x, NEW d, MayCall, Rearm(x, d) PROVE LateInv'
  BY <1>2, CountedLate DEF Rearm, loop
<1>3. CASE (\E t \in Delays : RestartTimer(t)) \/ (\E t \in Changes : ModifyInterrupt(t))
           \/ \E i \in Handlers, t \in Delays : AddRelativeInterrupt(i, t)
  BY <1>2, <1>3 DEF RestartTimer, ModifyInterrupt, AddRelativeInterrupt
<1>4. CASE WalkStep \/ Link
  BY <1>4, SameLate DEF WalkStep, Link, list
<1>5. CASE Reset
  BY <1>5, CountedLate DEF Reset
<1>16. ASSUME NEW i \in Handlers, NEW t \in Delays, Command(i, t) PROVE LateInv'
  BY <1>16 DEF Command, LateInv, time
<1>6. ASSUME NEW c \in BusCycles, AddCycles(c) PROVE LateInv'
  <2>1. /\ phase \in {"cpu", "handler"} /\ (phase = "handler" => running = Blitter /\ ~CE)
        /\ UNCHANGED <<phase, running, nested>>
        /\ ~CE => currcycle' = currcycle
    BY <1>6 DEF AddCycles, loop
  <2>2. QED
    BY <2>1 DEF LateInv
<1>7. CASE Process
  <2>1. /\ phase' = "process" /\ limit' = clock' + currcycle' /\ currcycle' = 0
        /\ nested' = nested
    BY <1>7 DEF Process, Inv, TypeOK
  <2>2. QED
    BY <2>1 DEF LateInv
<1>8. CASE ProcessNested
  <2>1. /\ phase' = "process" /\ limit' = clock /\ nested' = Blitter /\ ~CE
        /\ UNCHANGED <<clock, currcycle>> /\ clock \in Nat
    BY <1>8 DEF ProcessNested, time, Inv, TypeOK
  <2>2. QED
    BY <2>1 DEF LateInv
<1>9. CASE UpdateTimers
  BY <1>9 DEF UpdateTimers, LateInv, time
<1>10. CASE CallActiveHandler
  BY <1>10, CallLate
<1>11. CASE AcknowledgeInterrupt
  <2>1. /\ phase = "called" /\ phase' = "handler" /\ Cycles' = Cycles
        /\ UNCHANGED <<PendingInterruptCount, limit, running, nested, clock, currcycle>>
    BY <1>11 DEF AcknowledgeInterrupt, list, time
  <2>2. running # AutoSend =>
          PendingInterruptCount = Cycles[running] - limit * Scale /\ PendingInterruptCount <= 0
    BY <2>1 DEF LateInv
  <2>3. limit = clock + currcycle
    BY <2>1 DEF LateInv
  <2>4. running' # AutoSend =>
          /\ PendingInterruptCount' = Cycles'[running'] - limit' * Scale
          /\ PendingInterruptCount' <= 0
    BY <2>1, <2>2
  <2>5. QED
    BY <2>1, <2>3, <2>4 DEF LateInv
<1>12. CASE Return
  <2>1. /\ phase = "handler" /\ phase' = "process"
        /\ limit' = (IF CE THEN limit ELSE clock)
        /\ UNCHANGED <<nested, clock, currcycle>> /\ clock \in Nat
    BY <1>12 DEF Return, time, Inv, TypeOK
  <2>2. CE => limit = clock + currcycle
    BY <1>12, <2>1 DEF LateInv
  <2>3. QED
    BY <2>1, <2>2 DEF LateInv
<1>13. CASE EndProcess
  <2>1. /\ phase' \in {"cpu", "handler"} /\ (phase' = "handler" => running' = Blitter /\ ~CE)
        /\ nested' = NULL /\ UNCHANGED currcycle
    BY <1>13 DEF EndProcess, LateInv, time
  <2>2. QED
    BY <2>1 DEF LateInv
<1>14. CASE UNCHANGED vars
  BY <1>14, SameLate DEF vars, list
<1>15. QED
  BY <1>1, <1>3, <1>4, <1>5, <1>6, <1>7, <1>8, <1>9, <1>10, <1>11, <1>12, <1>13, <1>14,
     <1>16 DEF Next

\* A timer restarted by its handler keeps to the grid of its period, for any period
\* and however late the handler is called (CycInt_CallActiveHandler, MFP_StartTimer_AB).
THEOREM NoDriftCorrect == Spec => NoDrift
<1>1. Init => LateInv
  BY ConstantsAssumption DEF Init, LateInv
<1>2. ASSUME Inv, LateInv, NEW t \in Delays \ {0}, RestartTimer(t), ops = 0
      PROVE  /\ (Cycles'[running] - Cycles[running]) % t = 0
             /\ Cycles'[running] > Cycles[running]
             /\ Cycles'[running] \in Immediate .. Immediate + t
  <2> DEFINE p == 0 - PendingInterruptCount
             old == Cycles[running]
  <2>1. /\ phase = "handler" /\ running \notin {Vbl, Blitter, AutoSend}
        /\ running \in Interrupts
    BY <1>2 DEF RestartTimer, Inv, TypeOK
  <2>2. /\ PendingInterruptCount = old - limit * Scale /\ PendingInterruptCount <= 0
        /\ limit = clock + currcycle
    BY <1>2, <2>1 DEF LateInv
  <2>3. t \in Nat \ {0} /\ Immediate \in Nat /\ old \in Nat /\ p \in Nat
    BY <1>2, <2>1, <2>2, ConstantsAssumption DEF Inv, TypeOK, Immediate
  <2>4. old + p = Immediate
    BY <2>2, <2>3, ConstantsAssumption DEF Immediate, Inv, TypeOK
  <2>5. Cycles'[running] = t + Immediate - PendingCyclesOver(t)
    BY <1>2, <2>1 DEF RestartTimer, Rearm, Inv, TypeOK
  <2>6. PendingCyclesOver(t) = IF p > t THEN p % t ELSE p
    <3>1. PendingInterruptCount \in Int
      BY <1>2 DEF Inv, TypeOK
    <3>2. p = -PendingInterruptCount
      BY <3>1
    <3>3. QED
      BY <3>2 DEF PendingCyclesOver
  <2> HIDE DEF p, old
  <2>7. PendingCyclesOver(t) \in Int
    BY <2>3, <2>6
  <2>8. Restarted(t, p) = t + p - PendingCyclesOver(t)
    BY <2>6 DEF Restarted
  <2>9. Cycles'[running] = old + Restarted(t, p)
    BY <2>3, <2>4, <2>5, <2>7, <2>8
  <2>10. /\ Restarted(t, p) \in Nat /\ Restarted(t, p) > 0
         /\ Restarted(t, p) % t = 0
         /\ Restarted(t, p) - p \in 0 .. t
    BY <2>3, OnTheGrid
  <2> DEFINE n == Restarted(t, p)
  <2> HIDE DEF n
  <2>11. /\ Cycles'[running] = old + n /\ n \in Nat /\ n > 0 /\ n % t = 0 /\ n - p \in 0 .. t
    BY <2>9, <2>10 DEF n
  <2>12. Cycles'[running] - old = n
    BY <2>3, <2>11
  <2>13. Cycles'[running] > old /\ Cycles'[running] \in Immediate .. Immediate + t
    BY <2>3, <2>4, <2>11
  <2>14. QED
    BY <2>11, <2>12, <2>13 DEF old
<1>3. Inv /\ LateInv /\ [Next]_vars =>
        [\A t \in Delays \ {0} : RestartTimer(t) /\ ops = 0 =>
           /\ (Cycles'[running] - Cycles[running]) % t = 0
           /\ Cycles'[running] > Cycles[running]
           /\ Cycles'[running] \in Immediate .. Immediate + t]_vars
  BY <1>2
<1>4. QED
  BY <1>1, <1>3, NextLate, Invariance, PTL DEF Spec, NoDrift
=============================================================================
