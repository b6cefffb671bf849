------------------------- MODULE LoadBalanceProofs -------------------------
(***************************************************************************)
(* Theorems about LoadBalance, for every size of the table, number of      *)
(* computers and set of priorities.                                        *)
(***************************************************************************)
EXTENDS LoadBalance, TLAPS

LEMMA SlotsAreRanks == Slots \subseteq 0 .. N /\ 0 \in Slots /\ N \in 0 .. N
BY LoadBalanceAssumption DEF Slots

LEMMA TypeInit == Init => TypeOK
<1> SUFFICES ASSUME Init PROVE TypeOK
  OBVIOUS
<1>1. FreeSlot \in [used : BOOLEAN, pri : Nat, time : Nat]
  BY LoadBalanceAssumption DEF FreeSlot
<1>2. \A x \in [used : {TRUE}, pri : Priorities, time : {0}] :
        x \in [used : BOOLEAN, pri : Nat, time : Nat]
  <2> TAKE x \in [used : {TRUE}, pri : Priorities, time : {0}]
  <2>1. x = [used |-> TRUE, pri |-> x.pri, time |-> 0]
    OBVIOUS
  <2>2. x.pri \in Nat
    BY LoadBalanceAssumption
  <2>3. [used |-> TRUE, pri |-> x.pri, time |-> 0]
          \in [used : BOOLEAN, pri : Nat, time : Nat]
    BY <2>2
  <2> QED
    BY <2>1, <2>3
<1>3. slot \in [Slots -> [used : BOOLEAN, pri : Nat, time : Nat]]
  BY <1>1, <1>2 DEF Init
<1>4. NoOrder \in Order /\ 0 \in 0 .. N
  BY SlotsAreRanks DEF NoOrder, Order
<1> QED
  BY <1>3, <1>4, LoadBalanceAssumption DEF Init, TypeOK, NotAsking, Position

(* A search moves one handler.                                             *)
LEMMA OneScan ==
  ASSUME TypeOK, NEW a \in Askers, NEW x \in Position,
         scan' = [scan EXCEPT ![a] = x]
  PROVE  scan' \in [Askers -> Position]
BY DEF TypeOK, Position

LEMMA TypeSearch == ASSUME TypeOK, NEW a \in Askers, Search(a) PROVE TypeOK'
<1> DEFINE x == scan[a]
<1>1. x \in Position /\ scan \in [Askers -> Position] /\ N \in Nat
  BY LoadBalanceAssumption DEF TypeOK, Position
<1>2. x.i \in 0 .. N /\ x.pol \in Order /\ (x.pc = "taken" => x.i \in Slots)
  BY <1>1 DEF Position
<1>3. /\ slot \in [Slots -> [used : BOOLEAN, pri : Nat, time : Nat]]
      /\ lb \in [pol : Order, next : 0 .. N, last : Nat]
      /\ changes \in 0 .. MaxChanges
      /\ missed \in [Askers -> SUBSET Slots]
  BY DEF TypeOK
<1>4. NotAsking \in Position
  BY SlotsAreRanks DEF NotAsking, NoOrder, Order, Position
<1>5. CASE Ask(a)
  <2>1. PICK p \in Orders :
          LET pol == [r \in Slots |-> [index |-> p[r], pri |-> slot[p[r]].pri]] IN
          /\ lb' = [lb EXCEPT !.pol = pol]
          /\ scan' = [scan EXCEPT ![a] =
                        IF pol = lb.pol
                          THEN [pc |-> "ring", i |-> lb.next, pol |-> pol]
                          ELSE [pc |-> "low", i |-> 0, pol |-> pol]]
    BY <1>5 DEF Ask
  <2> DEFINE pol == [r \in Slots |-> [index |-> p[r], pri |-> slot[p[r]].pri]]
             y == IF pol = lb.pol
                    THEN [pc |-> "ring", i |-> lb.next, pol |-> pol]
                    ELSE [pc |-> "low", i |-> 0, pol |-> pol]
  <2>2. pol \in Order
    BY <1>3 DEF Orders, Order
  <2>3. lb' = [lb EXCEPT !.pol = pol] /\ scan' = [scan EXCEPT ![a] = y]
    BY <2>1
  <2>4. y \in Position
    BY <2>2, <1>3, SlotsAreRanks DEF Position
  <2> HIDE DEF y
  <2>5. scan' \in [Askers -> Position]
    BY <2>3, <2>4, OneScan
  <2> HIDE DEF pol
  <2>6. lb' \in [pol : Order, next : 0 .. N, last : Nat]
    BY <1>3, <2>2, <2>3
  <2>7. missed' \in [Askers -> SUBSET Slots]
    BY <1>3, <1>5 DEF Ask
  <2> QED
    BY <1>3, <1>5, <2>5, <2>6, <2>7 DEF Ask, TypeOK, Position
<1>6. CASE Turn(a)
  <2>1. \/ scan' = [scan EXCEPT ![a] = [x EXCEPT !.pc = "high", !.i = lb.next]]
        \/ scan' = [scan EXCEPT ![a] = [x EXCEPT !.pc = "top", !.i = 0]]
        \/ scan' = [scan EXCEPT ![a] = [x EXCEPT !.pc = "again", !.i = 0]]
    BY <1>1, <1>6 DEF Turn, AgainFrom, Position
  <2>2. /\ [x EXCEPT !.pc = "high", !.i = lb.next] \in Position
        /\ [x EXCEPT !.pc = "top", !.i = 0] \in Position
        /\ [x EXCEPT !.pc = "again", !.i = 0] \in Position
    BY <1>1, <1>3, SlotsAreRanks DEF Position
  <2>3. scan' \in [Askers -> Position]
    BY <2>1, <2>2, OneScan
  <2> QED
    BY <1>3, <1>6, <2>3 DEF Turn, TypeOK, Position
<1>7. CASE Pass(a)
  <2>1. x.i \in Slots
    BY <1>1, <1>2, <1>7 DEF Pass, Looks, AtEnd, Slots
  <2>2. JobAt(a) \in Slots
    BY <1>2, <2>1 DEF JobAt, Order
  <2>3. x.i + 1 \in 0 .. N
    BY <1>1, <2>1 DEF Slots
  <2>4. [x EXCEPT !.i = x.i + 1] \in Position
    BY <1>1, <1>7, <2>3 DEF Position, Pass, Looks
  <2>5. scan' = [scan EXCEPT ![a] = [x EXCEPT !.i = x.i + 1]]
    BY <1>7 DEF Pass
  <2>6. scan' \in [Askers -> Position]
    BY <2>4, <2>5, OneScan
  <2>7. missed' \in [Askers -> SUBSET Slots]
    BY <1>3, <1>7, <2>2 DEF Pass
  <2> QED
    BY <1>3, <1>7, <2>6, <2>7 DEF Pass, TypeOK, Position
<1>8. CASE Take(a)
  <2>1. After(a) \in 0 .. N
    BY <1>1, <1>2, <1>8 DEF Take, Looks, AtEnd, After
  <2>2. [x EXCEPT !.pc = "taken"] \in Position
    BY <1>1, <1>8 DEF Position, Take, Looks, AtEnd, Slots
  <2>3. scan' = [scan EXCEPT ![a] = [x EXCEPT !.pc = "taken"]]
    BY <1>8 DEF Take
  <2>4. scan' \in [Askers -> Position]
    BY <2>2, <2>3, OneScan
  <2>5. lb' \in [pol : Order, next : 0 .. N, last : Nat]
    BY <1>3, <1>8, <2>1 DEF Take
  <2> QED
    BY <1>3, <1>8, <2>4, <2>5 DEF Take, TypeOK, Position
<1>9. CASE Offer(a)
  <2>1. scan' \in [Askers -> Position]
    BY <1>4, <1>9, OneScan DEF Offer
  <2>2. PriAt(a) \in Nat
    BY <1>2, <1>9 DEF Offer, PriAt, Order
  <2>3. lb' \in [pol : Order, next : 0 .. N, last : Nat]
    BY <1>3, <1>9, <2>2 DEF Offer
  <2>4. missed' \in [Askers -> SUBSET Slots]
    BY <1>3, <1>9 DEF Offer
  <2> QED
    BY <1>3, <1>9, <2>1, <2>3, <2>4 DEF Offer, TypeOK, Position
<1>10. CASE NoJob(a)
  <2>1. scan' \in [Askers -> Position]
    BY <1>4, <1>10, OneScan DEF NoJob
  <2>2. lb' \in [pol : Order, next : 0 .. N, last : Nat]
    BY <1>3, <1>10, SlotsAreRanks DEF NoJob
  <2>3. missed' \in [Askers -> SUBSET Slots]
    BY <1>3, <1>10 DEF NoJob
  <2> QED
    BY <1>3, <1>10, <2>1, <2>2, <2>3 DEF NoJob, TypeOK, Position
<1> QED
  BY <1>5, <1>6, <1>7, <1>8, <1>9, <1>10 DEF Search

LEMMA TypeChanges ==
  ASSUME TypeOK, NEW j \in Slots,
         Delete(j) \/ \E p \in Priorities : SetPriority(j, p) \/ Submit(j, p)
  PROVE  TypeOK'
<1> DEFINE Slot == [used : BOOLEAN, pri : Nat, time : Nat]
<1>1. /\ slot \in [Slots -> Slot]
      /\ lb \in [pol : Order, next : 0 .. N, last : Nat]
      /\ scan \in [Askers -> Position]
      /\ changes \in 0 .. MaxChanges /\ MaxChanges \in Nat
      /\ missed \in [Askers -> SUBSET Slots]
  BY LoadBalanceAssumption DEF TypeOK
<1>2. changes' \in 0 .. MaxChanges /\ UNCHANGED <<lb, scan, missed>>
  BY <1>1 DEF Delete, SetPriority, Submit, Change
<1>3. slot' \in [Slots -> Slot]
  <2>1. CASE Delete(j)
    <3>1. FreeSlot \in Slot
      BY LoadBalanceAssumption DEF FreeSlot
    <3> QED
      BY <1>1, <2>1, <3>1 DEF Delete
  <2>2. ASSUME NEW p \in Priorities, SetPriority(j, p) PROVE slot' \in [Slots -> Slot]
    <3>1. p \in Nat
      BY LoadBalanceAssumption
    <3>2. [slot[j] EXCEPT !.pri = p] \in Slot
      BY <1>1, <3>1
    <3>3. slot' = [slot EXCEPT ![j] = [slot[j] EXCEPT !.pri = p]]
      BY <2>2 DEF SetPriority
    <3> QED
      BY <1>1, <3>2, <3>3
  <2>3. ASSUME NEW p \in Priorities, Submit(j, p) PROVE slot' \in [Slots -> Slot]
    <3>1. p \in Nat /\ changes' \in Nat
      BY <1>1, <1>2, LoadBalanceAssumption
    <3>2. [used |-> TRUE, pri |-> p, time |-> changes'] \in Slot
      BY <3>1
    <3> QED
      BY <1>1, <2>3, <3>2 DEF Submit
  <2> QED
    BY <2>1, <2>2, <2>3
<1> QED
  BY <1>1, <1>2, <1>3 DEF TypeOK

(* The records of the table, of the searches and of the shared order keep  *)
(* their types; in particular next_i never exceeds MAXJOBS, so no handler  *)
(* reads past the end of its order.                                        *)
THEOREM TypeCorrect == Spec => []TypeOK
<1>1. TypeOK /\ [Next]_vars => TypeOK'
  <2> SUFFICES ASSUME TypeOK, [Next]_vars PROVE TypeOK'
    OBVIOUS
  <2>1. CASE \E a \in Askers : Search(a)
    BY <2>1, TypeSearch
  <2>2. CASE \E j \in Slots : \/ Delete(j)
                            \/ \E p \in Priorities : SetPriority(j, p) \/ Submit(j, p)
    BY <2>2, TypeChanges
  <2>3. CASE UNCHANGED vars
    BY <2>3 DEF vars, TypeOK
  <2> QED
    BY <2>1, <2>2, <2>3 DEF Next
<1> QED
  BY <1>1, TypeInit, PTL DEF Spec

-----------------------------------------------------------------------------
(* A search has an order with every slot in it, and in its last pass has   *)
(* looked at every rank above the one it has reached.                      *)
Complete(a) ==
  scan[a].pc # "idle" => \A j \in Slots : \E r \in Slots : scan[a].pol[r].index = j

LookedAbove(a) ==
  scan[a].pc = "again" =>
    \A r \in Slots : r < scan[a].i => scan[a].pol[r].index \in missed[a]

SearchInv == \A a \in Askers : Complete(a) /\ LookedAbove(a)

LEMMA SearchMoves ==
  ASSUME TypeOK, SearchInv, NEW a \in Askers, Search(a)
  PROVE  Complete(a)' /\ LookedAbove(a)'
<1>1. /\ scan \in [Askers -> Position] /\ missed \in [Askers -> SUBSET Slots]
      /\ Complete(a) /\ LookedAbove(a)
  BY DEF TypeOK, SearchInv
<1>2. CASE Ask(a)
  <2>1. PICK p \in Orders :
          LET pol == [r \in Slots |-> [index |-> p[r], pri |-> slot[p[r]].pri]] IN
          scan' = [scan EXCEPT ![a] =
                     IF pol = lb.pol
                       THEN [pc |-> "ring", i |-> lb.next, pol |-> pol]
                       ELSE [pc |-> "low", i |-> 0, pol |-> pol]]
    BY <1>2 DEF Ask
  <2> DEFINE pol == [r \in Slots |-> [index |-> p[r], pri |-> slot[p[r]].pri]]
  <2>2. scan'[a].pol = pol /\ scan'[a].pc \in {"ring", "low"}
    BY <1>1, <2>1
  <2>3. \A j \in Slots : \E r \in Slots : pol[r].index = j
    BY DEF Orders
  <2> HIDE DEF pol
  <2> QED
    BY <2>2, <2>3 DEF Complete, LookedAbove
<1>3. CASE Turn(a)
  <2>1. scan'[a].pol = scan[a].pol /\ missed' = missed
    BY <1>1, <1>3 DEF Turn, Position
  <2>2. scan[a].pc # "idle"
    BY <1>3 DEF Turn, TurnsHigh, TurnsTop, TurnsAgain
  <2>3. scan'[a].pc = "again" => scan'[a].i = 0
    BY <1>1, <1>3 DEF Turn, AgainFrom, Position
  <2>4. \A r \in Slots : ~(r < 0)
    BY LoadBalanceAssumption DEF Slots
  <2> QED
    BY <1>1, <2>1, <2>2, <2>3, <2>4 DEF Complete, LookedAbove
<1>4. CASE Pass(a)
  <2>1. /\ scan'[a].pol = scan[a].pol /\ scan'[a].pc = scan[a].pc
        /\ scan'[a].i = scan[a].i + 1 /\ scan[a].i \in Nat
        /\ missed'[a] = missed[a] \cup {scan[a].pol[scan[a].i].index}
        /\ scan[a].pc # "idle"
    BY <1>1, <1>4 DEF Pass, JobAt, Looks, Position
  <2>2. ASSUME NEW r \in Slots, r < scan[a].i + 1
        PROVE  r < scan[a].i \/ r = scan[a].i
    BY <2>1, <2>2, LoadBalanceAssumption DEF Slots
  <2> QED
    BY <1>1, <2>1, <2>2 DEF Complete, LookedAbove
<1>5. CASE Take(a)
  <2>1. scan'[a].pol = scan[a].pol /\ scan'[a].pc = "taken" /\ scan[a].pc # "idle"
    BY <1>1, <1>5 DEF Take, Looks
  <2> QED
    BY <1>1, <2>1 DEF Complete, LookedAbove
<1>6. CASE Offer(a) \/ NoJob(a)
  <2>1. scan'[a].pc = "idle"
    BY <1>1, <1>6 DEF Offer, NoJob, NotAsking
  <2> QED
    BY <2>1 DEF Complete, LookedAbove
<1> QED
  BY <1>2, <1>3, <1>4, <1>5, <1>6 DEF Search

(* Only the computer's own handler changes its search and what it missed.  *)
LEMMA SearchOthers ==
  ASSUME TypeOK, SearchInv, NEW a \in Askers, NEW b \in Askers,
         scan'[b] = scan[b], missed'[b] = missed[b]
  PROVE  Complete(b)' /\ LookedAbove(b)'
BY DEF SearchInv, Complete, LookedAbove

(* No handler answers RERR_NOAVJOB before it found every job of the table  *)
(* unavailable, however the searches, which do not lock the shared order,  *)
(* and the changes of the queue interleave.                                *)
THEOREM NoJobTrue == Spec => []NoJobIsTrue
<1>1. Init => SearchInv
  BY DEF Init, NotAsking, SearchInv, Complete, LookedAbove
<1>2. TypeOK /\ SearchInv /\ [Next]_vars => SearchInv'
  <2> SUFFICES ASSUME TypeOK, SearchInv, [Next]_vars, NEW b \in Askers
               PROVE  Complete(b)' /\ LookedAbove(b)'
    BY DEF SearchInv
  <2>1. ASSUME NEW a \in Askers, Search(a) PROVE Complete(b)' /\ LookedAbove(b)'
    <3>1. CASE a = b
      BY <2>1, <3>1, SearchMoves
    <3>2. CASE a # b
      <4>1. scan \in [Askers -> Position] /\ missed \in [Askers -> SUBSET Slots]
        BY DEF TypeOK
      <4>2. scan'[b] = scan[b] /\ missed'[b] = missed[b]
        BY <2>1, <3>2, <4>1 DEF Search, Ask, Turn, Pass, Take, Offer, NoJob
      <4> QED
        BY <4>2, SearchOthers
    <3> QED
      BY <3>1, <3>2
  <2>2. CASE \E j \in Slots : \/ Delete(j)
                            \/ \E p \in Priorities : SetPriority(j, p) \/ Submit(j, p)
    BY <2>2, SearchOthers DEF Delete, SetPriority, Submit
  <2>3. CASE UNCHANGED vars
    BY <2>3, SearchOthers DEF vars
  <2> QED
    BY <2>1, <2>2, <2>3 DEF Next
<1>3. TypeOK /\ SearchInv => NoJobIsTrue
  <2> SUFFICES ASSUME TypeOK, SearchInv, NEW a \in Askers,
                      scan[a].pc = "again", AtEnd(a)
               PROVE  missed[a] = Slots
    BY DEF NoJobIsTrue
  <2>1. scan[a] \in Position /\ missed[a] \subseteq Slots
    BY DEF TypeOK
  <2>2. \A r \in Slots : r < scan[a].i
    BY <2>1, LoadBalanceAssumption DEF AtEnd, Position, Slots
  <2>3. \A j \in Slots : j \in missed[a]
    BY <2>2 DEF SearchInv, Complete, LookedAbove
  <2> QED
    BY <2>1, <2>3
<1> QED
  BY <1>1, <1>2, <1>3, TypeCorrect, PTL DEF Spec
=============================================================================
