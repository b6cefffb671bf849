---------------------------- MODULE SlaveProofs ----------------------------
(***************************************************************************)
(* Theorems about Slave, for every number of slots, tasks and processors   *)
(* and every set of faults.                                                *)
(***************************************************************************)
EXTENDS Slave, FiniteSetTheorems, WellFoundedInduction, TLAPS

(***************************************************************************)
(* Types                                                                   *)
(***************************************************************************)
TaskRecord == [used : BOOLEAN, status : {"LOADING", "RUNNING", "FINISHED"},
               pid : Tasks \cup {Nothing, Failed}, task : Tasks \cup {Nothing}, aged : BOOLEAN]

LEMMA SlotsAreNat == Slots \subseteq Nat /\ 0 \in Slots /\ NSlots \in Nat \ {0}
BY SizesAssumption DEF Slots

LEMMA MinIsIn == ASSUME NEW S, S \subseteq Slots, S # {} PROVE Min(S) \in S
<1>1. S \subseteq Nat
  BY SlotsAreNat
<1>2. PICK x \in S : \A y \in S : ~ (<<y, x>> \in OpToRel(<, Nat))
  BY <1>1, WFMin, NatLessThanWellFounded
<1>3. OpToRel(<, Nat) = {ss \in Nat \X Nat : ss[1] < ss[2]}
  BY Zenon DEF OpToRel
<1>4. ASSUME NEW y \in S PROVE x =< y
  <2>1. x \in Nat /\ y \in Nat /\ <<y, x>> \notin {ss \in Nat \X Nat : ss[1] < ss[2]}
    BY <1>1, <1>2, <1>3
  <2> QED
    BY <2>1
<1> QED
  BY <1>4 DEF Min

LEMMA CountType == ASSUME NEW s PROVE CountRunning(s) \in 0 .. NSlots
<1> DEFINE R == {i \in Slots : IsRunning(s[i])}
<1>1. IsFiniteSet(Slots) /\ Cardinality(Slots) = NSlots
  BY SlotsAreNat, FS_Interval DEF Slots
<1>2. IsFiniteSet(R) /\ Cardinality(R) <= NSlots
  BY <1>1, FS_Subset, R \in SUBSET Slots
<1>3. Cardinality(R) \in Nat
  BY <1>2, FS_CardinalityType
<1> QED
  BY <1>2, <1>3, SlotsAreNat DEF CountRunning

LEMMA EmptyIsTask == EmptyTask \in TaskRecord
BY DEF EmptyTask, TaskRecord, Nothing

LEMMA TypeInit == Init => TypeOK
<1> SUFFICES ASSUME Init PROVE TypeOK
  OBVIOUS
<1>1. slot \in [Slots -> TaskRecord]
  BY EmptyIsTask DEF Init
<1>2. /\ nrunning \in 0 .. NSlots /\ limits \in Limits /\ changes \in 0 .. MaxChanges
      /\ freed \subseteq Tasks /\ left \in BOOLEAN
  <2>1. NCpus \in 0 .. NCpus /\ 0 \in 0 .. NSlots /\ 0 \in 0 .. MaxChanges
    BY SizesAssumption
  <2>2. limits \in Limits
    BY <2>1 DEF Init, Limits
  <2> QED
    BY <2>1, <2>2 DEF Init
<1>3. /\ main \in [at : MainPlaces, itask : Slots]
      /\ waiter \in [Tasks -> [at : WaiterPlaces, itask : Slots]]
      /\ proc \in [Tasks -> {"none", "runs", "zombie", "reaped"}]
      /\ check \in [at : {"look", "dead", "frees", "marks", "off"}, i : Slots]
      /\ told \in [Tasks -> Tasks \cup {Nothing}]
  BY SlotsAreNat DEF Init, MainPlaces, WaiterPlaces
<1> QED
  BY <1>1, <1>2, <1>3 DEF TypeOK, TaskRecord

(* There is a task that main can still be given, while it is at it.        *)
AnotherTask ==
  main.at \in {"receives", "launches"} => NotStarted # {}

LEMMA NextIsNone ==
  ASSUME AnotherTask, main.at \in {"receives", "launches"}
  PROVE  NextTask \in Tasks /\ waiter[NextTask].at = "none"
BY DEF AnotherTask, NextTask, NotStarted

LEMMA GroupType == ASSUME TypeOK, GroupSignal
  PROVE /\ main' \in [at : MainPlaces, itask : Slots]
        /\ check' \in [at : {"look", "dead", "frees", "marks", "off"}, i : Slots]
BY SlotsAreNat DEF TypeOK, GroupSignal, MainPlaces

LEMMA TypeMain == ASSUME TypeOK, AnotherTask, Main PROVE TypeOK'
<1>0. /\ slot \in [Slots -> TaskRecord]
      /\ main \in [at : MainPlaces, itask : Slots] /\ main.itask \in Slots
  BY DEF TypeOK, TaskRecord
<1>t. ASSUME slot' \in [Slots -> TaskRecord], nrunning' \in 0 .. NSlots, limits' \in Limits,
             main' \in [at : MainPlaces, itask : Slots],
             waiter' \in [Tasks -> [at : WaiterPlaces, itask : Slots]],
             proc' \in [Tasks -> {"none", "runs", "zombie", "reaped"}],
             check' \in [at : {"look", "dead", "frees", "marks", "off"}, i : Slots],
             freed' \subseteq Tasks, left' \in BOOLEAN, UNCHANGED <<told, changes>>
      PROVE TypeOK'
  BY <1>t DEF TypeOK, TaskRecord
<1> USE DEF MainGoes, MainPlaces, table, history
<1>1. CASE GetComputerStatus
  <2>1. slot' \in [Slots -> TaskRecord]
    BY <1>0, <1>1, ZenonT(60) DEF GetComputerStatus, TaskRecord
  <2>2. freed' \subseteq Tasks
    BY <1>1 DEF GetComputerStatus, TypeOK, Waiters
  <2> QED
    BY <1>0, <1>1, <1>t, <2>1, <2>2 DEF GetComputerStatus, TypeOK
<1>2. CASE AutoEnableCheck
  <2>1. limits' \in Limits
    BY <1>2 DEF AutoEnableCheck, TypeOK, Limits
  <2> QED
    BY <1>0, <1>2, <1>t, <2>1 DEF AutoEnableCheck, TypeOK
<1>3. CASE TaskAvailable
  <2>0. UNCHANGED <<nrunning, limits, waiter, proc, check, told, changes, freed, left>>
    BY <1>3 DEF TaskAvailable
  <2>t. ASSUME slot' \in [Slots -> TaskRecord], main' \in [at : MainPlaces, itask : Slots] PROVE TypeOK'
    BY <2>0, <2>t DEF TypeOK, TaskRecord
  <2>1. CASE FreeSlots = {} /\ main' = [main EXCEPT !.at = "reports"] /\ UNCHANGED slot
    BY <1>0, <2>1, <2>t
  <2>2. CASE FreeSlots # {}
    <3> DEFINE i == Min(FreeSlots)
    <3>1. i \in Slots
      BY <2>2, MinIsIn DEF FreeSlots
    <3>2. CASE FreeSlots # {} /\ slot' = [slot EXCEPT ![i].used = TRUE, ![i].status = "LOADING", ![i].aged = FALSE]
               /\ main' = [at |-> "receives", itask |-> i]
      <4>1. slot' \in [Slots -> TaskRecord]
        BY <1>0, <3>1, <3>2, ZenonT(60) DEF TaskRecord
      <4>2. main' \in [at : MainPlaces, itask : Slots]
        BY <3>1, <3>2
      <4> QED
        BY <2>t, <4>1, <4>2
    <3> QED
      BY <1>3, <2>2, <3>2 DEF TaskAvailable
  <2> QED
    BY <1>3, <2>1, <2>2 DEF TaskAvailable
<1>4. ASSUME NEW load \in 0 .. NCpus, ComputerAvailable(load) PROVE TypeOK'
  BY <1>0, <1>4, <1>t DEF ComputerAvailable, TypeOK
<1>5. CASE ReceiveTask
  <2>1. NextTask \in Tasks
    BY <1>5, NextIsNone DEF ReceiveTask
  <2>2. [EmptyTask EXCEPT !.used = TRUE, !.task = NextTask] \in TaskRecord
    BY <2>1, EmptyIsTask DEF TaskRecord
  <2>3. slot' \in [Slots -> TaskRecord] /\ nrunning' \in 0 .. NSlots
    BY <1>0, <1>5, <2>2, CountType DEF ReceiveTask
  <2> QED
    BY <1>0, <1>5, <1>t, <2>3 DEF ReceiveTask, TypeOK
<1>6. CASE LaunchTask
  <2>1. NextTask \in Tasks
    BY <1>6, NextIsNone DEF LaunchTask
  <2>2. waiter' \in [Tasks -> [at : WaiterPlaces, itask : Slots]]
    BY <1>0, <1>6, <2>1 DEF LaunchTask, TypeOK, WaiterPlaces
  <2> QED
    BY <1>0, <1>6, <1>t, <2>2 DEF LaunchTask, TypeOK
<1>7. CASE UpdateComputerStatus
  BY <1>0, <1>7, <1>t DEF UpdateComputerStatus, TypeOK
<1>8. CASE SelectReturns
  BY <1>0, <1>8, <1>t DEF SelectReturns, TypeOK
<1>9. CASE CleanOutKills
  <2>1. proc' \in [Tasks -> {"none", "runs", "zombie", "reaped"}]
    BY <1>9 DEF CleanOutKills, TypeOK
  <2> QED
    BY <1>0, <1>9, <1>t, <2>1 DEF CleanOutKills, TypeOK
<1>10. CASE SlaveExits
  BY <1>0, <1>10, <1>t DEF SlaveExits, TypeOK
<1>11. CASE NoJobForUs
  BY <1>0, <1>11, <1>t DEF NoJobForUs, TypeOK
<1>12. CASE ReceivesNoTask
  <2>1. slot' \in [Slots -> TaskRecord]
    BY <1>0, <1>12, EmptyIsTask DEF ReceivesNoTask, Cleared
  <2> QED
    BY <1>0, <1>12, <1>t, <2>1 DEF ReceivesNoTask, TypeOK
<1>13. CASE LaunchFails
  <2>1. slot' \in [Slots -> TaskRecord]
    BY <1>0, <1>13, ZenonT(60) DEF LaunchFails, TaskRecord
  <2> QED
    BY <1>0, <1>13, <1>t, <2>1 DEF LaunchFails, TypeOK
<1>14. CASE StatusNotSent
  BY <1>0, <1>14, <1>t, GroupType DEF StatusNotSent, TypeOK
<1> QED
  BY <1>1, <1>2, <1>3, <1>4, <1>5, <1>6, <1>7, <1>8, <1>9, <1>10, <1>11, <1>12, <1>13, <1>14 DEF Main

LEMMA TypeWaiter == ASSUME TypeOK, NEW k \in Tasks, Waiter(k) \/ TaskEnds(k) PROVE TypeOK'
<1>0. /\ slot \in [Slots -> TaskRecord]
      /\ waiter \in [Tasks -> [at : WaiterPlaces, itask : Slots]] /\ waiter[k].itask \in Slots
  BY DEF TypeOK, TaskRecord
<1>t. ASSUME slot' \in [Slots -> TaskRecord], nrunning' \in 0 .. NSlots,
             main' \in [at : MainPlaces, itask : Slots],
             waiter' \in [Tasks -> [at : WaiterPlaces, itask : Slots]],
             proc' \in [Tasks -> {"none", "runs", "zombie", "reaped"}],
             check' \in [at : {"look", "dead", "frees", "marks", "off"}, i : Slots],
             told' \in [Tasks -> Tasks \cup {Nothing}],
             freed' \subseteq Tasks, UNCHANGED <<limits, changes, left>>
      PROVE TypeOK'
  BY <1>t DEF TypeOK, TaskRecord
<1>w. ASSUME NEW to \in WaiterPlaces, NEW from, WaiterGoes(k, from, to)
      PROVE  waiter' \in [Tasks -> [at : WaiterPlaces, itask : Slots]]
  BY <1>0, <1>w DEF WaiterGoes
<1>p. {"gone", "loads", "waits", "reaped", "missed", "reports", "frees"} \subseteq WaiterPlaces
  BY DEF WaiterPlaces
<1>f. freed \cup Others(k) \subseteq Tasks
  BY DEF TypeOK, Others, Waiters
<1> USE DEF table, history
<1>1. CASE ForkTask(k)
  <2>1. proc' \in [Tasks -> {"none", "runs", "zombie", "reaped"}]
    BY <1>1 DEF ForkTask, TypeOK
  <2> QED
    BY <1>0, <1>1, <1>t, <1>w, <1>p, <2>1 DEF ForkTask, TypeOK
<1>2. CASE SetLoading(k)
  <2>1. (IF proc[k] = "none" THEN Failed ELSE k) \in Tasks \cup {Nothing, Failed}
    OBVIOUS
  <2>2. slot' \in [Slots -> TaskRecord] /\ nrunning' \in 0 .. NSlots
    BY <1>0, <1>2, <2>1, CountType, SMTT(30) DEF SetLoading, TaskRecord
  <2> QED
    BY <1>0, <1>2, <1>t, <1>w, <1>p, <2>2 DEF SetLoading, TypeOK
<1>3. CASE WaitPid(k)
  <2>1. proc' \in [Tasks -> {"none", "runs", "zombie", "reaped"}]
    BY <1>3 DEF WaitPid, TypeOK
  <2>2. waiter' \in [Tasks -> [at : WaiterPlaces, itask : Slots]]
    BY <1>3, <1>w, <1>p DEF WaitPid
  <2> QED
    BY <1>0, <1>3, <1>t, <2>1, <2>2 DEF WaitPid, TypeOK
<1>4. CASE GiveUpTask(k)
  <2>1. slot' \in [Slots -> TaskRecord] /\ nrunning' \in 0 .. NSlots
    BY <1>0, <1>4, CountType, ZenonT(60) DEF GiveUpTask, TaskRecord
  <2> QED
    BY <1>0, <1>4, <1>t, <1>w, <1>p, <1>f, <2>1 DEF GiveUpTask, TypeOK
<1>5. CASE SetFinished(k)
  <2>1. slot' \in [Slots -> TaskRecord] /\ nrunning' \in 0 .. NSlots
    BY <1>0, <1>5, CountType, ZenonT(60) DEF SetFinished, TaskRecord
  <2> QED
    BY <1>0, <1>5, <1>t, <1>w, <1>p, <2>1 DEF SetFinished, TypeOK
<1>6. CASE RequestTaskFinished(k)
  <2>1. told' \in [Tasks -> Tasks \cup {Nothing}]
    BY <1>0, <1>6 DEF RequestTaskFinished, TypeOK, TaskRecord
  <2> QED
    BY <1>0, <1>6, <1>t, <1>w, <1>p, <2>1 DEF RequestTaskFinished, TypeOK
<1>7. CASE ReportFails(k)
  BY <1>0, <1>7, <1>t, <1>w, <1>p, GroupType DEF ReportFails, TypeOK
<1>8. CASE FreeTask(k)
  <2>1. slot' \in [Slots -> TaskRecord]
    BY <1>0, <1>8, ZenonT(60) DEF FreeTask, TaskRecord
  <2> QED
    BY <1>0, <1>8, <1>t, <1>w, <1>p, <1>f, <2>1 DEF FreeTask, TypeOK
<1>9. CASE TaskEnds(k)
  <2>1. proc' \in [Tasks -> {"none", "runs", "zombie", "reaped"}]
    BY <1>9 DEF TaskEnds, TypeOK
  <2> QED
    BY <1>0, <1>9, <1>t, <2>1 DEF TaskEnds, TypeOK
<1> QED
  BY <1>1, <1>2, <1>3, <1>4, <1>5, <1>6, <1>7, <1>8, <1>9 DEF Waiter

LEMMA TypeCheck == ASSUME TypeOK, Check \/ \E i \in Slots : MinutePasses(i) PROVE TypeOK'
<1>0. /\ slot \in [Slots -> TaskRecord] /\ check.i \in Slots
      /\ check \in [at : {"look", "dead", "frees", "marks", "off"}, i : Slots]
  BY DEF TypeOK, TaskRecord
<1>t. ASSUME slot' \in [Slots -> TaskRecord], freed' \subseteq Tasks,
             check' \in [at : {"look", "dead", "frees", "marks", "off"}, i : Slots],
             UNCHANGED <<nrunning, limits, main, waiter, proc, told, changes, left>>
      PROVE TypeOK'
  BY <1>t DEF TypeOK, TaskRecord
<1>n. LookNext \in [at : {"look", "dead", "frees", "marks", "off"}, i : Slots]
  BY <1>0, SizesAssumption DEF LookNext, Slots
<1>f. \A P : {k \in Waiters(check.i) : P} \subseteq Tasks
  BY DEF Waiters
<1> USE DEF table, history
<1>1. CASE LookAtTask
  BY <1>0, <1>1, <1>t, <1>n DEF LookAtTask, TypeOK
<1>2. CASE LookAtAge
  BY <1>0, <1>2, <1>t, <1>n DEF LookAtAge, TypeOK
<1>3. CASE CheckFrees
  <2>1. slot' \in [Slots -> TaskRecord]
    BY <1>0, <1>3, ZenonT(60) DEF CheckFrees, TaskRecord
  <2>2. freed' \subseteq Tasks
    BY <1>3 DEF CheckFrees, Waiters, TypeOK
  <2> QED
    BY <1>3, <1>t, <1>n, <2>1, <2>2 DEF CheckFrees
<1>4. CASE CheckMarks
  <2>1. slot' \in [Slots -> TaskRecord]
    BY <1>0, <1>4 DEF CheckMarks, TaskRecord
  <2>2. freed' \subseteq Tasks
    BY <1>4 DEF CheckMarks, Waiters, TypeOK
  <2> QED
    BY <1>4, <1>t, <1>n, <2>1, <2>2 DEF CheckMarks
<1>5. ASSUME NEW i \in Slots, MinutePasses(i) PROVE TypeOK'
  <2>1. slot[i] \in TaskRecord /\ [slot[i] EXCEPT !.aged = TRUE] \in TaskRecord
    BY <1>0, ZenonT(60) DEF TaskRecord
  <2>2. slot' \in [Slots -> TaskRecord]
    BY <1>0, <1>5, <2>1 DEF MinutePasses
  <2> QED
    BY <1>0, <1>5, <1>t, <2>2 DEF MinutePasses, TypeOK
<1> QED
  BY <1>1, <1>2, <1>3, <1>4, <1>5 DEF Check

LEMMA TypeListener ==
  ASSUME TypeOK, SetNMaxCpus \/ SetEnabled \/ Interrupt \/ \E i \in Slots : KillTask(i)
  PROVE  TypeOK'
<1> USE DEF table, history
<1>1. ASSUME NEW new \in Limits, ChangeLimits(new) PROVE TypeOK'
  <2>1. changes' \in 0 .. MaxChanges
    BY <1>1, SizesAssumption DEF ChangeLimits, Listening, TypeOK
  <2> QED
    BY <1>1, <2>1 DEF ChangeLimits, TypeOK
<1>2. ASSUME NEW n \in 0 .. NCpus + 1 PROVE [limits EXCEPT !.nmaxcpus = Cut(n)] \in Limits
  <2>1. Cut(n) \in 0 .. NCpus
    BY SizesAssumption DEF Cut
  <2> QED
    BY <2>1 DEF TypeOK, Limits
<1>3. ASSUME NEW b \in BOOLEAN PROVE [limits EXCEPT !.enabled = b] \in Limits
  BY DEF TypeOK, Limits
<1>4. CASE Interrupt
  BY <1>4, GroupType DEF Interrupt, TypeOK
<1>5. ASSUME NEW i \in Slots, KillTask(i) PROVE TypeOK'
  <2>1. changes' \in 0 .. MaxChanges
    BY <1>5, SizesAssumption DEF KillTask, Listening, TypeOK
  <2>2. proc' \in [Tasks -> {"none", "runs", "zombie", "reaped"}]
    BY <1>5 DEF KillTask, TypeOK
  <2>3. /\ main' \in [at : MainPlaces, itask : Slots]
        /\ check' \in [at : {"look", "dead", "frees", "marks", "off"}, i : Slots]
    BY <1>5, GroupType DEF KillTask, TypeOK
  <2> QED
    BY <1>5, <2>1, <2>2, <2>3 DEF KillTask, TypeOK
<1> QED
  BY <1>1, <1>2, <1>3, <1>4, <1>5 DEF SetNMaxCpus, SetEnabled

(* A waiter leaves its first place when main launches it, and not else.    *)
LEMMA AnotherStays == ASSUME TypeOK, AnotherTask, Next PROVE AnotherTask'
<1> USE DEF AnotherTask, NotStarted, TypeOK, MainGoes, table, history
<1>1. CASE TaskAvailable
  BY <1>1 DEF TaskAvailable
<1>2. CASE ReceiveTask
  BY <1>2 DEF ReceiveTask
<1>3. ASSUME UNCHANGED waiter, main'.at \in {"receives", "launches"} => main'.at = main.at
      PROVE AnotherTask'
  BY <1>3
<1>4. ASSUME GroupSignal PROVE main'.at \notin {"receives", "launches"}
  BY <1>4 DEF GroupSignal
<1>5. CASE Main
  BY <1>1, <1>2, <1>3, <1>4, <1>5
     DEF Main, GetComputerStatus, AutoEnableCheck, ComputerAvailable, LaunchTask, UpdateComputerStatus,
         SelectReturns, CleanOutKills, SlaveExits, NoJobForUs, ReceivesNoTask, LaunchFails, StatusNotSent
<1>6. ASSUME NEW k \in Tasks, Waiter(k) \/ TaskEnds(k) PROVE AnotherTask'
  <2>1. \A j \in Tasks : waiter[j].at = "none" => waiter'[j].at = "none"
    BY <1>6 DEF Waiter, ForkTask, SetLoading, WaitPid, GiveUpTask, SetFinished,
                RequestTaskFinished, ReportFails, FreeTask, TaskEnds, WaiterGoes
  <2>2. main'.at \in {"receives", "launches"} => main'.at = main.at
    BY <1>4, <1>6 DEF Waiter, ForkTask, SetLoading, WaitPid, GiveUpTask, SetFinished,
                      RequestTaskFinished, ReportFails, FreeTask, TaskEnds
  <2> QED
    BY <2>1, <2>2
<1>7. CASE Check \/ \E i \in Slots : MinutePasses(i)
  BY <1>3, <1>7 DEF Check, LookAtTask, LookAtAge, CheckFrees, CheckMarks, MinutePasses
<1>8. CASE SetNMaxCpus \/ SetEnabled \/ Interrupt \/ \E i \in Slots : KillTask(i)
  BY <1>3, <1>4, <1>8 DEF SetNMaxCpus, SetEnabled, ChangeLimits, Interrupt, KillTask
<1> QED
  BY <1>5, <1>6, <1>7, <1>8 DEF Next

LEMMA TypeStep == ASSUME TypeOK, AnotherTask, [Next]_vars PROVE TypeOK' /\ AnotherTask'
<1>1. CASE Next
  BY <1>1, TypeMain, TypeWaiter, TypeCheck, TypeListener, AnotherStays DEF Next
<1>2. CASE UNCHANGED vars
  BY <1>2 DEF vars, table, history, TypeOK, AnotherTask, NotStarted
<1> QED
  BY <1>1, <1>2

THEOREM TypeAndTasks == Spec => [](TypeOK /\ AnotherTask)
<1>1. Init => TypeOK /\ AnotherTask
  BY TypeInit DEF Init, AnotherTask
<1>2. TypeOK /\ AnotherTask /\ [Next]_vars => (TypeOK /\ AnotherTask)'
  BY TypeStep
<1> QED
  BY <1>1, <1>2, PTL DEF Spec

(* The table of tasks, what the processes keep and the count of running    *)
(* tasks keep the types of the code, whatever is killed, lost or fails.    *)
THEOREM TypeCorrect == Spec => []TypeOK
BY TypeAndTasks, PTL

(***************************************************************************)
(* Waiters and slots                                                       *)
(***************************************************************************)
(* The waiter of k has a slot.                                             *)
Active(k) == waiter[k].at \notin {"none", "gone"}

(* A task that runs has a waiter that waits for it, or is about to.        *)
RunsAreWaited == \A k \in Tasks : proc[k] = "runs" => waiter[k].at \in {"loads", "waits"}

(* A waiter that missed its task never had one.                            *)
MissedNeverRan == \A k \in Tasks : waiter[k].at = "missed" => proc[k] = "none"

(* The slot of a waiter is in use for its task, unless it was freed.       *)
SlotIsOwn ==
  \A k \in Tasks \ freed : Active(k) =>
    slot[waiter[k].itask].used /\ slot[waiter[k].itask].task = k

(* The slot main has reserved belongs to no waiter; it is in use for the   *)
(* task that is received, unless it was freed.                             *)
ReservedIsApart ==
  main.at \in {"receives", "launches"} =>
    \A k \in Tasks \ freed : Active(k) => waiter[k].itask # main.itask
ReceivedIsKept ==
  main.at = "launches" /\ NextTask \notin freed =>
    slot[main.itask].used /\ slot[main.itask].task = NextTask

(* What was reported, or not, is what ReportIsOwn says; before, nothing.   *)
ToldOwn ==
  \A k \in Tasks \ freed :
    /\ told[k] \in {Nothing, k}
    /\ waiter[k].at = "frees" => told[k] = k \/ ShuttingDown
    /\ waiter[k].at = "gone" /\ proc[k] = "reaped" => told[k] = k \/ ShuttingDown

LeftAlone == main.at = "off" /\ ~left => Childless

WaitersInv == RunsAreWaited /\ MissedNeverRan /\ LeftAlone
OwnInv == MissedNeverRan /\ SlotIsOwn /\ ReservedIsApart /\ ReceivedIsKept /\ ToldOwn

LEMMA MainCalm ==
  ASSUME GroupSignal
  PROVE  /\ main'.at \in {"kills", "waits", "off"}
         /\ main'.at = "off" => main.at = "off"
         /\ main.at \in {"waits", "off"} => main' = main
BY DEF GroupSignal

LEMMA WaitersStep == ASSUME TypeOK, AnotherTask, WaitersInv, Next PROVE WaitersInv'
<1> USE DEF WaitersInv, RunsAreWaited, MissedNeverRan, LeftAlone, Childless, table, history
<1>0. /\ waiter \in [Tasks -> [at : WaiterPlaces, itask : Slots]]
      /\ proc \in [Tasks -> {"none", "runs", "zombie", "reaped"}]
      /\ main \in [at : MainPlaces, itask : Slots]
  BY DEF TypeOK
<1>u. ASSUME UNCHANGED <<waiter, left>>, main'.at = "off" => main.at = "off",
             \A k \in Tasks : (proc'[k] = "runs" => proc[k] = "runs") /\ (proc[k] = "none" => proc'[k] = "none")
      PROVE  WaitersInv'
  BY <1>u
<1>1. CASE LaunchTask
  <2>1. NextTask \in Tasks /\ waiter[NextTask].at = "none"
    BY <1>1, NextIsNone DEF LaunchTask, MainGoes
  <2>2. waiter' = [waiter EXCEPT ![NextTask] = [at |-> "forks", itask |-> main.itask]] /\ proc' = proc
    BY <1>1 DEF LaunchTask
  <2>3. main'.at # "off"
    BY <1>0, <1>1 DEF LaunchTask, MainGoes
  <2> QED
    BY <1>0, <2>1, <2>2, <2>3
<1>2. CASE SlaveExits
  BY <1>0, <1>2 DEF SlaveExits, MainGoes
<1>3. CASE LaunchFails
  BY <1>0, <1>3 DEF LaunchFails, MainGoes
<1>4. CASE CleanOutKills
  BY <1>0, <1>4, <1>u DEF CleanOutKills, MainGoes
<1>5. CASE TaskAvailable
  BY <1>0, <1>5, <1>u DEF TaskAvailable
<1>6. CASE StatusNotSent \/ Interrupt \/ \E i \in Slots : KillTask(i)
  BY <1>0, <1>6, <1>u, MainCalm DEF StatusNotSent, Interrupt, KillTask
<1>7. CASE Main
  <2>1. ASSUME NEW load \in 0 .. NCpus, ComputerAvailable(load) PROVE WaitersInv'
    BY <1>0, <2>1, <1>u DEF ComputerAvailable, MainGoes
  <2>2. CASE GetComputerStatus \/ AutoEnableCheck \/ ReceiveTask \/ UpdateComputerStatus
             \/ SelectReturns \/ NoJobForUs \/ ReceivesNoTask
    BY <1>0, <2>2, <1>u DEF GetComputerStatus, AutoEnableCheck, ReceiveTask, UpdateComputerStatus,
                            SelectReturns, NoJobForUs, ReceivesNoTask, MainGoes
  <2> QED
    BY <1>1, <1>2, <1>3, <1>4, <1>5, <1>6, <1>7, <2>1, <2>2 DEF Main
<1>8. ASSUME NEW k \in Tasks, Waiter(k) PROVE WaitersInv'
  <2> USE DEF WaiterGoes
  <2>1. main'.at = "off" => main.at = "off"
    BY <1>8, MainCalm DEF Waiter, ForkTask, SetLoading, WaitPid, GiveUpTask, SetFinished,
                          RequestTaskFinished, ReportFails, FreeTask
  <2>2. left' = left
    BY <1>8 DEF Waiter, ForkTask, SetLoading, WaitPid, GiveUpTask, SetFinished,
                RequestTaskFinished, ReportFails, FreeTask
  <2>3. CASE ForkTask(k)
    BY <1>0, <2>1, <2>2, <2>3 DEF ForkTask
  <2>4. CASE SetLoading(k)
    BY <1>0, <2>1, <2>2, <2>4 DEF SetLoading
  <2>5. CASE WaitPid(k)
    BY <1>0, <2>1, <2>2, <2>5 DEF WaitPid
  <2>6. CASE GiveUpTask(k)
    BY <1>0, <2>1, <2>2, <2>6 DEF GiveUpTask
  <2>7. CASE SetFinished(k)
    BY <1>0, <2>1, <2>2, <2>7 DEF SetFinished
  <2>8. CASE RequestTaskFinished(k)
    BY <1>0, <2>1, <2>2, <2>8 DEF RequestTaskFinished
  <2>9. CASE ReportFails(k)
    BY <1>0, <2>1, <2>2, <2>9 DEF ReportFails
  <2>10. CASE FreeTask(k)
    BY <1>0, <2>1, <2>2, <2>10 DEF FreeTask
  <2> QED
    BY <1>8, <2>3, <2>4, <2>5, <2>6, <2>7, <2>8, <2>9, <2>10 DEF Waiter
<1>9. ASSUME NEW k \in Tasks, TaskEnds(k) PROVE WaitersInv'
  BY <1>0, <1>9, <1>u DEF TaskEnds
<1>10. CASE Check \/ SetNMaxCpus \/ SetEnabled \/ \E i \in Slots : MinutePasses(i)
  BY <1>10, <1>u DEF Check, LookAtTask, LookAtAge, CheckFrees, CheckMarks, MinutePasses,
                     SetNMaxCpus, SetEnabled, ChangeLimits
<1> QED
  BY <1>6, <1>7, <1>8, <1>9, <1>10 DEF Next

LEMMA WaitersAlways == Spec => []WaitersInv
<1> DEFINE Inv == TypeOK /\ AnotherTask /\ WaitersInv
<1>1. Init => Inv
  BY TypeInit DEF Init, AnotherTask, WaitersInv, RunsAreWaited, MissedNeverRan, LeftAlone
<1>2. Inv /\ [Next]_vars => Inv'
  <2>1. WaitersInv /\ UNCHANGED vars => WaitersInv'
    BY DEF WaitersInv, RunsAreWaited, MissedNeverRan, LeftAlone, Childless, vars, table, history
  <2> QED
    BY <2>1, TypeStep, WaitersStep
<1> QED
  BY <1>1, <1>2, PTL DEF Spec

(* When main has exited through clean_out (slave.c:242) no task is         *)
(* executed any more and no waiter is left: nobody becomes a waiter once   *)
(* main waits for them, and what runs has a waiter.                        *)
THEOREM NobodyLeft == Spec => []NobodyLeftBehind
<1>1. WaitersInv => NobodyLeftBehind
  BY DEF WaitersInv, RunsAreWaited, LeftAlone, Childless, Executed, NobodyLeftBehind
<1> QED
  BY <1>1, WaitersAlways, PTL

(***************************************************************************)
(* Reports                                                                 *)
(***************************************************************************)
LEMMA ShutDownStays == ASSUME TypeOK, ShuttingDown, Next PROVE ShuttingDown'
<1> USE DEF ShuttingDown, MainGoes, table, history
<1>0. main \in [at : MainPlaces, itask : Slots]
  BY DEF TypeOK
<1>1. CASE Main
  BY <1>0, <1>1, MainCalm
     DEF Main, GetComputerStatus, AutoEnableCheck, ComputerAvailable, TaskAvailable, ReceiveTask, LaunchTask,
         UpdateComputerStatus, SelectReturns, CleanOutKills, SlaveExits, NoJobForUs, ReceivesNoTask,
         LaunchFails, StatusNotSent
<1>2. ASSUME NEW k \in Tasks, Waiter(k) \/ TaskEnds(k) PROVE ShuttingDown'
  BY <1>2, MainCalm DEF Waiter, ForkTask, SetLoading, WaitPid, GiveUpTask, SetFinished,
                        RequestTaskFinished, ReportFails, FreeTask, TaskEnds
<1>3. CASE Check \/ \E i \in Slots : MinutePasses(i)
  BY <1>3 DEF Check, LookAtTask, LookAtAge, CheckFrees, CheckMarks, MinutePasses
<1>4. CASE SetNMaxCpus \/ SetEnabled \/ Interrupt \/ \E i \in Slots : KillTask(i)
  BY <1>4, MainCalm DEF SetNMaxCpus, SetEnabled, ChangeLimits, Interrupt, KillTask
<1> QED
  BY <1>1, <1>2, <1>3, <1>4 DEF Next

(* Nobody reports, and each slot stays as it is for those that use it.     *)
SlotStays(i) ==
  \/ slot'[i].used = slot[i].used /\ slot'[i].task = slot[i].task
  \/ /\ \A k \in Tasks \ freed' : Active(k) => waiter[k].itask # i
     /\ main'.at = "launches" /\ main.itask = i => NextTask \in freed'
LEMMA OwnStays ==
  ASSUME TypeOK, OwnInv, UNCHANGED <<waiter, told>>, \A i \in Slots : SlotStays(i), freed \subseteq freed',
         ShuttingDown => ShuttingDown',
         \A k \in Tasks : proc'[k] = proc[k] \/ (proc[k] = "runs" /\ proc'[k] = "zombie"),
         main'.at \in {"receives", "launches"} => main'.at = main.at /\ main'.itask = main.itask
  PROVE  OwnInv'
<1>0. /\ waiter \in [Tasks -> [at : WaiterPlaces, itask : Slots]]
      /\ main \in [at : MainPlaces, itask : Slots]
  BY DEF TypeOK
<1>1. NextTask' = NextTask
  BY DEF NextTask, NotStarted
<1>2. MissedNeverRan' /\ ToldOwn'
  BY DEF OwnInv, MissedNeverRan, ToldOwn
<1>3. SlotIsOwn'
  BY <1>0 DEF OwnInv, SlotIsOwn, SlotStays, Active
<1>4. ReservedIsApart'
  BY <1>0 DEF OwnInv, ReservedIsApart, Active
<1>5. ReceivedIsKept'
  BY <1>0, <1>1 DEF OwnInv, ReceivedIsKept, SlotStays
<1> QED
  BY <1>2, <1>3, <1>4, <1>5 DEF OwnInv

LEMMA OwnMain == ASSUME TypeOK, AnotherTask, OwnInv, Main PROVE OwnInv'
<1> USE DEF MainGoes, table, history
<1>0. /\ waiter \in [Tasks -> [at : WaiterPlaces, itask : Slots]]
      /\ main \in [at : MainPlaces, itask : Slots] /\ main.itask \in Slots
      /\ slot \in [Slots -> TaskRecord]
  BY DEF TypeOK, TaskRecord
<1>s. ShuttingDown => ShuttingDown'
  BY ShutDownStays DEF Next
<1>1. CASE GetComputerStatus
  <2>1. \A i \in Slots : SlotStays(i)
    <3> SUFFICES ASSUME NEW i \in Slots PROVE SlotStays(i)
      OBVIOUS
    <3>1. CASE i \notin DeadTasks
      BY <1>1, <3>1 DEF GetComputerStatus, SlotStays
    <3>2. CASE i \in DeadTasks
      <4>1. Waiters(i) \subseteq freed' /\ main'.at = "enable"
        BY <1>0, <1>1, <3>2 DEF GetComputerStatus
      <4> QED
        BY <4>1 DEF SlotStays, Waiters, Active
    <3> QED
      BY <3>1, <3>2
  <2> QED
    BY <1>0, <1>1, <1>s, <2>1, OwnStays DEF GetComputerStatus
<1>2. CASE AutoEnableCheck \/ UpdateComputerStatus \/ SelectReturns \/ CleanOutKills \/ SlaveExits \/ NoJobForUs
  <2>1. UNCHANGED <<slot, waiter, told, freed>> /\ main'.at \notin {"receives", "launches"}
    BY <1>0, <1>2 DEF AutoEnableCheck, UpdateComputerStatus, SelectReturns, CleanOutKills, SlaveExits, NoJobForUs
  <2>2. \A k \in Tasks : proc'[k] = proc[k] \/ (proc[k] = "runs" /\ proc'[k] = "zombie")
    BY <1>2 DEF AutoEnableCheck, UpdateComputerStatus, SelectReturns, CleanOutKills, SlaveExits, NoJobForUs
  <2>3. \A i \in Slots : SlotStays(i)
    BY <2>1 DEF SlotStays
  <2> QED
    BY <1>s, <2>1, <2>2, <2>3, OwnStays
<1>3. ASSUME NEW load \in 0 .. NCpus, ComputerAvailable(load) PROVE OwnInv'
  <2>1. UNCHANGED <<slot, waiter, proc, told, freed>> /\ main'.at \notin {"receives", "launches"}
    BY <1>0, <1>3 DEF ComputerAvailable
  <2>2. \A i \in Slots : SlotStays(i)
    BY <2>1 DEF SlotStays
  <2> QED
    BY <1>s, <2>1, <2>2, OwnStays
<1>4. CASE StatusNotSent
  <2>1. UNCHANGED <<slot, waiter, proc, told, freed>> /\ main'.at \notin {"receives", "launches"}
    BY <1>4, MainCalm DEF StatusNotSent
  <2>2. \A i \in Slots : SlotStays(i)
    BY <2>1 DEF SlotStays
  <2> QED
    BY <1>s, <2>1, <2>2, OwnStays
<1>5. CASE ReceivesNoTask \/ LaunchFails
  <2>1. UNCHANGED <<waiter, proc, told, freed>> /\ main'.at \notin {"receives", "launches"}
    BY <1>0, <1>5 DEF ReceivesNoTask, LaunchFails
  <2>2. \A i \in Slots : SlotStays(i)
    BY <1>0, <1>5, <2>1 DEF ReceivesNoTask, LaunchFails, SlotStays, OwnInv, ReservedIsApart
  <2> QED
    BY <1>s, <2>1, <2>2, OwnStays
<1>6. CASE TaskAvailable
  <2>0. UNCHANGED <<waiter, proc, told, freed>>
    BY <1>6 DEF TaskAvailable
  <2>1. CASE main' = [main EXCEPT !.at = "reports"] /\ UNCHANGED slot
    <3>1. \A i \in Slots : SlotStays(i)
      BY <2>1 DEF SlotStays
    <3> QED
      BY <1>0, <1>s, <2>0, <2>1, <3>1, OwnStays
  <2>2. CASE FreeSlots # {}
             /\ slot' = [slot EXCEPT ![Min(FreeSlots)].used = TRUE, ![Min(FreeSlots)].status = "LOADING",
                                     ![Min(FreeSlots)].aged = FALSE]
             /\ main' = [at |-> "receives", itask |-> Min(FreeSlots)]
    <3>1. PICK i \in Slots : i = Min(FreeSlots) /\ ~slot[i].used
      BY <2>2, MinIsIn DEF FreeSlots
    <3>2. \A k \in Tasks \ freed : Active(k) => waiter[k].itask # i
      BY <3>1 DEF OwnInv, SlotIsOwn
    <3>3. main'.at = "receives" /\ main'.itask = i
      BY <2>2, <3>1
    <3>4. \A j \in Slots : slot'[j].task = slot[j].task /\ (j # i => slot'[j].used = slot[j].used)
      <4>1. slot' = [slot EXCEPT ![i].used = TRUE, ![i].status = "LOADING", ![i].aged = FALSE]
        BY <2>2, <3>1
      <4> QED
        BY <1>0, <4>1, ZenonT(60) DEF TaskRecord
    <3>5. SlotIsOwn' /\ ReservedIsApart' /\ ReceivedIsKept'
      BY <1>0, <2>0, <3>2, <3>3, <3>4 DEF OwnInv, SlotIsOwn, ReservedIsApart, ReceivedIsKept, Active
    <3>6. MissedNeverRan' /\ ToldOwn'
      BY <1>s, <2>0 DEF OwnInv, MissedNeverRan, ToldOwn
    <3> QED
      BY <3>5, <3>6 DEF OwnInv
  <2> QED
    BY <1>6, <2>1, <2>2 DEF TaskAvailable
<1>7. CASE ReceiveTask
  <2>0. UNCHANGED <<waiter, proc, told, freed>> /\ main.at = "receives"
        /\ main'.at = "launches" /\ main'.itask = main.itask
    BY <1>0, <1>7 DEF ReceiveTask
  <2>1. NextTask' = NextTask /\ slot'[main.itask].used /\ slot'[main.itask].task = NextTask
    BY <1>0, <1>7, <2>0 DEF ReceiveTask, NextTask, NotStarted, EmptyTask
  <2>2. \A j \in Slots : j # main.itask => slot'[j] = slot[j]
    BY <1>0, <1>7 DEF ReceiveTask
  <2>3. SlotIsOwn' /\ ReservedIsApart' /\ ReceivedIsKept'
    BY <1>0, <2>0, <2>1, <2>2 DEF OwnInv, SlotIsOwn, ReservedIsApart, ReceivedIsKept, Active
  <2>4. MissedNeverRan' /\ ToldOwn'
    BY <1>s, <2>0 DEF OwnInv, MissedNeverRan, ToldOwn
  <2> QED
    BY <2>3, <2>4 DEF OwnInv
<1>8. CASE LaunchTask
  <2>0. UNCHANGED <<slot, proc, told, freed>> /\ main.at = "launches" /\ main'.at = "updates"
    BY <1>0, <1>8 DEF LaunchTask
  <2>1. PICK n \in Tasks : n = NextTask /\ waiter[n].at = "none"
    BY <2>0, NextIsNone
  <2>2. waiter' = [waiter EXCEPT ![n] = [at |-> "forks", itask |-> main.itask]]
    BY <1>8, <2>1 DEF LaunchTask
  <2>3. SlotIsOwn' /\ ReservedIsApart' /\ ReceivedIsKept'
    BY <1>0, <2>0, <2>1, <2>2 DEF OwnInv, SlotIsOwn, ReservedIsApart, ReceivedIsKept, Active
  <2>4. MissedNeverRan' /\ ToldOwn'
    BY <1>0, <1>s, <2>0, <2>1, <2>2 DEF OwnInv, MissedNeverRan, ToldOwn
  <2> QED
    BY <2>3, <2>4 DEF OwnInv
<1> QED
  BY <1>1, <1>2, <1>3, <1>4, <1>5, <1>6, <1>7, <1>8 DEF Main

(* A step of a waiter that keeps its slot.                                 *)
LEMMA WaiterKeeps ==
  ASSUME TypeOK, OwnInv, NEW k \in Tasks, NEW from, NEW to, WaiterGoes(k, from, to),
         from \notin {"none", "gone"}, to \notin {"none", "gone"},
         freed' = freed, ShuttingDown => ShuttingDown',
         \A i \in Slots : slot'[i].used = slot[i].used /\ slot'[i].task = slot[i].task,
         main'.at \in {"receives", "launches"} => main' = main
  PROVE  SlotIsOwn' /\ ReservedIsApart' /\ ReceivedIsKept'
<1>0. /\ waiter \in [Tasks -> [at : WaiterPlaces, itask : Slots]]
      /\ main \in [at : MainPlaces, itask : Slots]
  BY DEF TypeOK
<1>1. NotStarted' = NotStarted
  BY <1>0 DEF NotStarted, WaiterGoes
<1>2. NextTask' = NextTask
  BY <1>1 DEF NextTask
<1>3. \A j \in Tasks : waiter'[j].itask = waiter[j].itask /\ (Active(j)' = Active(j))
  BY <1>0 DEF WaiterGoes, Active
<1> QED
  BY <1>0, <1>2, <1>3 DEF OwnInv, SlotIsOwn, ReservedIsApart, ReceivedIsKept

(* A waiter that frees its slot.                                           *)
LEMMA WaiterFrees ==
  ASSUME TypeOK, AnotherTask, OwnInv, NEW k \in Tasks, NEW from, WaiterGoes(k, from, "gone"),
         from \notin {"none", "gone"}, freed' = freed \cup Others(k), main' = main,
         slot' = [slot EXCEPT ![waiter[k].itask].used = FALSE]
  PROVE  SlotIsOwn' /\ ReservedIsApart' /\ ReceivedIsKept'
<1>0. /\ waiter \in [Tasks -> [at : WaiterPlaces, itask : Slots]]
      /\ main \in [at : MainPlaces, itask : Slots] /\ main.itask \in Slots /\ waiter[k].itask \in Slots
      /\ slot \in [Slots -> TaskRecord]
  BY DEF TypeOK, TaskRecord
<1>1. NotStarted' = NotStarted /\ k \notin NotStarted
  BY <1>0 DEF NotStarted, WaiterGoes
<1>2. NextTask' = NextTask
  BY <1>1 DEF NextTask
<1>3. \A j \in Tasks : waiter'[j].itask = waiter[j].itask /\ (Active(j)' => Active(j) /\ j # k)
  BY <1>0 DEF WaiterGoes, Active
<1>4. \A i \in Slots : slot'[i].task = slot[i].task /\ (i # waiter[k].itask => slot'[i].used = slot[i].used)
  BY <1>0 DEF TaskRecord
<1>5. \A j \in Tasks \ freed' : Active(j) /\ j # k => waiter[j].itask # waiter[k].itask
  BY DEF Others, Waiters, Active
<1>6. SlotIsOwn'
  BY <1>0, <1>3, <1>4, <1>5 DEF OwnInv, SlotIsOwn
<1>7. ReservedIsApart'
  BY <1>0, <1>3 DEF OwnInv, ReservedIsApart
<1>8. ReceivedIsKept'
  <2> SUFFICES ASSUME main.at = "launches", NextTask \notin freed'
               PROVE  slot'[main.itask].used /\ slot'[main.itask].task = NextTask
    BY <1>2 DEF ReceivedIsKept
  <2>1. slot[main.itask].used /\ slot[main.itask].task = NextTask
    BY DEF OwnInv, ReceivedIsKept
  <2>2. CASE main.itask # waiter[k].itask
    BY <1>0, <1>4, <2>1, <2>2
  <2>3. CASE main.itask = waiter[k].itask
    <3>1. NextTask \in Tasks /\ NextTask # k
      BY <1>1, NextIsNone DEF NotStarted
    <3> QED
      BY <2>1, <2>3, <3>1 DEF Others
  <2> QED
    BY <2>2, <2>3
<1> QED
  BY <1>6, <1>7, <1>8

LEMMA OwnWaiter == ASSUME TypeOK, AnotherTask, OwnInv, NEW k \in Tasks, Waiter(k) \/ TaskEnds(k) PROVE OwnInv'
<1> USE DEF table, history
<1>0. /\ waiter \in [Tasks -> [at : WaiterPlaces, itask : Slots]] /\ waiter[k].itask \in Slots
      /\ slot \in [Slots -> TaskRecord] /\ told \in [Tasks -> Tasks \cup {Nothing}]
      /\ proc \in [Tasks -> {"none", "runs", "zombie", "reaped"}]
  BY DEF TypeOK, TaskRecord
<1>s. ShuttingDown => ShuttingDown'
  BY ShutDownStays DEF Next
<1> USE DEF MissedNeverRan, ToldOwn
<1>1. CASE ForkTask(k)
  <2>1. SlotIsOwn' /\ ReservedIsApart' /\ ReceivedIsKept'
    BY <1>1, <1>s, WaiterKeeps DEF ForkTask
  <2>2. MissedNeverRan' /\ ToldOwn'
    BY <1>0, <1>1, <1>s DEF OwnInv, ForkTask, WaiterGoes
  <2> QED
    BY <2>1, <2>2 DEF OwnInv
<1>2. CASE SetLoading(k)
  <2>1. \A i \in Slots : slot'[i].used = slot[i].used /\ slot'[i].task = slot[i].task
    BY <1>0, <1>2 DEF SetLoading, TaskRecord
  <2>2. SlotIsOwn' /\ ReservedIsApart' /\ ReceivedIsKept'
    BY <1>2, <1>s, <2>1, WaiterKeeps DEF SetLoading
  <2>3. MissedNeverRan' /\ ToldOwn'
    BY <1>0, <1>2, <1>s DEF OwnInv, SetLoading, WaiterGoes
  <2> QED
    BY <2>2, <2>3 DEF OwnInv
<1>3. CASE WaitPid(k)
  <2>1. SlotIsOwn' /\ ReservedIsApart' /\ ReceivedIsKept'
    BY <1>3, <1>s, WaiterKeeps DEF WaitPid
  <2>2. MissedNeverRan' /\ ToldOwn'
    BY <1>0, <1>3, <1>s DEF OwnInv, WaitPid, WaiterGoes
  <2> QED
    BY <2>1, <2>2 DEF OwnInv
<1>4. CASE GiveUpTask(k)
  <2>1. SlotIsOwn' /\ ReservedIsApart' /\ ReceivedIsKept'
    BY <1>4, WaiterFrees DEF GiveUpTask
  <2>2. MissedNeverRan' /\ ToldOwn'
    BY <1>0, <1>4, <1>s DEF OwnInv, GiveUpTask, WaiterGoes
  <2> QED
    BY <2>1, <2>2 DEF OwnInv
<1>5. CASE SetFinished(k)
  <2>1. \A i \in Slots : slot'[i].used = slot[i].used /\ slot'[i].task = slot[i].task
    BY <1>0, <1>5 DEF SetFinished, TaskRecord
  <2>2. SlotIsOwn' /\ ReservedIsApart' /\ ReceivedIsKept'
    BY <1>5, <1>s, <2>1, WaiterKeeps DEF SetFinished
  <2>3. MissedNeverRan' /\ ToldOwn'
    BY <1>0, <1>5, <1>s DEF OwnInv, SetFinished, WaiterGoes
  <2> QED
    BY <2>2, <2>3 DEF OwnInv
<1>6. CASE RequestTaskFinished(k)
  <2>1. SlotIsOwn' /\ ReservedIsApart' /\ ReceivedIsKept'
    BY <1>6, <1>s, WaiterKeeps DEF RequestTaskFinished
  <2>2. k \notin freed => told'[k] = k
    BY <1>0, <1>6 DEF OwnInv, SlotIsOwn, Active, RequestTaskFinished, WaiterGoes
  <2>3. MissedNeverRan' /\ ToldOwn'
    BY <1>0, <1>6, <1>s, <2>2 DEF OwnInv, RequestTaskFinished, WaiterGoes
  <2> QED
    BY <2>1, <2>3 DEF OwnInv
<1>7. CASE ReportFails(k)
  <2>1. SlotIsOwn' /\ ReservedIsApart' /\ ReceivedIsKept'
    BY <1>7, <1>s, WaiterKeeps, MainCalm DEF ReportFails
  <2>2. ShuttingDown'
    BY <1>7, MainCalm DEF ReportFails, ShuttingDown
  <2>3. MissedNeverRan' /\ ToldOwn'
    BY <1>0, <1>7, <2>2 DEF OwnInv, ReportFails, WaiterGoes
  <2> QED
    BY <2>1, <2>3 DEF OwnInv
<1>8. CASE FreeTask(k)
  <2>1. SlotIsOwn' /\ ReservedIsApart' /\ ReceivedIsKept'
    BY <1>8, WaiterFrees DEF FreeTask
  <2>2. MissedNeverRan' /\ ToldOwn'
    BY <1>0, <1>8, <1>s DEF OwnInv, FreeTask, WaiterGoes
  <2> QED
    BY <2>1, <2>2 DEF OwnInv
<1>9. CASE TaskEnds(k)
  <2>1. \A i \in Slots : SlotStays(i)
    BY <1>9 DEF TaskEnds, SlotStays
  <2> QED
    BY <1>0, <1>9, <1>s, <2>1, OwnStays DEF TaskEnds
<1> QED
  BY <1>1, <1>2, <1>3, <1>4, <1>5, <1>6, <1>7, <1>8, <1>9 DEF Waiter

LEMMA OwnCheck ==
  ASSUME TypeOK, AnotherTask, OwnInv, Check \/ \E i \in Slots : MinutePasses(i)
  PROVE  OwnInv'
<1> USE DEF table, history
<1>0. slot \in [Slots -> TaskRecord] /\ check.i \in Slots /\ main \in [at : MainPlaces, itask : Slots]
  BY DEF TypeOK, TaskRecord
<1>s. ShuttingDown => ShuttingDown'
  BY ShutDownStays DEF Next
<1>1. UNCHANGED <<main, waiter, proc, told>> /\ freed \subseteq freed'
  BY DEF Check, LookAtTask, LookAtAge, CheckFrees, CheckMarks, MinutePasses
<1>2. \A i \in Slots : SlotStays(i)
  <2>1. CASE LookAtTask \/ LookAtAge
    BY <2>1 DEF LookAtTask, LookAtAge, SlotStays
  <2>2. CASE CheckMarks \/ \E i \in Slots : MinutePasses(i)
    <3>1. \A j \in Slots : slot'[j].used = slot[j].used /\ slot'[j].task = slot[j].task
      BY <1>0, <2>2 DEF CheckMarks, MinutePasses, TaskRecord
    <3> QED
      BY <3>1 DEF SlotStays
  <2>3. CASE CheckFrees
    <3>1. \A j \in Slots : slot'[j].task = slot[j].task /\ (j # check.i => slot'[j].used = slot[j].used)
      BY <1>0, <2>3 DEF CheckFrees, TaskRecord
    <3>2. \A k \in Tasks \ freed' : Active(k) => waiter[k].itask # check.i
      BY <2>3 DEF CheckFrees, Waiters, Active
    <3>3. main.at = "launches" /\ main.itask = check.i => NextTask \in freed'
      BY <2>3, NextIsNone DEF CheckFrees, Seen, OwnInv, ReceivedIsKept
    <3> QED
      BY <1>1, <3>1, <3>2, <3>3 DEF SlotStays
  <2> QED
    BY <2>1, <2>2, <2>3 DEF Check
<1> QED
  BY <1>s, <1>1, <1>2, OwnStays

LEMMA OwnListener ==
  ASSUME TypeOK, OwnInv, SetNMaxCpus \/ SetEnabled \/ Interrupt \/ \E i \in Slots : KillTask(i)
  PROVE  OwnInv'
<1> USE DEF table, history
<1>s. ShuttingDown => ShuttingDown'
  BY ShutDownStays DEF Next
<1>1. UNCHANGED <<slot, waiter, told, freed>>
  BY DEF SetNMaxCpus, SetEnabled, ChangeLimits, Interrupt, KillTask
<1>2. main'.at \in {"receives", "launches"} => main' = main
  BY MainCalm DEF SetNMaxCpus, SetEnabled, ChangeLimits, Interrupt, KillTask
<1>3. \A k \in Tasks : proc'[k] = proc[k] \/ (proc[k] = "runs" /\ proc'[k] = "zombie")
  BY DEF SetNMaxCpus, SetEnabled, ChangeLimits, Interrupt, KillTask
<1>4. \A i \in Slots : SlotStays(i)
  BY <1>1 DEF SlotStays
<1> QED
  BY <1>s, <1>1, <1>2, <1>3, <1>4, OwnStays

LEMMA OwnAlways == Spec => []OwnInv
<1> DEFINE Inv == TypeOK /\ AnotherTask /\ OwnInv
<1>1. Init => Inv
  BY TypeInit DEF Init, AnotherTask, OwnInv, MissedNeverRan, SlotIsOwn, ReservedIsApart, ReceivedIsKept,
                  ToldOwn, Active
<1>2. Inv /\ [Next]_vars => Inv'
  <2>1. OwnInv /\ UNCHANGED vars => OwnInv'
    BY DEF OwnInv, MissedNeverRan, SlotIsOwn, ReservedIsApart, ReceivedIsKept, ToldOwn, Active,
           ShuttingDown, NextTask, NotStarted, vars, table, history
  <2>2. TypeOK /\ AnotherTask /\ OwnInv /\ Next => OwnInv'
    BY OwnMain, OwnWaiter, OwnCheck, OwnListener DEF Next
  <2> QED
    BY <2>1, <2>2, TypeStep
<1> QED
  BY <1>1, <1>2, PTL DEF Spec

(* A waiter whose slot nobody else freed reports the task it waited for,   *)
(* and leaves a report out only when the slave shuts down (slave.c:709):   *)
(* its slot stays in use for its task, apart from the one main reserved.   *)
THEOREM ReportsOwn == Spec => []ReportIsOwn
<1>1. OwnInv => ReportIsOwn
  BY DEF OwnInv, ToldOwn, ReportIsOwn
<1> QED
  BY <1>1, OwnAlways, PTL

(***************************************************************************)
(* Processors                                                              *)
(***************************************************************************)
RunningSlots == {i \in Slots : IsRunning(slot[i])}
Stopping == {"kills", "waits", "off"}
Started == {"forks", "loads", "waits"}

(* While nobody freed a slot of others: who has started is not FINISHED,   *)
(* a FINISHED slot has its waiter, the slots that run are as many as the   *)
(* processors at most, and one fewer but for the slot main asks for; the   *)
(* count of main may be too high, never too low.                           *)
StartedRun == /\ \A k \in Tasks : waiter[k].at \in Started => slot[waiter[k].itask].status # "FINISHED"
              /\ main.at = "launches" => slot[main.itask].status # "FINISHED"
FinishedHasWaiter == \A i \in Slots : slot[i].used /\ slot[i].status = "FINISHED" => Waiters(i) # {}
RoomForOne ==
  /\ Cardinality(RunningSlots) <= NCpus
  /\ main.at = "asks" => Cardinality(RunningSlots) < NCpus
  /\ main.at \in {"receives", "launches"} => Cardinality(RunningSlots \ {main.itask}) < NCpus
CountSuffices ==
  /\ main.at \notin {"receives"} \cup Stopping => Cardinality(RunningSlots) <= nrunning
  /\ main.at = "receives" => Cardinality(RunningSlots \ {main.itask}) <= nrunning
RunInv == freed = {} => StartedRun /\ FinishedHasWaiter /\ RoomForOne /\ CountSuffices

LEMMA SlotSets ==
  ASSUME NEW S \in SUBSET Slots
  PROVE  IsFiniteSet(S) /\ Cardinality(S) \in Nat /\ \A R \in SUBSET S : Cardinality(R) <= Cardinality(S)
<1>1. IsFiniteSet(Slots)
  BY SlotsAreNat, FS_Interval DEF Slots
<1>2. IsFiniteSet(S)
  BY <1>1, FS_Subset
<1> QED
  BY <1>2, FS_Subset, FS_CardinalityType

LEMMA CountIsRunning == CountRunning(slot) = Cardinality(RunningSlots)
BY DEF CountRunning, RunningSlots

(* Main asks only if there is a processor more than its count.             *)
LEMMA AvailableHasRoom ==
  ASSUME TypeOK, NEW load \in 0 .. NCpus, Available(load)
  PROVE  nrunning < NCpus
<1>0. /\ nrunning \in Nat /\ limits.nmaxcpus \in Nat /\ NCpus \in Nat /\ NSlots \in Nat
  BY SizesAssumption DEF TypeOK, Limits
<1> DEFINE M == {limits.nmaxcpus, NCpus, NSlots}
           C == {0, load - nrunning}
<1>1. \E x \in M : \A y \in M : x =< y
  BY <1>0
<1>2. Min(M) \in M /\ \A y \in M : Min(M) =< y
  BY <1>1 DEF Min
<1>3. \E x \in C : \A y \in C : x >= y
  BY <1>0
<1>4. Max(C) \in C /\ \A y \in C : Max(C) >= y
  BY <1>3 DEF Max
<1>5. Min(M) \in Nat /\ Min(M) =< NCpus /\ Max(C) \in Int /\ Max(C) >= 0
  BY <1>0, <1>2, <1>4
<1>6. Min(M) - Max(C) - nrunning > 0
  BY DEF Available, CpusFree
<1> QED
  BY <1>0, <1>5, <1>6

(* No slot starts to run.                                                  *)
LEMMA RunStays ==
  ASSUME TypeOK, RunInv, freed \subseteq freed', slot' \in [Slots -> TaskRecord],
         freed' = {} =>
           /\ RunningSlots' \subseteq RunningSlots
           /\ nrunning' = nrunning \/ nrunning' = Cardinality(RunningSlots')
           /\ \A k \in Tasks : waiter'[k].at \in Started => slot'[waiter'[k].itask].status # "FINISHED"
           /\ main'.at = "launches" => slot'[main.itask].status # "FINISHED"
           /\ FinishedHasWaiter',
         main'.at \in {"asks", "receives", "launches"} => main' = main,
         main.at \in Stopping => main'.at \in Stopping,
         main.at = "receives" => main'.at \in {"receives"} \cup Stopping
  PROVE  RunInv'
<1> SUFFICES ASSUME freed' = {} PROVE StartedRun' /\ FinishedHasWaiter' /\ RoomForOne' /\ CountSuffices'
  BY DEF RunInv
<1>0. StartedRun /\ FinishedHasWaiter /\ RoomForOne /\ CountSuffices
  BY DEF RunInv
<1> DEFINE R == RunningSlots
           i == main.itask
<1>1. /\ R \in SUBSET Slots /\ R' \in SUBSET R
      /\ R \ {i} \in SUBSET Slots /\ R' \ {i} \in SUBSET (R \ {i}) /\ R' \ {i} \in SUBSET R'
  BY DEF RunningSlots
<1>2. /\ Cardinality(R) \in Nat /\ Cardinality(R') \in Nat /\ Cardinality(R') <= Cardinality(R)
      /\ Cardinality(R \ {i}) \in Nat /\ Cardinality(R' \ {i}) \in Nat
      /\ Cardinality(R' \ {i}) <= Cardinality(R \ {i}) /\ Cardinality(R' \ {i}) <= Cardinality(R')
  BY <1>1, SlotSets
<1>3. nrunning \in Nat /\ NCpus \in Nat
  BY SizesAssumption DEF TypeOK
<1>4. main'.at \in {"asks", "receives", "launches"} => main' = main
  OBVIOUS
<1>5. StartedRun'
  BY <1>4 DEF StartedRun
<1>6. RoomForOne'
  <2>1. Cardinality(R') <= NCpus
    BY <1>0, <1>2, <1>3 DEF RoomForOne
  <2>2. main'.at = "asks" => Cardinality(R') < NCpus
    BY <1>0, <1>2, <1>3, <1>4 DEF RoomForOne
  <2>3. main'.at \in {"receives", "launches"} => main'.itask = i /\ Cardinality(R' \ {i}) < NCpus
    BY <1>0, <1>2, <1>3, <1>4 DEF RoomForOne
  <2> QED
    BY <2>1, <2>2, <2>3 DEF RoomForOne
<1>7. CountSuffices'
  <2>1. ASSUME main'.at \notin {"receives"} \cup Stopping PROVE Cardinality(R') <= nrunning'
    <3>1. main.at \notin {"receives"} \cup Stopping
      BY <2>1
    <3> QED
      BY <1>0, <1>2, <1>3, <3>1 DEF CountSuffices
  <2>2. ASSUME main'.at = "receives" PROVE main'.itask = i /\ Cardinality(R' \ {i}) <= nrunning'
    BY <1>0, <1>2, <1>3, <1>4, <2>2 DEF CountSuffices
  <2> QED
    BY <2>1, <2>2 DEF CountSuffices
<1> QED
  BY <1>5, <1>6, <1>7

(* Neither slots nor waiters change.                                       *)
LEMMA RunSame ==
  ASSUME TypeOK, RunInv, UNCHANGED <<slot, nrunning, waiter, freed>>,
         main'.at \in {"asks", "receives", "launches"} => main' = main,
         main.at \in Stopping => main'.at \in Stopping,
         main.at = "receives" => main'.at \in {"receives"} \cup Stopping
  PROVE  RunInv'
<1>1. slot' \in [Slots -> TaskRecord] /\ RunningSlots' = RunningSlots
  BY DEF TypeOK, TaskRecord, RunningSlots
<1>2. freed' = {} => StartedRun /\ FinishedHasWaiter'
  BY DEF RunInv, FinishedHasWaiter, Waiters
<1> QED
  BY <1>1, <1>2, RunStays DEF StartedRun

LEMMA RunMain == ASSUME TypeOK, AnotherTask, OwnInv, RunInv, Main, TypeOK' PROVE RunInv'
<1> USE DEF MainGoes, table, history, Stopping
<1>0. /\ waiter \in [Tasks -> [at : WaiterPlaces, itask : Slots]]
      /\ main \in [at : MainPlaces, itask : Slots] /\ main.itask \in Slots
      /\ slot \in [Slots -> TaskRecord] /\ slot' \in [Slots -> TaskRecord]
      /\ nrunning \in Nat /\ NCpus \in Nat
  BY SizesAssumption DEF TypeOK, TaskRecord
<1>1. CASE AutoEnableCheck \/ UpdateComputerStatus \/ SelectReturns \/ CleanOutKills \/ SlaveExits \/ NoJobForUs
  <2>1. UNCHANGED <<slot, nrunning, waiter, freed>>
    BY <1>1 DEF AutoEnableCheck, UpdateComputerStatus, SelectReturns, CleanOutKills, SlaveExits, NoJobForUs
  <2>2. /\ main'.at \notin {"asks", "receives", "launches"}
        /\ main.at \in Stopping => main'.at \in Stopping
        /\ main.at # "receives"
    BY <1>0, <1>1 DEF AutoEnableCheck, UpdateComputerStatus, SelectReturns, CleanOutKills, SlaveExits, NoJobForUs
  <2> QED
    BY <2>1, <2>2, RunSame
<1>2. CASE StatusNotSent
  BY <1>2, MainCalm, RunSame DEF StatusNotSent
<1>3. CASE GetComputerStatus
  <2>1. \A i \in Slots : slot'[i].status = slot[i].status /\ (slot'[i].used => slot[i].used)
    BY <1>0, <1>3 DEF GetComputerStatus, TaskRecord
  <2>2. UNCHANGED <<nrunning, waiter>> /\ freed \subseteq freed' /\ main.at = "status" /\ main'.at = "enable"
    BY <1>0, <1>3 DEF GetComputerStatus
  <2>3. RunningSlots' \subseteq RunningSlots
    BY <2>1 DEF RunningSlots, IsRunning
  <2>4. freed' = {} => StartedRun /\ FinishedHasWaiter
    BY <2>2 DEF RunInv
  <2>5. freed' = {} => FinishedHasWaiter'
    BY <2>1, <2>2, <2>4 DEF FinishedHasWaiter, Waiters
  <2> QED
    BY <1>0, <2>1, <2>2, <2>3, <2>4, <2>5, RunStays DEF StartedRun
<1>4. CASE LaunchFails
  <2>1. \A i \in Slots : slot'[i].status = slot[i].status /\ (slot'[i].used => slot[i].used)
    BY <1>0, <1>4 DEF LaunchFails, TaskRecord
  <2>2. UNCHANGED <<nrunning, waiter, freed>> /\ main.at = "launches" /\ main'.at = "off"
    BY <1>0, <1>4 DEF LaunchFails
  <2>3. RunningSlots' \subseteq RunningSlots
    BY <2>1 DEF RunningSlots, IsRunning
  <2>4. freed' = {} => StartedRun /\ FinishedHasWaiter
    BY <2>2 DEF RunInv
  <2>5. freed' = {} => FinishedHasWaiter'
    BY <2>1, <2>2, <2>4 DEF FinishedHasWaiter, Waiters
  <2> QED
    BY <1>0, <2>1, <2>2, <2>3, <2>4, <2>5, RunStays DEF StartedRun
<1>5. ASSUME NEW load \in 0 .. NCpus, ComputerAvailable(load) PROVE RunInv'
  <2>1. UNCHANGED <<slot, nrunning, waiter, freed>>
    BY <1>5 DEF ComputerAvailable
  <2>2. CASE ~Available(load)
    BY <1>0, <1>5, <2>1, <2>2, RunSame DEF ComputerAvailable
  <2>3. CASE Available(load)
    <3>1. nrunning < NCpus /\ main.at = "available" /\ main'.at = "asks"
      BY <1>0, <1>5, <2>3, AvailableHasRoom DEF ComputerAvailable
    <3>2. RunningSlots' = RunningSlots /\ Cardinality(RunningSlots) \in Nat
      BY <2>1, SlotSets, RunningSlots \in SUBSET Slots DEF RunningSlots
    <3>3. freed = {} => Cardinality(RunningSlots) <= nrunning /\ Cardinality(RunningSlots) < NCpus
      BY <1>0, <3>1, <3>2 DEF RunInv, CountSuffices
    <3> QED
      BY <2>1, <3>1, <3>2, <3>3
         DEF RunInv, StartedRun, FinishedHasWaiter, Waiters, RoomForOne, CountSuffices
  <2> QED
    BY <2>2, <2>3
<1>6. CASE TaskAvailable
  <2>0. UNCHANGED <<nrunning, waiter, freed>> /\ main.at = "asks"
    BY <1>6 DEF TaskAvailable
  <2>1. CASE main' = [main EXCEPT !.at = "reports"] /\ UNCHANGED slot
    BY <1>0, <2>0, <2>1, RunSame
  <2>2. CASE FreeSlots # {}
             /\ slot' = [slot EXCEPT ![Min(FreeSlots)].used = TRUE, ![Min(FreeSlots)].status = "LOADING",
                                     ![Min(FreeSlots)].aged = FALSE]
             /\ main' = [at |-> "receives", itask |-> Min(FreeSlots)]
    <3>1. PICK i \in Slots : i = Min(FreeSlots) /\ ~slot[i].used
      BY <2>2, MinIsIn DEF FreeSlots
    <3>2. \A j \in Slots : (j # i => slot'[j] = slot[j]) /\ slot'[i].status = "LOADING"
      <4>1. slot' = [slot EXCEPT ![i].used = TRUE, ![i].status = "LOADING", ![i].aged = FALSE]
        BY <2>2, <3>1
      <4> QED
        BY <1>0, <4>1 DEF TaskRecord
    <3>3. i \notin RunningSlots /\ RunningSlots' \in SUBSET (RunningSlots \cup {i})
      BY <3>1, <3>2 DEF RunningSlots, IsRunning
    <3> DEFINE R == RunningSlots
    <3>4. R \in SUBSET Slots /\ R \cup {i} \in SUBSET Slots /\ R' \in SUBSET Slots /\ R' \ {i} \in SUBSET R
      BY <3>3 DEF RunningSlots
    <3>5. /\ Cardinality(R) \in Nat /\ Cardinality(R') \in Nat /\ Cardinality(R' \ {i}) \in Nat
          /\ Cardinality(R' \ {i}) <= Cardinality(R) /\ Cardinality(R') <= Cardinality(R) + 1
      <4>1. IsFiniteSet(R) /\ Cardinality(R \cup {i}) = Cardinality(R) + 1
        BY <3>3, <3>4, SlotSets, FS_AddElement
      <4>2. Cardinality(R') <= Cardinality(R \cup {i})
        BY <3>3, <3>4, SlotSets
      <4>3. Cardinality(R' \ {i}) <= Cardinality(R)
        BY <3>4, SlotSets
      <4>4. Cardinality(R) \in Nat /\ Cardinality(R') \in Nat /\ Cardinality(R' \ {i}) \in Nat
        BY <3>4, SlotSets, R' \ {i} \in SUBSET Slots
      <4> QED
        BY <4>1, <4>2, <4>3, <4>4
    <3>6. main'.at = "receives" /\ main'.itask = i
      BY <2>2, <3>1
    <3> SUFFICES ASSUME freed' = {} PROVE StartedRun' /\ FinishedHasWaiter' /\ RoomForOne' /\ CountSuffices'
      BY DEF RunInv
    <3>7. StartedRun /\ FinishedHasWaiter /\ Cardinality(R) < NCpus /\ Cardinality(R) <= nrunning
      BY <2>0 DEF RunInv, RoomForOne, CountSuffices
    <3>8. StartedRun' /\ FinishedHasWaiter'
      BY <1>0, <2>0, <3>2, <3>6, <3>7, ZenonT(60) DEF StartedRun, FinishedHasWaiter, Waiters
    <3>9. RoomForOne' /\ CountSuffices'
      BY <1>0, <2>0, <3>5, <3>6, <3>7 DEF RoomForOne, CountSuffices
    <3> QED
      BY <3>8, <3>9
  <2> QED
    BY <1>6, <2>1, <2>2 DEF TaskAvailable
<1>7. CASE ReceivesNoTask
  <2> DEFINE i == main.itask
             R == RunningSlots
  <2>0. UNCHANGED <<nrunning, waiter, freed>> /\ main.at = "receives" /\ main'.at = "reports"
    BY <1>0, <1>7 DEF ReceivesNoTask
  <2>1. \A j \in Slots : (j # i => slot'[j] = slot[j]) /\ slot'[i] = EmptyTask
    BY <1>0, <1>7 DEF ReceivesNoTask, Cleared
  <2>2. R' \in SUBSET (R \ {i}) /\ R \in SUBSET Slots /\ R \ {i} \in SUBSET Slots
    BY <2>1 DEF RunningSlots, IsRunning, EmptyTask
  <2>3. /\ Cardinality(R') \in Nat /\ Cardinality(R \ {i}) \in Nat
        /\ Cardinality(R') <= Cardinality(R \ {i})
    BY <2>2, SlotSets
  <2> SUFFICES ASSUME freed' = {} PROVE StartedRun' /\ FinishedHasWaiter' /\ RoomForOne' /\ CountSuffices'
    BY DEF RunInv
  <2>4. StartedRun /\ FinishedHasWaiter /\ Cardinality(R \ {i}) < NCpus /\ Cardinality(R \ {i}) <= nrunning
    BY <2>0 DEF RunInv, RoomForOne, CountSuffices
  <2>5. StartedRun' /\ FinishedHasWaiter'
    BY <1>0, <2>0, <2>1, <2>4 DEF StartedRun, FinishedHasWaiter, Waiters, EmptyTask
  <2>6. RoomForOne' /\ CountSuffices'
    BY <1>0, <2>0, <2>3, <2>4 DEF RoomForOne, CountSuffices
  <2> QED
    BY <2>5, <2>6
<1>8. CASE ReceiveTask
  <2> DEFINE i == main.itask
             R == RunningSlots
  <2>0. UNCHANGED <<waiter, freed>> /\ main.at = "receives" /\ main'.at = "launches" /\ main'.itask = i
    BY <1>0, <1>8 DEF ReceiveTask
  <2>1. \A j \in Slots : (j # i => slot'[j] = slot[j]) /\ slot'[i].status = "LOADING"
    BY <1>0, <1>8 DEF ReceiveTask, EmptyTask
  <2>2. /\ R \in SUBSET Slots /\ R' \in SUBSET Slots /\ R \ {i} \in SUBSET Slots
        /\ R' \in SUBSET ((R \ {i}) \cup {i}) /\ (R \ {i}) \cup {i} \in SUBSET Slots
        /\ R' \ {i} \in SUBSET (R \ {i})
    BY <1>0, <2>1 DEF RunningSlots, IsRunning
  <2>3. /\ Cardinality(R') \in Nat /\ Cardinality(R \ {i}) \in Nat /\ Cardinality(R' \ {i}) \in Nat
        /\ Cardinality(R' \ {i}) <= Cardinality(R \ {i}) /\ Cardinality(R') <= Cardinality(R \ {i}) + 1
    <3>1. IsFiniteSet(R \ {i}) /\ Cardinality((R \ {i}) \cup {i}) = Cardinality(R \ {i}) + 1
      BY <2>2, SlotSets, FS_AddElement, SMTT(30)
    <3>2. Cardinality(R') <= Cardinality((R \ {i}) \cup {i})
      BY <2>2, SlotSets
    <3>3. Cardinality(R' \ {i}) <= Cardinality(R \ {i})
      BY <2>2, SlotSets
    <3>4. Cardinality(R') \in Nat /\ Cardinality(R \ {i}) \in Nat /\ Cardinality(R' \ {i}) \in Nat
      BY <2>2, SlotSets, R' \ {i} \in SUBSET Slots
    <3> QED
      BY <3>1, <3>2, <3>3, <3>4
  <2>4. nrunning' = Cardinality(R')
    BY <1>8 DEF ReceiveTask, CountRunning, RunningSlots
  <2> SUFFICES ASSUME freed' = {} PROVE StartedRun' /\ FinishedHasWaiter' /\ RoomForOne' /\ CountSuffices'
    BY DEF RunInv
  <2>5. StartedRun /\ FinishedHasWaiter /\ Cardinality(R \ {i}) < NCpus
    BY <2>0 DEF RunInv, RoomForOne
  <2>6. StartedRun' /\ FinishedHasWaiter'
    BY <1>0, <2>0, <2>1, <2>5 DEF StartedRun, FinishedHasWaiter, Waiters
  <2>7. RoomForOne' /\ CountSuffices'
    BY <1>0, <2>0, <2>3, <2>4, <2>5 DEF RoomForOne, CountSuffices
  <2> QED
    BY <2>6, <2>7
<1>9. CASE LaunchTask
  <2>0. UNCHANGED <<slot, nrunning, freed>> /\ main.at = "launches" /\ main'.at = "updates"
    BY <1>0, <1>9 DEF LaunchTask
  <2>1. PICK n \in Tasks : n = NextTask /\ waiter[n].at = "none"
    BY <2>0, NextIsNone
  <2>2. waiter' = [waiter EXCEPT ![n] = [at |-> "forks", itask |-> main.itask]]
    BY <1>9, <2>1 DEF LaunchTask
  <2>3. freed' = {} => StartedRun /\ FinishedHasWaiter
    BY <2>0 DEF RunInv
  <2>4. freed' = {} => FinishedHasWaiter'
    BY <1>0, <2>0, <2>1, <2>2, <2>3 DEF FinishedHasWaiter, Waiters
  <2>5. freed' = {} => \A k \in Tasks : waiter'[k].at \in Started => slot'[waiter'[k].itask].status # "FINISHED"
    BY <1>0, <2>0, <2>2, <2>3 DEF StartedRun
  <2>6. RunningSlots' = RunningSlots
    BY <2>0 DEF RunningSlots
  <2> QED
    BY <1>0, <2>0, <2>4, <2>5, <2>6, RunStays
<1> QED
  BY <1>1, <1>2, <1>3, <1>4, <1>5, <1>6, <1>7, <1>8, <1>9 DEF Main

LEMMA RunWaiter ==
  ASSUME TypeOK, OwnInv, RunInv, NEW k \in Tasks, Waiter(k) \/ TaskEnds(k), TypeOK'
  PROVE  RunInv'
<1> USE DEF WaiterGoes, table, history, Started
<1>0. /\ waiter \in [Tasks -> [at : WaiterPlaces, itask : Slots]] /\ waiter[k].itask \in Slots
      /\ slot \in [Slots -> TaskRecord] /\ slot' \in [Slots -> TaskRecord]
  BY DEF TypeOK, TaskRecord
<1> DEFINE i == waiter[k].itask
<1>r. ASSUME freed \subseteq freed', UNCHANGED main \/ GroupSignal,
             freed' = {} =>
               /\ RunningSlots' \subseteq RunningSlots
               /\ nrunning' = nrunning \/ nrunning' = Cardinality(RunningSlots')
               /\ \A j \in Tasks : waiter'[j].at \in Started => slot'[waiter'[j].itask].status # "FINISHED"
               /\ main.at = "launches" => slot'[main.itask].status # "FINISHED"
               /\ FinishedHasWaiter'
      PROVE RunInv'
  <2>1. \/ main' = main
        \/ main'.at \in Stopping
    BY <1>r, MainCalm DEF Stopping
  <2> QED
    BY <1>0, <1>r, <2>1, RunStays DEF Stopping
<1>o. ASSUME freed = {}
      PROVE  /\ StartedRun /\ FinishedHasWaiter
             /\ \A j \in Tasks : Active(j) => slot[waiter[j].itask].used /\ slot[waiter[j].itask].task = j
             /\ main.at \in {"receives", "launches"} => \A j \in Tasks : Active(j) => waiter[j].itask # main.itask
  BY <1>o DEF RunInv, OwnInv, SlotIsOwn, ReservedIsApart
<1>1. CASE ForkTask(k) \/ WaitPid(k) \/ RequestTaskFinished(k) \/ ReportFails(k) \/ TaskEnds(k)
  <2>1. UNCHANGED <<slot, nrunning, freed>> /\ (UNCHANGED main \/ GroupSignal)
    BY <1>1 DEF ForkTask, WaitPid, RequestTaskFinished, ReportFails, TaskEnds
  <2>2. \A j \in Tasks : /\ waiter'[j].itask = waiter[j].itask
                         /\ waiter'[j].at \in Started => waiter[j].at \in Started
                         /\ waiter[j].at \notin {"none", "gone"} => waiter'[j].at \notin {"none", "gone"}
    BY <1>0, <1>1 DEF ForkTask, WaitPid, RequestTaskFinished, ReportFails, TaskEnds
  <2>3. freed = {} => FinishedHasWaiter'
    BY <1>o, <2>1, <2>2 DEF FinishedHasWaiter, Waiters
  <2>4. freed = {} => \A j \in Tasks : waiter'[j].at \in Started => slot'[waiter'[j].itask].status # "FINISHED"
    BY <1>o, <2>1, <2>2 DEF StartedRun
  <2>5. freed = {} => (main.at = "launches" => slot'[main.itask].status # "FINISHED")
    BY <1>o, <2>1 DEF StartedRun
  <2>6. RunningSlots' = RunningSlots
    BY <2>1 DEF RunningSlots
  <2> QED
    BY <1>r, <2>1, <2>3, <2>4, <2>5, <2>6
<1>2. CASE SetLoading(k)
  <2>1. UNCHANGED <<main, freed>> /\ nrunning' = Cardinality(RunningSlots') /\ waiter[k].at = "loads"
    BY <1>2 DEF SetLoading, CountRunning, RunningSlots
  <2>2. \A j \in Slots : slot'[j].used = slot[j].used /\ (j # i => slot'[j] = slot[j])
    BY <1>0, <1>2 DEF SetLoading, TaskRecord
  <2>3. slot'[i].status = "LOADING"
    BY <1>0, <1>2 DEF SetLoading, TaskRecord
  <2>4. \A j \in Tasks : /\ waiter'[j].itask = waiter[j].itask
                         /\ waiter'[j].at \in Started => waiter[j].at \in Started
                         /\ waiter[j].at \notin {"none", "gone"} => waiter'[j].at \notin {"none", "gone"}
    BY <1>0, <1>2 DEF SetLoading
  <2>5. freed = {} => RunningSlots' \subseteq RunningSlots
    BY <1>0, <1>o, <2>1, <2>2 DEF RunningSlots, IsRunning, StartedRun
  <2>6. freed = {} => FinishedHasWaiter'
    BY <1>o, <2>2, <2>3, <2>4 DEF FinishedHasWaiter, Waiters
  <2>7. freed = {} => \A j \in Tasks : waiter'[j].at \in Started => slot'[waiter'[j].itask].status # "FINISHED"
    BY <1>0, <1>o, <2>2, <2>3, <2>4 DEF StartedRun
  <2>8. freed = {} => (main.at = "launches" => slot'[main.itask].status # "FINISHED")
    BY <1>o, <2>2, <2>3, main.itask \in Slots DEF StartedRun, TypeOK
  <2> QED
    BY <1>r, <2>1, <2>5, <2>6, <2>7, <2>8
<1>3. CASE GiveUpTask(k) \/ FreeTask(k)
  <2>1. /\ UNCHANGED main /\ freed \subseteq freed'
        /\ nrunning' = nrunning \/ nrunning' = Cardinality(RunningSlots')
    BY <1>3 DEF GiveUpTask, FreeTask, CountRunning, RunningSlots
  <2>2. \A j \in Slots : /\ slot'[j].status = slot[j].status
                         /\ j # i => slot'[j].used = slot[j].used
    BY <1>0, <1>3 DEF GiveUpTask, FreeTask, TaskRecord
  <2>3. ~slot'[i].used
    BY <1>0, <1>3 DEF GiveUpTask, FreeTask, TaskRecord
  <2>4. \A j \in Tasks : waiter'[j].itask = waiter[j].itask /\ (j # k => waiter'[j] = waiter[j])
    BY <1>0, <1>3 DEF GiveUpTask, FreeTask
  <2>5. waiter'[k].at = "gone"
    BY <1>0, <1>3 DEF GiveUpTask, FreeTask
  <2>6. freed' = {} => StartedRun /\ FinishedHasWaiter
    BY <1>o, <2>1
  <2>7. RunningSlots' \subseteq RunningSlots
    BY <2>2, <2>3 DEF RunningSlots, IsRunning
  <2>8. \A j \in Slots : j # i => Waiters(j)' = Waiters(j)
    BY <2>4 DEF Waiters
  <2>9. freed' = {} => FinishedHasWaiter'
    BY <2>2, <2>3, <2>6, <2>8 DEF FinishedHasWaiter
  <2>10. freed' = {} => \A j \in Tasks : waiter'[j].at \in Started => slot'[waiter'[j].itask].status # "FINISHED"
    BY <1>0, <2>2, <2>4, <2>5, <2>6 DEF StartedRun
  <2>11. freed' = {} => (main.at = "launches" => slot'[main.itask].status # "FINISHED")
    BY <2>2, <2>6, main.itask \in Slots DEF StartedRun, TypeOK
  <2> QED
    BY <1>r, <2>1, <2>7, <2>9, <2>10, <2>11
<1>4. CASE SetFinished(k)
  <2>1. UNCHANGED <<main, freed>> /\ nrunning' = Cardinality(RunningSlots') /\ waiter[k].at = "reaped"
    BY <1>4 DEF SetFinished, CountRunning, RunningSlots
  <2>2. \A j \in Slots : slot'[j].used = slot[j].used /\ (j # i => slot'[j] = slot[j])
    BY <1>0, <1>4 DEF SetFinished, TaskRecord
  <2>3. slot'[i].status = "FINISHED"
    BY <1>0, <1>4 DEF SetFinished, TaskRecord
  <2>4. \A j \in Tasks : waiter'[j].itask = waiter[j].itask /\ (j # k => waiter'[j] = waiter[j])
    BY <1>0, <1>4 DEF SetFinished
  <2>5. waiter'[k].at = "reports"
    BY <1>0, <1>4 DEF SetFinished
  <2>6. freed = {} => FinishedHasWaiter'
    <3>1. \A j \in Slots : j = i => Waiters(j)' # {}
      BY <2>4, <2>5 DEF Waiters
    <3>2. \A j \in Slots : j # i => Waiters(j)' = Waiters(j)
      BY <2>4 DEF Waiters
    <3>3. freed = {} => \A j \in Slots :
             j # i /\ slot'[j].used /\ slot'[j].status = "FINISHED" => Waiters(j)' # {}
      BY <1>o, <2>2, <3>2 DEF FinishedHasWaiter
    <3> QED
      BY <3>1, <3>3 DEF FinishedHasWaiter
  <2>7. RunningSlots' \subseteq RunningSlots
    BY <2>2, <2>3 DEF RunningSlots, IsRunning
  <2>8. freed = {} => \A j \in Tasks : waiter'[j].at \in Started => slot'[waiter'[j].itask].status # "FINISHED"
    <3> SUFFICES ASSUME freed = {}, NEW j \in Tasks, waiter'[j].at \in Started
                 PROVE  slot'[waiter'[j].itask].status # "FINISHED"
      OBVIOUS
    <3>1. j # k /\ waiter'[j] = waiter[j] /\ Active(j) /\ Active(k)
      BY <2>1, <2>4, <2>5 DEF Active
    <3>2. waiter[j].itask # i
      BY <1>o, <3>1
    <3> QED
      BY <1>0, <1>o, <2>2, <3>1, <3>2 DEF StartedRun
  <2>9. freed = {} => (main.at = "launches" => slot'[main.itask].status # "FINISHED")
    <3>1. Active(k) /\ main.itask \in Slots
      BY <2>1 DEF Active, TypeOK
    <3> QED
      BY <1>o, <2>2, <3>1 DEF StartedRun
  <2> QED
    BY <1>r, <2>1, <2>6, <2>7, <2>8, <2>9
<1> QED
  BY <1>1, <1>2, <1>3, <1>4 DEF Waiter

LEMMA RunCheck ==
  ASSUME TypeOK, RunInv, Check \/ \E i \in Slots : MinutePasses(i), TypeOK'
  PROVE  RunInv'
<1> USE DEF table, history
<1>0. /\ slot \in [Slots -> TaskRecord] /\ slot' \in [Slots -> TaskRecord] /\ check.i \in Slots
      /\ main.itask \in Slots /\ \A k \in Tasks : waiter[k].itask \in Slots
  BY DEF TypeOK, TaskRecord
<1>1. UNCHANGED <<nrunning, main, waiter>> /\ freed \subseteq freed'
  BY DEF Check, LookAtTask, LookAtAge, CheckFrees, CheckMarks, MinutePasses
<1>2. ASSUME \A j \in Slots : /\ slot'[j].used => slot[j].used
                              /\ slot'[j].status # slot[j].status =>
                                   slot'[j].status = "RUNNING"
                                   /\ (freed' = {} /\ slot[j].used => slot[j].status # "FINISHED")
      PROVE RunInv'
  <2>1. freed' = {} => StartedRun /\ FinishedHasWaiter
    BY <1>1 DEF RunInv
  <2>2. freed' = {} => RunningSlots' \subseteq RunningSlots
    BY <1>2 DEF RunningSlots, IsRunning
  <2>3. freed' = {} => FinishedHasWaiter'
    BY <1>1, <1>2, <2>1 DEF FinishedHasWaiter, Waiters
  <2>4. freed' = {} => \A k \in Tasks : waiter'[k].at \in Started => slot'[waiter'[k].itask].status # "FINISHED"
    BY <1>0, <1>1, <1>2, <2>1 DEF StartedRun
  <2>5. freed' = {} => (main'.at = "launches" => slot'[main.itask].status # "FINISHED")
    BY <1>0, <1>1, <1>2, <2>1 DEF StartedRun
  <2> QED
    BY <1>0, <1>1, <2>2, <2>3, <2>4, <2>5, RunStays
<1>3. CASE LookAtTask \/ LookAtAge
  BY <1>2, <1>3 DEF LookAtTask, LookAtAge
<1>4. CASE CheckFrees \/ \E i \in Slots : MinutePasses(i)
  <2>1. \A j \in Slots : (slot'[j].used => slot[j].used) /\ slot'[j].status = slot[j].status
    BY <1>0, <1>4 DEF CheckFrees, MinutePasses, TaskRecord
  <2> QED
    BY <1>2, <2>1
<1>5. CASE CheckMarks
  <2>1. /\ \A j \in Slots : slot'[j].used = slot[j].used /\ (j # check.i => slot'[j] = slot[j])
        /\ slot'[check.i].status = "RUNNING"
    BY <1>0, <1>5 DEF CheckMarks, TaskRecord
  <2>2. freed' = {} /\ slot[check.i].used => slot[check.i].status # "FINISHED"
    <3> SUFFICES ASSUME freed' = {}, slot[check.i].used, slot[check.i].status = "FINISHED" PROVE FALSE
      OBVIOUS
    <3>1. PICK k \in Tasks : k \in Waiters(check.i)
      BY <1>0, <1>1 DEF RunInv, FinishedHasWaiter, Waiters
    <3>2. k \in freed'
      BY <1>5, <3>1 DEF CheckMarks, Seen
    <3> QED
      BY <3>2
  <2> QED
    BY <1>2, <2>1, <2>2
<1> QED
  BY <1>3, <1>4, <1>5 DEF Check

LEMMA RunListener ==
  ASSUME TypeOK, RunInv, SetNMaxCpus \/ SetEnabled \/ Interrupt \/ \E i \in Slots : KillTask(i)
  PROVE  RunInv'
<1>1. UNCHANGED <<slot, nrunning, waiter, freed>>
  BY DEF SetNMaxCpus, SetEnabled, ChangeLimits, Interrupt, KillTask, table, history
<1>2. main' = main \/ main'.at \in Stopping
  BY MainCalm DEF SetNMaxCpus, SetEnabled, ChangeLimits, Interrupt, KillTask, Stopping
<1> QED
  BY <1>1, <1>2, RunSame DEF Stopping

LEMMA RunInit == Init => RunInv
<1> SUFFICES ASSUME Init PROVE RunInv
  OBVIOUS
<1>1. RunningSlots = {}
  BY DEF Init, RunningSlots, IsRunning, EmptyTask
<1>2. Cardinality(RunningSlots) = 0
  BY <1>1, FS_EmptySet
<1>3. StartedRun /\ FinishedHasWaiter
  BY DEF Init, StartedRun, FinishedHasWaiter, Started, EmptyTask
<1>4. RoomForOne /\ CountSuffices
  BY <1>2, SizesAssumption DEF Init, RoomForOne, CountSuffices
<1> QED
  BY <1>3, <1>4 DEF RunInv

(* Tasks that are executed have slots of their own, and these run.         *)
LEMMA SlotsOfTasks ==
  ASSUME TypeOK, WaitersInv, OwnInv, RunInv, freed = {}
  PROVE  Cardinality(Executed) <= Cardinality(RunningSlots)
<1> DEFINE own == [k \in Executed |-> waiter[k].itask]
<1>1. \A k \in Executed : k \in Tasks /\ Active(k) /\ waiter[k].at \in Started
  BY DEF Executed, WaitersInv, RunsAreWaited, Active, Started
<1>2. \A k \in Executed : slot[waiter[k].itask].used /\ slot[waiter[k].itask].task = k
  BY <1>1 DEF OwnInv, SlotIsOwn
<1>3. own \in [Executed -> RunningSlots]
  BY <1>1, <1>2 DEF RunInv, StartedRun, RunningSlots, IsRunning, TypeOK
<1>4. \A j, k \in Executed : own[j] = own[k] => j = k
  BY <1>2
<1>5. IsFiniteSet(RunningSlots)
  BY SlotSets DEF RunningSlots
<1>6. own \in Injection(Executed, RunningSlots)
  BY <1>3, <1>4 DEF Injection, IsInjective
<1> QED
  BY <1>5, <1>6, FS_Injection

(* A computer executes no more tasks than it has processors (the comment   *)
(* in computer_available), unless a slot was freed under a waiter: tasks   *)
(* run in slots of their own, and main's count never misses one.           *)
THEOREM CpusEnough == Spec => []CpusSuffice
<1> DEFINE Inv == TypeOK /\ AnotherTask /\ WaitersInv /\ OwnInv /\ RunInv
<1>1. Init => RunInv
  BY RunInit
<1>2. TypeOK /\ AnotherTask /\ WaitersInv /\ OwnInv /\ RunInv /\ [Next]_vars => RunInv'
  <2>1. RunInv /\ UNCHANGED vars => RunInv'
    BY DEF RunInv, StartedRun, FinishedHasWaiter, RoomForOne, CountSuffices, RunningSlots, Waiters,
           vars, table, history
  <2>2. TypeOK /\ AnotherTask /\ OwnInv /\ RunInv /\ Next => RunInv'
    BY TypeStep, RunMain, RunWaiter, RunCheck, RunListener DEF Next
  <2> QED
    BY <2>1, <2>2
<1>3. Inv => CpusSuffice
  <2> SUFFICES ASSUME Inv, freed = {} PROVE Cardinality(Executed) <= NCpus
    BY DEF CpusSuffice
  <2>1. IsFiniteSet(Tasks) /\ Executed \in SUBSET Tasks
    BY SizesAssumption, FS_Interval DEF Tasks, Executed
  <2>2. Cardinality(Executed) \in Nat /\ Cardinality(RunningSlots) \in Nat
    BY <2>1, SlotSets, FS_Subset, FS_CardinalityType, RunningSlots \in SUBSET Slots DEF RunningSlots
  <2>3. Cardinality(RunningSlots) <= NCpus
    BY DEF RunInv, RoomForOne
  <2> QED
    BY <2>2, <2>3, SlotsOfTasks, SizesAssumption
<1> QED
  BY <1>1, <1>2, <1>3, TypeAndTasks, WaitersAlways, OwnAlways, PTL DEF Spec

=============================================================================
