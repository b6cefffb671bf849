---------------------------- MODULE LoadBalance ----------------------------
(***************************************************************************)
(* The order in which handlers of R_R_AVAILJOB look at the jobs            *)
(* (handle_r_r_availjob).  A handler sorts the table by priority, compares *)
(* the order with the one the last handler saved, and starts where that    *)
(* one stopped or at the top.  The saved order, next_i and last_priority   *)
(* are shared and not locked; only each look at a job is.  Whether a job   *)
(* is available to a computer changes between two looks for many reasons,  *)
(* which Master has; here each look finds it so or not.                    *)
(*                                                                         *)
(* One step compares and saves the order; the priorities are read at once. *)
(***************************************************************************)
EXTENDS Naturals, FiniteSets

CONSTANTS
  N,              \* MAXJOBS
  Askers,         \* computers, each with at most one request at a time
  Priorities,     \* priorities clients use
  DefaultPri,     \* what job_init leaves in a free slot
  MaxChanges      \* bound: submissions, deletions and changes of priority

Slots == 0 .. N - 1

ASSUME LoadBalanceAssumption ==
  /\ N \in Nat \ {0} /\ MaxChanges \in Nat
  /\ DefaultPri \in Nat /\ Priorities \subseteq Nat

VARIABLES
  slot,           \* jobs: used, priority, submit_time
  lb,             \* wdb->lb: order and priorities of the last request,
                  \* next_i, last_priority
  scan,           \* each handler: where it is, at which rank, its order
  changes,
  missed          \* history: jobs a handler looked at and found unavailable

vars == <<slot, lb, scan, changes, missed>>

FreeSlot == [used |-> FALSE, pri |-> DefaultPri, time |-> 0]

NoOrder == [r \in Slots |-> [index |-> 0, pri |-> 0]]

NotAsking == [pc |-> "idle", i |-> 0, pol |-> NoOrder]

(* The queue may come from the database file; lb never does.               *)
Init ==
  /\ slot \in [Slots -> {FreeSlot} \cup
                          [used : {TRUE}, pri : Priorities, time : {0}]]
  /\ lb = [pol |-> NoOrder, next |-> 0, last |-> 0]
  /\ scan = [a \in Askers |-> NotAsking]
  /\ changes = 0
  /\ missed = [a \in Askers |-> {}]

(* priority_job_compare: higher priority, older, lower index.              *)
Before(j, k) ==
  \/ slot[j].pri > slot[k].pri
  \/ slot[j].pri = slot[k].pri /\ slot[j].time < slot[k].time
  \/ slot[j].pri = slot[k].pri /\ slot[j].time = slot[k].time /\ j < k

Orders == {p \in [Slots -> Slots] : {p[r] : r \in Slots} = Slots}

Sorted(p) == \A r, q \in Slots : r < q => Before(p[r], p[q])

-----------------------------------------------------------------------------
(* One search.  It goes through the phases                                 *)
(*   "low"    another order than last time, ranks of lower priority        *)
(*   "high"   ... from the first rank that is not, starting at next_i      *)
(*   "ring"   the same order, from next_i on                               *)
(*   "top"    the same order, from the top                                 *)
(*   "again"  from the top, once more                                      *)

Ask(a) ==
  /\ scan[a].pc = "idle"
  /\ \E p \in Orders :
       LET pol == [r \in Slots |-> [index |-> p[r], pri |-> slot[p[r]].pri]] IN
       /\ Sorted(p)
       /\ lb' = [lb EXCEPT !.pol = pol]
       /\ scan' = [scan EXCEPT ![a] =
                     IF pol = lb.pol
                       THEN [pc |-> "ring", i |-> lb.next, pol |-> pol]
                       ELSE [pc |-> "low", i |-> 0, pol |-> pol]]
  /\ missed' = [missed EXCEPT ![a] = {}]
  /\ UNCHANGED <<slot, changes>>

AtEnd(a) == scan[a].i >= N

JobAt(a) == scan[a].pol[scan[a].i].index

PriAt(a) == scan[a].pol[scan[a].i].pri

TurnsHigh(a) == scan[a].pc = "low" /\ ~AtEnd(a) /\ PriAt(a) >= lb.last

TurnsTop(a) ==
  /\ scan[a].pc = "ring" /\ ~AtEnd(a)
  /\ scan[a].i + 1 >= N \/ PriAt(a) < lb.last

TurnsAgain(a) == scan[a].pc \in {"low", "high", "ring", "top"} /\ AtEnd(a)

AgainFromNext == lb.next         \* mutant: goes on where the ring started

AgainFrom == 0

Turn(a) ==
  /\ \/ /\ TurnsHigh(a)
        /\ scan' = [scan EXCEPT ![a].pc = "high", ![a].i = lb.next]
     \/ /\ TurnsTop(a)
        /\ scan' = [scan EXCEPT ![a].pc = "top", ![a].i = 0]
     \/ /\ TurnsAgain(a)
        /\ scan' = [scan EXCEPT ![a].pc = "again", ![a].i = AgainFrom]
  /\ UNCHANGED <<slot, lb, changes, missed>>

Looks(a) ==
  /\ scan[a].pc \in {"low", "high", "ring", "top", "again"} /\ ~AtEnd(a)
  /\ ~TurnsHigh(a) /\ ~TurnsTop(a)

(* job_available fails: the next rank.                                     *)
Pass(a) ==
  /\ Looks(a)
  /\ scan' = [scan EXCEPT ![a].i = @ + 1]
  /\ missed' = [missed EXCEPT ![a] = @ \cup {JobAt(a)}]
  /\ UNCHANGED <<slot, lb, changes>>

(* Mutants: the job served is the next one again; one is jumped over.      *)
AfterSame(a) == scan[a].i

AfterTwo(a) == scan[a].i + 2

After(a) == scan[a].i + 1

(* job_available reserves a frame.                                         *)
Take(a) ==
  /\ Looks(a)
  /\ slot[JobAt(a)].used
  /\ lb' = [lb EXCEPT !.next = After(a)]
  /\ scan' = [scan EXCEPT ![a].pc = "taken"]
  /\ UNCHANGED <<slot, changes, missed>>

Offer(a) ==
  /\ scan[a].pc = "taken"
  /\ lb' = [lb EXCEPT !.last = PriAt(a)]
  /\ scan' = [scan EXCEPT ![a] = NotAsking]
  /\ missed' = [missed EXCEPT ![a] = {}]
  /\ UNCHANGED <<slot, changes>>

(* RERR_NOAVJOB.                                                           *)
NoJob(a) ==
  /\ scan[a].pc = "again" /\ AtEnd(a)
  /\ lb' = [lb EXCEPT !.next = 0]
  /\ scan' = [scan EXCEPT ![a] = NotAsking]
  /\ missed' = [missed EXCEPT ![a] = {}]
  /\ UNCHANGED <<slot, changes>>

-----------------------------------------------------------------------------
(* What changes under a search.                                            *)

Change == changes < MaxChanges /\ changes' = changes + 1

(* handle_r_r_jobpriup.                                                    *)
SetPriority(j, p) ==
  /\ Change
  /\ slot[j].used
  /\ slot' = [slot EXCEPT ![j].pri = p]
  /\ UNCHANGED <<lb, scan, missed>>

Submit(j, p) ==
  /\ Change
  /\ ~slot[j].used /\ \A k \in Slots : k < j => slot[k].used
  /\ slot' = [slot EXCEPT ![j] = [used |-> TRUE, pri |-> p, time |-> changes']]
  /\ UNCHANGED <<lb, scan, missed>>

Delete(j) ==
  /\ Change
  /\ slot[j].used
  /\ slot' = [slot EXCEPT ![j] = FreeSlot]
  /\ UNCHANGED <<lb, scan, missed>>

Search(a) == Ask(a) \/ Turn(a) \/ Pass(a) \/ Take(a) \/ Offer(a) \/ NoJob(a)

Next ==
  \/ \E a \in Askers : Search(a)
  \/ \E j \in Slots : \/ Delete(j)
                      \/ \E p \in Priorities : SetPriority(j, p) \/ Submit(j, p)

Spec == Init /\ [][Next]_vars

(* Slaves ask again as long as they have a free task slot, and the kernel  *)
(* runs their handlers.                                                    *)
FairSpec == Spec /\ \A a \in Askers : WF_vars(Search(a))
-----------------------------------------------------------------------------
Order == [Slots -> [index : Slots, pri : Nat]]

Position ==
  {x \in [pc : {"idle", "low", "high", "ring", "top", "again", "taken"},
          i : 0 .. N, pol : Order] : x.pc = "taken" => x.i \in Slots}

TypeOK ==
  /\ slot \in [Slots -> [used : BOOLEAN, pri : Nat, time : Nat]]
  /\ lb \in [pol : Order, next : 0 .. N, last : Nat]
  /\ scan \in [Askers -> Position]
  /\ changes \in 0 .. MaxChanges
  /\ missed \in [Askers -> SUBSET Slots]

(* A computer is told that there is no job only after its handler found    *)
(* every job unavailable, whatever other handlers do to the shared order,  *)
(* next_i and last_priority meanwhile, and users to the jobs.              *)
NoJobIsTrue == \A a \in Askers : scan[a].pc = "again" /\ AtEnd(a) => missed[a] = Slots

(* A job of the highest priority that is available whenever a handler      *)
(* looks is served again and again, next to others of its priority.  Not   *)
(* so the job that is last in the order: a search starts over before it    *)
(* gets to the last rank.                                                  *)
Served(j)   == \E a \in Askers : Looks(a) /\ JobAt(a) = j /\ Take(a)
Missed(j)   == \E a \in Askers : Looks(a) /\ JobAt(a) = j /\ Pass(a)
Foremost(j) == /\ slot[j].used
               /\ \A k \in Slots : slot[k].used => slot[k].pri <= slot[j].pri
               /\ \E k \in Slots : Before(j, k)

ForemostIsServed ==
  \A j \in Slots :
    <>[]Foremost(j) /\ <>[][~Missed(j)]_vars => []<><<Served(j)>>_vars
=============================================================================
