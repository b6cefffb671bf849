------------------------------- MODULE Slave -------------------------------
(***************************************************************************)
(* A slave from inside: the process that asks for tasks (main), a waiter   *)
(* and a process for each task (launch_task), the process that checks the  *)
(* table of tasks (slave_consistency_process) and the listener's children. *)
(* They share struct computer.  A section under the semaphore is one step; *)
(* what a process reads without it is a step of its own.  Master has the   *)
(* other end of the requests, and of the table only what a master sees.    *)
(***************************************************************************)
EXTENDS Integers, FiniteSets, FiniteSetsExt

CONSTANTS
  NSlots,         \* MAXTASKS
  NTasks,         \* tasks the master gives out in a run
  NCpus,          \* hwinfo.ncpus
  MaxChanges,     \* requests that change the limits, or kill a task
  Faults          \* subset of {"fork", "link", "signal"}

ASSUME SizesAssumption == NSlots \in Nat \ {0} /\ NTasks \in Nat /\ NCpus \in Nat /\ MaxChanges \in Nat
ASSUME FaultsAssumption == Faults \subseteq {"fork", "link", "signal"}

Slots == 0 .. NSlots - 1
Tasks == 1 .. NTasks
Nothing == 0                    \* no task; the pid of a task not started yet
Failed == -1                    \* what fork answers when it fails
Limits == [enabled : BOOLEAN, nmaxcpus : 0 .. NCpus]

VARIABLES
  slot,           \* status.task: used, status, pid, the task, whether it began over MAXTASKLOADINGTIME ago
  nrunning,       \* status.nrunning
  limits,         \* limits.enabled, limits.nmaxcpus
  main,           \* where the main process is, its itask
  waiter,         \* [Tasks -> where the waiter of the task is, its itask]
  proc,           \* [Tasks -> the process that executes the task]
  check,          \* where the consistency process is, its i
  told,           \* [Tasks -> the task its waiter reported]
  changes,        \* changes of limits and kills so far
  freed,          \* tasks whose slot somebody else freed or took: history
  left            \* main ended without clean_out: history

table == <<slot, nrunning>>
history == <<freed, left>>
vars == <<slot, nrunning, limits, main, waiter, proc, check, told, changes, history>>

Alive(p) == p \in Tasks => proc[p] \notin {"none", "reaped"}    \* kill (pid,0)
IsRunningLoaded(t) == t.used /\ t.status = "RUNNING"             \* mutant: loading tasks do not count
IsRunningUsed(t) == t.used                                       \* mutant: finished tasks count
IsRunning(t) == t.used /\ t.status # "FINISHED"
CountRunning(s) == Cardinality({i \in Slots : IsRunning(s[i])})
EmptyTask == [used |-> FALSE, status |-> "LOADING", pid |-> Nothing, task |-> Nothing, aged |-> FALSE]

CpusFree(load) ==
  LET possible == Min({limits.nmaxcpus, NCpus, NSlots})
      charged == Max({0, load - nrunning})
  IN  possible - charged - nrunning
Available(load) == limits.enabled /\ CpusFree(load) > 0

Init ==
  /\ slot = [i \in Slots |-> EmptyTask]
  /\ nrunning = 0
  /\ limits = [enabled |-> TRUE, nmaxcpus |-> NCpus]
  /\ main = [at |-> "status", itask |-> 0]
  /\ waiter = [k \in Tasks |-> [at |-> "none", itask |-> 0]]
  /\ proc = [k \in Tasks |-> "none"]
  /\ check = [at |-> "look", i |-> 0]
  /\ told = [k \in Tasks |-> Nothing]
  /\ changes = 0
  /\ freed = {} /\ left = FALSE

(* The waiter of a task is at work on slot i: it has not freed it yet.     *)
Waiters(i) == {k \in Tasks : waiter[k].itask = i /\ waiter[k].at \notin {"none", "gone"}}

(* SIGINT to the process group.  Main starts clean_out, once; the checks   *)
(* and the listener with its children end; waiters ignore it, and a task   *)
(* has a group of its own.                                                 *)
GroupSignal ==
  /\ main' = IF main.at \in {"kills", "waits", "off"} THEN main ELSE [main EXCEPT !.at = "kills"]
  /\ check' = [at |-> "off", i |-> 0]

(***************************************************************************)
(* The main process                                                        *)
(***************************************************************************)
MainGoes(from, to) == main.at = from /\ main' = [main EXCEPT !.at = to]

(* get_computer_status: a task marked RUNNING without a process is freed.  *)
DeadTasks == {i \in Slots : slot[i].used /\ slot[i].status = "RUNNING" /\ ~Alive(slot[i].pid)}
GetComputerStatus ==
  /\ MainGoes("status", "enable")
  /\ slot' = [i \in Slots |-> IF i \in DeadTasks THEN [slot[i] EXCEPT !.used = FALSE] ELSE slot[i]]
  /\ freed' = freed \cup UNION {Waiters(i) : i \in DeadTasks}
  /\ UNCHANGED <<nrunning, limits, waiter, proc, check, told, changes, left>>

(* computer_autoenable_check, whatever the time of the day is.             *)
AutoEnableCheck ==
  /\ MainGoes("enable", "available")
  /\ \/ UNCHANGED limits
     \/ limits' = [limits EXCEPT !.enabled = TRUE]
  /\ UNCHANGED <<table, waiter, proc, check, told, changes, history>>

ComputerAvailable(load) ==
  /\ MainGoes("available", IF Available(load) THEN "asks" ELSE "reports")
  /\ UNCHANGED <<table, limits, waiter, proc, check, told, changes, history>>

(* request_job_available, up to the answer of the master.                  *)
NoJobForUs ==
  /\ MainGoes("asks", "reports")
  /\ UNCHANGED <<table, limits, waiter, proc, check, told, changes, history>>

FreeSlotsFinished == {i \in Slots : ~slot[i].used \/ slot[i].status = "FINISHED"}   \* mutant
FreeSlots == {i \in Slots : ~slot[i].used}
NotStarted == {k \in Tasks : waiter[k].at = "none"}
TaskAvailable ==
  /\ main.at = "asks"
  /\ NotStarted # {}
  /\ \/ /\ FreeSlots = {}
        /\ main' = [main EXCEPT !.at = "reports"]
        /\ UNCHANGED slot
     \/ /\ FreeSlots # {}
        /\ LET i == Min(FreeSlots)
           IN  /\ slot' = [slot EXCEPT ![i].used = TRUE, ![i].status = "LOADING", ![i].aged = FALSE]
               /\ main' = [at |-> "receives", itask |-> i]
  /\ UNCHANGED <<nrunning, limits, waiter, proc, check, told, changes, history>>

ClearedNot(t) == t              \* mutant: the reservation stays
Cleared(t) == EmptyTask
ReceivesNoTask ==
  /\ MainGoes("receives", "reports")
  /\ slot' = [slot EXCEPT ![main.itask] = Cleared(@)]
  /\ UNCHANGED <<nrunning, limits, waiter, proc, check, told, changes, history>>

NextTask == CHOOSE k \in NotStarted : TRUE
ReceiveTask ==
  /\ MainGoes("receives", "launches")
  /\ slot' = [slot EXCEPT ![main.itask] = [EmptyTask EXCEPT !.used = TRUE, !.task = NextTask]]
  /\ nrunning' = CountRunning(slot')
  /\ UNCHANGED <<limits, waiter, proc, check, told, changes, history>>

LaunchTask ==
  /\ MainGoes("launches", "updates")
  /\ waiter' = [waiter EXCEPT ![NextTask] = [at |-> "forks", itask |-> main.itask]]
  /\ UNCHANGED <<table, limits, proc, check, told, changes, history>>

(* The waiter cannot be forked: main frees the slot and exits.             *)
LaunchFails ==
  /\ "fork" \in Faults
  /\ MainGoes("launches", "off")
  /\ slot' = [slot EXCEPT ![main.itask].used = FALSE]
  /\ left' = TRUE
  /\ UNCHANGED <<nrunning, limits, waiter, proc, check, told, changes, freed>>

UpdateComputerStatus ==
  /\ \/ MainGoes("updates", "available")
     \/ MainGoes("reports", "selects")
  /\ UNCHANGED <<table, limits, waiter, proc, check, told, changes, history>>

StatusNotSent ==
  /\ "link" \in Faults
  /\ main.at \in {"updates", "reports"}
  /\ GroupSignal
  /\ UNCHANGED <<table, limits, waiter, proc, told, changes, freed, left>>

(* SLAVEDELAY is over, or a child wrote to the phantom pipe.               *)
SelectReturns ==
  /\ MainGoes("selects", "status")
  /\ UNCHANGED <<table, limits, waiter, proc, check, told, changes, history>>

Interrupt ==
  /\ "signal" \in Faults
  /\ main.at \notin {"kills", "waits", "off"}
  /\ GroupSignal
  /\ UNCHANGED <<table, limits, waiter, proc, told, changes, freed, left>>

(* clean_out kills the tasks it finds, waits for the waiters, says bye.    *)
CleanOutKills ==
  /\ MainGoes("kills", "waits")
  /\ LET pids == {slot[i].pid : i \in {j \in Slots : slot[j].used}}
     IN  proc' = [k \in Tasks |-> IF k \in pids /\ proc[k] = "runs" THEN "zombie" ELSE proc[k]]
  /\ UNCHANGED <<table, limits, waiter, check, told, changes, history>>

ChildlessOrNot == TRUE          \* mutant: main does not wait
Childless == \A k \in Tasks : waiter[k].at \in {"none", "gone"}
SlaveExits ==
  /\ Childless
  /\ MainGoes("waits", "off")
  /\ UNCHANGED <<table, limits, waiter, proc, check, told, changes, history>>

(***************************************************************************)
(* The waiter of task k, and the task                                      *)
(***************************************************************************)
WaiterGoes(k, from, to) ==
  /\ waiter[k].at = from
  /\ waiter' = [waiter EXCEPT ![k].at = to]

ForkTask(k) ==
  /\ WaiterGoes(k, "forks", "loads")
  /\ \/ proc' = [proc EXCEPT ![k] = "runs"]
     \/ "fork" \in Faults /\ UNCHANGED proc
  /\ UNCHANGED <<table, limits, main, check, told, changes, history>>

SetLoading(k) ==
  /\ WaiterGoes(k, "loads", "waits")
  /\ slot' = [slot EXCEPT ![waiter[k].itask].status = "LOADING",
                          ![waiter[k].itask].aged = FALSE,
                          ![waiter[k].itask].pid = IF proc[k] = "none" THEN Failed ELSE k]
  /\ nrunning' = CountRunning(slot')
  /\ UNCHANGED <<limits, main, proc, check, told, changes, history>>

TaskEnds(k) ==
  /\ proc[k] = "runs"
  /\ proc' = [proc EXCEPT ![k] = "zombie"]
  /\ UNCHANGED <<table, limits, main, waiter, check, told, changes, history>>

WaitPid(k) ==
  /\ \/ /\ proc[k] = "zombie"
        /\ WaiterGoes(k, "waits", "reaped")
        /\ proc' = [proc EXCEPT ![k] = "reaped"]
     \/ /\ proc[k] = "none"
        /\ WaiterGoes(k, "waits", "missed")
        /\ UNCHANGED proc
  /\ UNCHANGED <<table, limits, main, check, told, changes, history>>

(* Tasks that lose their slot when the waiter of k frees the one it has.   *)
Others(k) == (Waiters(waiter[k].itask) \ {k})
             \cup {j \in Tasks : j = slot[waiter[k].itask].task /\ j # k}

(* waitpid knows no such process.                                          *)
GiveUpTask(k) ==
  /\ WaiterGoes(k, "missed", "gone")
  /\ slot' = [slot EXCEPT ![waiter[k].itask].used = FALSE]
  /\ nrunning' = CountRunning(slot')
  /\ freed' = freed \cup Others(k)
  /\ UNCHANGED <<limits, main, proc, check, told, changes, left>>

SetFinished(k) ==
  /\ WaiterGoes(k, "reaped", "reports")
  /\ slot' = [slot EXCEPT ![waiter[k].itask].status = "FINISHED"]
  /\ nrunning' = CountRunning(slot')
  /\ UNCHANGED <<limits, main, proc, check, told, changes, history>>

(* request_task_finished sends what the slot holds by then.                *)
RequestTaskFinished(k) ==
  /\ WaiterGoes(k, "reports", "frees")
  /\ told' = [told EXCEPT ![k] = slot[waiter[k].itask].task]
  /\ UNCHANGED <<table, limits, main, proc, check, changes, history>>

ReportFails(k) ==
  /\ "link" \in Faults
  /\ WaiterGoes(k, "reports", "frees")
  /\ GroupSignal
  /\ UNCHANGED <<table, limits, proc, told, changes, freed, left>>

FreeTask(k) ==
  /\ WaiterGoes(k, "frees", "gone")
  /\ slot' = [slot EXCEPT ![waiter[k].itask].used = FALSE]
  /\ freed' = freed \cup Others(k)
  /\ UNCHANGED <<nrunning, limits, main, proc, check, told, changes, left>>

(***************************************************************************)
(* slave_consistency_process                                               *)
(***************************************************************************)
Seen == slot[check.i]
LookNext == [at |-> "look", i |-> (check.i + 1) % NSlots]

LookAtTask ==
  /\ check.at = "look"
  /\ check' = IF Seen.used /\ ~Alive(Seen.pid)              THEN [check EXCEPT !.at = "dead"]
              ELSE IF Seen.used /\ Seen.status = "LOADING"  THEN [check EXCEPT !.at = "marks"]
              ELSE LookNext
  /\ UNCHANGED <<table, limits, main, waiter, proc, told, changes, history>>

(* A task that is not LOADING is spared for MAXTASKLOADINGTIME.            *)
Spared(t) == t.status # "LOADING" /\ ~t.aged
LookAtAge ==
  /\ check.at = "dead"
  /\ check' = IF Spared(Seen) THEN LookNext ELSE [check EXCEPT !.at = "frees"]
  /\ UNCHANGED <<table, limits, main, waiter, proc, told, changes, history>>

CheckFrees ==
  /\ check.at = "frees"
  /\ check' = LookNext
  /\ slot' = [slot EXCEPT ![check.i].used = FALSE]
  /\ freed' = freed \cup Waiters(check.i) \cup {k \in Tasks : k = Seen.task}
  /\ UNCHANGED <<nrunning, limits, main, waiter, proc, told, changes, left>>

CheckMarks ==
  /\ check.at = "marks"
  /\ check' = LookNext
  /\ slot' = [slot EXCEPT ![check.i].status = "RUNNING"]
  /\ freed' = freed \cup {k \in Waiters(check.i) : Seen.status = "FINISHED"}
  /\ UNCHANGED <<nrunning, limits, main, waiter, proc, told, changes, left>>

(* MAXTASKLOADINGTIME is over; nobody asks while the task is LOADING.      *)
MinutePasses(i) ==
  /\ slot[i].used /\ slot[i].status # "LOADING" /\ ~slot[i].aged
  /\ slot' = [slot EXCEPT ![i].aged = TRUE]
  /\ UNCHANGED <<nrunning, limits, main, waiter, proc, check, told, changes, history>>

(***************************************************************************)
(* Children of the listener                                                *)
(***************************************************************************)
Listening == check.at # "off" /\ changes < MaxChanges

(* handle_rs_r_setnmaxcpus and handle_rs_r_setenabled.  How the copy they  *)
(* send reaches the master is in module Dialogue.                          *)
CutNot(n) == n                  \* mutant: more than there are
Cut(n) == IF n < NCpus THEN n ELSE NCpus
ChangeLimits(new) ==
  /\ Listening
  /\ changes' = changes + 1
  /\ limits' = new
  /\ UNCHANGED <<table, main, waiter, proc, check, told, history>>
SetNMaxCpus == \E n \in 0 .. NCpus + 1 : ChangeLimits([limits EXCEPT !.nmaxcpus = Cut(n)])
SetEnabled == \E b \in BOOLEAN : ChangeLimits([limits EXCEPT !.enabled = b])

(* handle_rs_r_killtask.  Pid 0 is the group of the process that kills.    *)
KillTask(i) ==
  /\ Listening
  /\ changes' = changes + 1
  /\ \/ /\ slot[i].pid = Nothing
        /\ GroupSignal
        /\ UNCHANGED proc
     \/ /\ slot[i].pid # Nothing
        /\ proc' = [k \in Tasks |-> IF k = slot[i].pid /\ proc[k] = "runs" THEN "zombie" ELSE proc[k]]
        /\ UNCHANGED <<main, check>>
  /\ UNCHANGED <<table, limits, waiter, told, freed, left>>

Main ==
  \/ GetComputerStatus \/ AutoEnableCheck \/ TaskAvailable
  \/ \E load \in 0 .. NCpus : ComputerAvailable(load)
  \/ ReceiveTask \/ LaunchTask \/ UpdateComputerStatus \/ SelectReturns
  \/ CleanOutKills \/ SlaveExits
  \/ NoJobForUs \/ ReceivesNoTask \/ LaunchFails \/ StatusNotSent
Waiter(k) ==
  \/ ForkTask(k) \/ SetLoading(k) \/ WaitPid(k) \/ GiveUpTask(k) \/ SetFinished(k)
  \/ RequestTaskFinished(k) \/ ReportFails(k) \/ FreeTask(k)
Check == LookAtTask \/ LookAtAge \/ CheckFrees \/ CheckMarks

Next ==
  \/ Main
  \/ \E k \in Tasks : Waiter(k) \/ TaskEnds(k)
  \/ Check
  \/ \E i \in Slots : MinutePasses(i) \/ KillTask(i)
  \/ SetNMaxCpus \/ SetEnabled
  \/ Interrupt

(* Every process runs on, a task ends at last, a master that has jobs      *)
(* gives one out at last, and the load of an idle computer sinks at last.  *)
Spec ==
  /\ Init /\ [][Next]_vars
  /\ WF_vars(Main) /\ SF_vars(TaskAvailable) /\ SF_vars(ComputerAvailable(0)) /\ WF_vars(Check)
  /\ \A k \in Tasks : WF_vars(Waiter(k)) /\ WF_vars(TaskEnds(k))

(***************************************************************************)
(* Properties                                                              *)
(***************************************************************************)
MainPlaces == {"status", "enable", "available", "asks", "receives", "launches",
               "updates", "reports", "selects", "kills", "waits", "off"}
WaiterPlaces == {"none", "forks", "loads", "waits", "reaped", "missed", "reports", "frees", "gone"}

TypeOK ==
  /\ slot \in [Slots -> [used : BOOLEAN, status : {"LOADING", "RUNNING", "FINISHED"},
                         pid : Tasks \cup {Nothing, Failed}, task : Tasks \cup {Nothing}, aged : BOOLEAN]]
  /\ nrunning \in 0 .. NSlots
  /\ limits \in Limits
  /\ main \in [at : MainPlaces, itask : Slots]
  /\ waiter \in [Tasks -> [at : WaiterPlaces, itask : Slots]]
  /\ proc \in [Tasks -> {"none", "runs", "zombie", "reaped"}]
  /\ check \in [at : {"look", "dead", "frees", "marks", "off"}, i : Slots]
  /\ told \in [Tasks -> Tasks \cup {Nothing}]
  /\ changes \in 0 .. MaxChanges
  /\ freed \subseteq Tasks /\ left \in BOOLEAN

(* A computer executes no more tasks than it has processors (the comment   *)
(* in computer_available), unless the checks freed a slot under a waiter.  *)
Executed == {k \in Tasks : proc[k] = "runs"}
CpusSuffice == freed = {} => Cardinality(Executed) <= NCpus

(* A waiter whose slot nobody else freed reports the task it waited for,   *)
(* and no other; it stops without a report only when the slave shuts down  *)
(* because the master does not answer (launch_task, request_task_finished).*)
ShuttingDown == main.at \in {"kills", "waits", "off"}
ReportIsOwn ==
  \A k \in Tasks \ freed :
    /\ told[k] \in {Nothing, k}
    /\ waiter[k].at = "gone" /\ proc[k] = "reaped" => told[k] = k \/ ShuttingDown

(* When main has exited through clean_out no task is executed any more,    *)
(* and no waiter is left to use the memory it removed.                     *)
NobodyLeftBehind == main.at = "off" /\ ~left => Childless /\ Executed = {}

(* No slot is lost: one in use is free again later, whatever was killed,   *)
(* lost or freed too early.                                                *)
SlotComesFree == \A i \in Slots : slot[i].used ~> (~slot[i].used \/ main.at = "off")

(* A slave with nothing to do that may work asks for a job again: the      *)
(* count of running tasks is right when no slot was freed by others.      *)
Idle == Childless /\ limits.enabled /\ limits.nmaxcpus > 0 /\ freed = {}
IdleAsks == Idle ~> (main.at \in {"asks", "kills", "off"} \/ ~Idle)

=============================================================================
