------------------------------ MODULE Storage ------------------------------
(***************************************************************************)
(* What the master keeps and for how long: the main process (master.c),    *)
(* the process it forks for each connection, the process of the checks,    *)
(* the queue in shared memory, the lists in segments of their own, and the *)
(* file drqueue.db (database.c).  A stop writes the file, a start reads    *)
(* it.  Processes may be killed, the host may go down, and what is asked   *)
(* of the system may fail.                                                 *)
(***************************************************************************)
EXTENDS Integers, FiniteSets, Sequences, SharedLists

CONSTANTS
  NJobs,          \* MAXJOBS
  Children,       \* processes that can exist at once, whatever n_children says
  MaxChildren,    \* MASTERNCHILDREN
  Kinds,          \* subset of {"hosts", "variables", "pools"}: lists that change
  MaxRequests,    \* requests that change something
  Faults,         \* subset of {"calls", "disk", "peer", "checker", "kill", "reboot", "group"}
  MaxFaults

ASSUME SizesAssumption == {NJobs, MaxChildren, MaxRequests, MaxFaults} \subseteq Nat /\ NJobs > 0 /\ MaxChildren > 0
ASSUME KindsAssumption == Kinds # {} /\ Kinds \subseteq {"hosts", "variables", "pools"}

Jobs == 1 .. NJobs
Main == "main"
Nobody == "nobody"
Cleaning == {"save", "write", "kill", "wait", "free"}    \* in clean_out
ASSUME ChildrenAssumption == IsFiniteSet(Children) /\ Children \cap {Main, Nobody, "gone"} = {}
ASSUME GoneAssumption == Gone \notin [used : BOOLEAN, sub : Nat, list : Seq(Names \cup {Blank})]

VARIABLES
  pc,             \* where main and each child are
  at,             \* [process -> the slot it receives a job for, or writes]
  old,            \* children of a master that is gone
  nchildren,      \* n_children of main
  zombies,        \* processes of main that ended and it did not wait for yet
  checker,        \* the process of the checks is alive
  ipc,            \* the segment of the master exists
  sem,            \* who holds the semaphore; "gone" when it was removed
  jobs,           \* the table of jobs, in the segment
  pools,          \* the list of a computer in the table of computers
  edited,         \* the list a user edits: pools of a slave, variables of a client's job
  heap,           \* the segments of lists
  file,           \* drqueue.db: has it a header, and the jobs after it
  kind,           \* the lists that change in this behaviour
  requests,       \* changes so far
  faults,         \* faults so far
  saved,          \* the queue when the last save had the semaphore: history
  owed,           \* jobs acknowledged when main was signalled, not deleted since: history
  spoiled         \* what happened since the last start that may cost the queue: history

processes == <<pc, at, old, nchildren, zombies, checker>>
memory == <<ipc, sem, jobs, pools, heap>>
history == <<saved, owed, spoiled>>
vars == <<processes, memory, edited, file, kind, requests, faults, history>>

EmptyJob == [used |-> FALSE, sub |-> 0, list |-> EmptyList]
Reserved == [EmptyJob EXCEPT !.used = TRUE]           \* job_init but for used
EmptyQueue == [j \in Jobs |-> [used |-> FALSE, sub |-> 0, list |-> <<>>]]
Content(h, q) == [j \in Jobs |-> [q[j] EXCEPT !.list = Entries(h, q[j].list)]]
Queue == Content(heap, jobs)
NotWritten == [j \in Jobs |-> Gone]
NoFile == [head |-> FALSE, jobs |-> NotWritten]

(* What an earlier master may have saved: a job with an entry in its list. *)
OldJob == MaxRequests + 1
OldEntry == CHOOSE x \in Names : TRUE
OldFile == [head |-> TRUE,
            jobs |-> [EmptyQueue EXCEPT ![1] = [used |-> TRUE, sub |-> OldJob,
                                               list |-> IF kind = "pools" THEN <<>> ELSE <<OldEntry>>]]]

(* The default pool of a slave; a variable of a client.                    *)
FirstEdited == IF kind = "hosts" THEN EmptyList ELSE [n |-> 1, shm |-> 1]
FirstHeap == [s \in Segs |-> IF s = FirstEdited.shm THEN <<OldEntry>> ELSE Gone]

Alive(c) == pc[c] # "none"
Holding(p) == sem = p
Free == sem \in {Nobody, "gone"}
(* Only a faulty system makes a call fail.                                 *)
Failures == {"no"} \cup IF "calls" \in Faults /\ faults < MaxFaults THEN {"find", "attach", "get", "map"} ELSE {}
Blame(f) == faults' = IF f = "no" THEN faults ELSE faults + 1
Worse == IF spoiled = "mixed" THEN spoiled ELSE "fault"
Fault(f) == f \in Faults /\ faults < MaxFaults /\ faults' = faults + 1

Init ==
  /\ pc = [p \in Children \cup {Main} |-> IF p = Main THEN "off" ELSE "none"]
  /\ at = [p \in Children \cup {Main} |-> 0]
  /\ old = {} /\ nchildren = 0 /\ zombies = 0 /\ checker = FALSE
  /\ ipc = FALSE /\ sem = "gone"
  /\ jobs = [j \in Jobs |-> EmptyJob]
  /\ kind \in Kinds
  /\ pools = EmptyList /\ edited = FirstEdited
  /\ heap = FirstHeap
  /\ file \in {NoFile, OldFile}
  /\ requests = 0 /\ faults = 0
  /\ saved = (IF file = NoFile THEN EmptyQueue ELSE file.jobs)
  /\ owed = IF file = NoFile THEN {} ELSE {OldJob}
  /\ spoiled = "no"

----------------------------------------------------------------------------
(* The master starts.                                                      *)

(* The socket that listens is open in main, in the process of the checks,  *)
(* and in a child until it has accepted.                                   *)
PortTakenByMain == pc[Main] # "off"              \* mutant: only main keeps it
PortTaken ==
  \/ pc[Main] # "off"
  \/ checker
  \/ \E c \in Children : pc[c] \in {"fresh", "accepts"} \cup Cleaning

(* get_socket, get_shared_memory, get_semaphores.  The segment a master    *)
(* that was killed left behind is used again with option -f, as it is.     *)
Start(force) ==
  /\ pc[Main] = "off" /\ ~PortTaken
  /\ ipc => force
  /\ pc' = [pc EXCEPT ![Main] = "load"]
  /\ ipc' = TRUE /\ sem' = Nobody
  /\ old' = {c \in Children : Alive(c)} /\ nchildren' = 0
  /\ UNCHANGED <<at, zombies, checker, jobs, pools, heap, edited, file, kind, requests, faults, history>>

(* database_load: all the jobs of the file, or none.  f fails in a job.    *)
(* What a job of the segment had before is not freed.                      *)
Loaded(es, h, f) ==
  IF kind = "hosts" THEN load_blocked_hosts(h, es, f)
  ELSE [recv_envvars(h, es, f, Len(es)) EXCEPT !.ok = TRUE]
LoadedJobs(f, k) ==
  LET r[j \in 0 .. NJobs] ==
        IF j = 0 THEN Result(EmptyList, heap, TRUE)
        ELSE IF ~r[j - 1].ok THEN r[j - 1]
        ELSE Loaded(file.jobs[j].list, r[j - 1].heap, IF j = k THEN f ELSE "no")
  IN  r
Load(f, k) ==
  LET whole == file.head /\ \A j \in Jobs : file.jobs[j] # Gone
      r == LoadedJobs(f, k)
      loads == whole /\ r[NJobs].ok
  IN  /\ pc[Main] = "load"
      /\ pc' = [pc EXCEPT ![Main] = "serve"]
      /\ jobs' = [j \in Jobs |-> IF loads THEN [file.jobs[j] EXCEPT !.list = r[j].list] ELSE EmptyJob]
      /\ heap' = IF whole THEN r[NJobs].heap ELSE heap
      /\ pools' = EmptyList
      /\ checker' = TRUE
      /\ owed' = IF spoiled # "no" \/ f # "no" THEN {} ELSE owed
      /\ spoiled' = IF spoiled = "fault" THEN "no" ELSE spoiled
      /\ Blame(f)
      /\ UNCHANGED <<at, old, nchildren, zombies, ipc, sem, edited, file, kind, requests, saved>>

----------------------------------------------------------------------------
(* Main forks a child for each connection, and waits for one when it has   *)
(* MASTERNCHILDREN; the process of the checks is one it may find ended.    *)
NewChild == CHOOSE c \in Children : pc[c] = "none"
HasRoomForOneMore == nchildren <= MaxChildren            \* mutant
HasRoom == nchildren < MaxChildren
ForkChild ==
  /\ pc[Main] = "serve" /\ HasRoom
  /\ \E c \in Children : pc[c] = "none"
  /\ pc' = [pc EXCEPT ![NewChild] = "fresh"]
  /\ nchildren' = nchildren + 1
  /\ UNCHANGED <<at, old, zombies, checker, memory, edited, file, kind, requests, faults, history>>

CountedNot(n) == n                      \* mutant: n_children is not decremented
Counted(n) == n - 1
WaitChild ==
  /\ pc[Main] = "serve" /\ ~HasRoom
  /\ zombies > 0 /\ zombies' = zombies - 1
  /\ nchildren' = Counted(nchildren)
  /\ UNCHANGED <<pc, at, old, checker, memory, edited, file, kind, requests, faults, history>>

(* set_signal_handlers_child_conn_handler: until then SIGINT is clean_out. *)
SetHandlers(c) ==
  /\ pc[c] = "fresh"
  /\ pc' = [pc EXCEPT ![c] = "accepts"]
  /\ UNCHANGED <<at, old, nchildren, zombies, checker, memory, edited, file, kind, requests, faults, history>>
(* Main waits for it when it has to; for one of an earlier master, init.   *)
Ends(c) ==
  /\ pc' = [pc EXCEPT ![c] = "none"] /\ at' = [at EXCEPT ![c] = 0]
  /\ old' = old \ {c}
  /\ zombies' = IF c \notin old /\ pc[Main] = "serve" THEN zombies + 1 ELSE zombies
(* A client came and went, and nothing changed.                            *)
ClientServed(c) ==
  /\ pc[c] = "accepts"
  /\ Ends(c)
  /\ UNCHANGED <<nchildren, checker, memory, edited, file, kind, requests, faults, history>>

(* A handler that waits for its client: it has an answer, or SIGALRM.      *)
HandlerReturns(c) ==
  /\ pc[c] \in {"receives", "holds"}
  /\ Ends(c)
  /\ sem' = IF Holding(c) THEN Nobody ELSE sem           \* SEM_UNDO
  /\ UNCHANGED <<nchildren, checker, ipc, jobs, pools, heap, edited, file, kind, requests,
                 faults, history>>

Request == requests < MaxRequests /\ requests' = requests + 1

(* R_R_REGISTER: the record of the computer is initialised, and received   *)
(* with the semaphore held.                                                *)
HoldSemaphore(c) ==
  /\ pc[c] = "accepts" /\ Free
  /\ Request
  /\ pc' = [pc EXCEPT ![c] = "holds"]
  /\ sem' = IF sem = "gone" THEN sem ELSE c
  /\ pools' = EmptyList
  /\ UNCHANGED <<at, old, nchildren, zombies, checker, ipc, jobs, heap, edited, file, kind, faults, history>>

Sent == IF kind = "hosts" THEN <<>> ELSE Entries(heap, edited)
ReceiveComputer(c, f, k) ==
  /\ pc[c] = "holds" /\ kind = "pools"
  /\ LET r == recv_computer_pools(heap, Sent, f, k)
     IN  pools' = r.list /\ heap' = r.heap
  /\ Ends(c)
  /\ sem' = IF Holding(c) THEN Nobody ELSE sem
  /\ Blame(f)
  /\ UNCHANGED <<nchildren, checker, ipc, jobs, edited, file, kind, requests, history>>

(* R_R_UCLIMITS: the list is received, and takes the place of the old one. *)
ReceivePools(c, f, k) ==
  /\ pc[c] = "accepts" /\ Free /\ kind = "pools"
  /\ Request
  /\ LET r == recv_computer_pools(heap, Sent, f, k)
     IN  pools' = r.list /\ heap' = Removed(r.heap, pools.shm)
  /\ Ends(c)
  /\ Blame(f)
  /\ UNCHANGED <<nchildren, checker, ipc, sem, jobs, edited, file, kind, history>>

(* check_lastconn_times: a computer that is silent is freed.               *)
ForgetComputer ==
  /\ checker /\ Free
  /\ pools.n > 0
  /\ pools' = EmptyList /\ heap' = Removed(heap, pools.shm)
  /\ UNCHANGED <<processes, ipc, sem, jobs, edited, file, kind, requests, faults, history>>

(* R_R_REGISJOB: a slot is reserved, the job is received, the slot filled, *)
(* whoever has it by then if the reservation was deleted.                  *)
ReserveJob(c) ==
  /\ pc[c] = "accepts" /\ Free
  /\ Request
  /\ \E j \in Jobs :
       /\ ~jobs[j].used /\ \A i \in 1 .. j - 1 : jobs[i].used
       /\ jobs' = [jobs EXCEPT ![j] = Reserved]
       /\ at' = [at EXCEPT ![c] = j]
  /\ pc' = [pc EXCEPT ![c] = "receives"]
  /\ UNCHANGED <<old, nchildren, zombies, checker, ipc, sem, pools, heap, edited, file, kind, faults, history>>

ReceiveJob(c, f, k) ==
  /\ pc[c] = "receives" /\ Free
  /\ Request
  /\ LET r == recv_envvars(heap, IF kind = "variables" THEN Sent ELSE <<>>, f, k)
     IN  /\ jobs' = [jobs EXCEPT ![at[c]] = [used |-> TRUE, sub |-> requests', list |-> r.list]]
         /\ heap' = r.heap
  /\ owed' = owed \ {jobs[at[c]].sub}
  /\ Ends(c)
  /\ Blame(f)
  /\ UNCHANGED <<nchildren, checker, ipc, sem, pools, edited, file, kind, saved, spoiled>>

(* The client is gone: job_init of the slot, whatever was received.        *)
ReceiveFails(c) ==
  /\ Fault("peer")
  /\ pc[c] = "receives" /\ Free
  /\ jobs' = [jobs EXCEPT ![at[c]] = EmptyJob]
  /\ heap' = IF kind = "variables" THEN recv_envvars(heap, Sent, "no", 0).heap ELSE heap
  /\ owed' = owed \ {jobs[at[c]].sub}
  /\ Ends(c)
  /\ UNCHANGED <<nchildren, checker, ipc, sem, pools, edited, file, kind, requests, saved, spoiled>>

DeleteJob(c, j) ==
  /\ pc[c] = "accepts" /\ Free
  /\ jobs[j].used
  /\ Request
  /\ jobs' = [jobs EXCEPT ![j] = EmptyJob]
  /\ heap' = Removed(heap, jobs[j].list.shm)
  /\ owed' = owed \ {jobs[j].sub}
  /\ Ends(c)
  /\ UNCHANGED <<nchildren, checker, ipc, sem, pools, edited, file, kind, faults, saved, spoiled>>

(* R_R_JOBBLKHOST, R_R_JOBDELBLKHOST, R_R_JOBUNBLKHOSTNAME.                *)
ChangeHosts(c, j, x, f) ==
  /\ pc[c] = "accepts" /\ Free /\ kind = "hosts"
  /\ jobs[j].used
  /\ Request
  /\ LET l == jobs[j].list
     IN  \E r \in {job_block_host_add(heap, l, x, f), job_block_host_remove_by_name(heap, l, x, f)}
                  \cup {job_delete_blocked_host(heap, l, i, f) : i \in 1 .. l.n} :
           jobs' = [jobs EXCEPT ![j].list = r.list] /\ heap' = r.heap
  /\ Ends(c)
  /\ Blame(f)
  /\ UNCHANGED <<nchildren, checker, ipc, sem, pools, edited, file, kind, history>>

(* On the same host a slave has its pools, and a client the variables of   *)
(* the job it will send.                                                   *)
Edit(x, f) ==
  /\ Request
  /\ \E r \in IF kind = "pools"
              THEN {computer_pool_add(heap, edited, x, f), computer_pool_remove(heap, edited, x, f)}
              ELSE IF kind = "variables"
              THEN {envvars_variable_add(heap, edited, x, f), envvars_variable_delete(heap, edited, x, f)}
              ELSE {} :
       edited' = r.list /\ heap' = r.heap
  /\ Blame(f)
  /\ UNCHANGED <<processes, ipc, sem, jobs, pools, file, kind, history>>

----------------------------------------------------------------------------
(* clean_out, in main and in a child that has not set its own handlers.    *)
CleanOutUnsaved == "kill"               \* mutant: the queue is not saved
CleanOut == "save"

(* SIGINT to the process group; an earlier master had another.             *)
Signalled ==
  [q \in DOMAIN pc |->
     IF q = Main THEN IF pc[q] = "serve" THEN CleanOut ELSE pc[q]
     ELSE IF q \in old \/ pc[q] \in Cleaning THEN pc[q]
     ELSE IF pc[q] = "fresh" THEN CleanOut ELSE "none"]
GroupGets(next) ==
  /\ pc' = next
  /\ at' = [q \in DOMAIN at |-> IF next[q] = "none" THEN 0 ELSE at[q]]
  /\ sem' = IF sem \in Children /\ next[sem] = "none" THEN Nobody ELSE sem
  /\ zombies' = 0 /\ checker' = FALSE
Owed == {jobs[j].sub : j \in {i \in Jobs : jobs[i].used}} \ {0}

(* The master is told to stop.                                             *)
Stop ==
  /\ pc[Main] = "serve"
  /\ pc' = [pc EXCEPT ![Main] = CleanOut]
  /\ owed' = Owed
  /\ zombies' = 0
  /\ UNCHANGED <<at, old, nchildren, checker, memory, edited, file, kind, requests, faults, saved, spoiled>>

(* Ctrl-C: all its processes are told at once.                             *)
StopGroup ==
  /\ Fault("group")
  /\ pc[Main] = "serve"
  /\ GroupGets(Signalled)
  /\ owed' = Owed
  /\ UNCHANGED <<old, nchildren, ipc, jobs, pools, heap, edited, file, kind, requests, saved, spoiled>>

Gives(p, to) == pc' = [pc EXCEPT ![p] = to]

(* database_save.  The file is emptied when it is opened.                  *)
OpenedKept(f) == [f EXCEPT !.head = TRUE]       \* mutant: no O_TRUNC
Opened(f) == [head |-> TRUE, jobs |-> NotWritten]
OpenFile(p) ==
  /\ pc[p] = "save" /\ Free
  /\ sem' = IF sem = "gone" THEN sem ELSE p
  /\ \/ /\ file' = Opened(file) /\ saved' = Queue
        /\ Gives(p, "write") /\ at' = [at EXCEPT ![p] = 1]
        /\ spoiled' = IF sem = "gone" THEN spoiled
                      ELSE IF p = Main THEN "no"
                      ELSE IF spoiled = "no" THEN spoiled ELSE "fault"
        /\ UNCHANGED faults
     \/ /\ Fault("disk") /\ spoiled' = Worse
        /\ Gives(p, "kill")
        /\ UNCHANGED <<file, saved, at>>
  /\ UNCHANGED <<old, nchildren, zombies, checker, ipc, jobs, pools, heap, edited, kind, requests, owed>>

ReleasedNot(p) == sem                   \* mutant: the semaphore is not released
Released(p) == IF Holding(p) THEN Nobody ELSE sem
WriteJob(p) ==
  /\ pc[p] = "write"
  /\ file' = [file EXCEPT !.jobs[at[p]] = Queue[at[p]]]
  /\ IF at[p] < NJobs
     THEN at' = [at EXCEPT ![p] = @ + 1] /\ UNCHANGED <<pc, sem>>
     ELSE Gives(p, "kill") /\ sem' = Released(p) /\ at' = [at EXCEPT ![p] = 0]
  /\ UNCHANGED <<old, nchildren, zombies, checker, ipc, jobs, pools, heap, edited, kind, requests, faults, history>>

(* A job cannot be written: the rest is not, and the semaphore is kept.    *)
WriteFails(p) ==
  /\ Fault("disk")
  /\ pc[p] = "write"
  /\ spoiled' = Worse
  /\ Gives(p, "kill") /\ at' = [at EXCEPT ![p] = 0]
  /\ UNCHANGED <<old, nchildren, zombies, checker, memory, edited, file, kind, requests, saved, owed>>

(* Its variables cannot be attached: SIGSEGV, which is masked, ends it.    *)
WriteCrashes(p) ==
  /\ Fault("calls")
  /\ pc[p] = "write" /\ jobs[at[p]].used /\ jobs[at[p]].list.n > 0
  /\ IF kind = "variables"
     THEN Gives(p, IF p = Main THEN "off" ELSE "none") /\ sem' = Released(p)
     ELSE Gives(p, "kill") /\ UNCHANGED sem
  /\ spoiled' = Worse
  /\ at' = [at EXCEPT ![p] = 0]
  /\ UNCHANGED <<old, nchildren, zombies, checker, ipc, jobs, pools, heap, edited, file, kind, requests, saved, owed>>

KillGroup(p) ==
  /\ pc[p] = "kill"
  /\ GroupGets([Signalled EXCEPT ![p] = "wait"])
  /\ UNCHANGED <<old, nchildren, ipc, jobs, pools, heap, edited, file, kind, requests, faults, history>>

WaitAll(p) ==
  /\ pc[p] = "wait"
  /\ p = Main => \A c \in Children \ old : ~Alive(c)
  /\ Gives(p, "free")
  /\ UNCHANGED <<at, old, nchildren, zombies, checker, memory, edited, file, kind, requests, faults, history>>

FreeAll(p) ==
  /\ pc[p] = "free"
  /\ jobs' = [j \in Jobs |-> EmptyJob] /\ pools' = EmptyList
  /\ heap' = [s \in Segs |-> IF s \in {jobs[j].list.shm : j \in Jobs} \cup {pools.shm} THEN Gone ELSE heap[s]]
  /\ ipc' = FALSE /\ sem' = "gone"
  /\ Gives(p, IF p = Main THEN "off" ELSE "none")
  /\ nchildren' = IF p = Main THEN 0 ELSE nchildren
  /\ spoiled' = IF \E q \in DOMAIN pc \ {p} : pc[q] \in {"save", "write"} THEN "mixed" ELSE spoiled
  /\ UNCHANGED <<at, old, zombies, checker, edited, file, kind, requests, faults, saved, owed>>

----------------------------------------------------------------------------
(* What happens to processes.                                              *)
CheckerDies ==
  /\ Fault("checker")
  /\ checker /\ checker' = FALSE
  /\ zombies' = IF pc[Main] = "serve" THEN zombies + 1 ELSE zombies
  /\ UNCHANGED <<pc, at, old, nchildren, memory, edited, file, kind, requests, history>>

(* Main alone is killed: its children and the checks go on.                *)
MainDies ==
  /\ Fault("kill")
  /\ pc[Main] # "off"
  /\ Gives(Main, "off") /\ at' = [at EXCEPT ![Main] = 0] /\ sem' = Released(Main)
  /\ spoiled' = Worse
  /\ nchildren' = 0 /\ zombies' = 0
  /\ UNCHANGED <<old, checker, ipc, jobs, pools, heap, edited, file, kind, requests, saved, owed>>

(* What it left is killed too, by hand.                                    *)
OperatorKills ==
  /\ pc[Main] = "off" /\ PortTaken
  /\ pc' = [q \in DOMAIN pc |-> IF q = Main THEN "off" ELSE "none"]
  /\ at' = [q \in DOMAIN at |-> 0] /\ old' = {} /\ nchildren' = 0 /\ zombies' = 0 /\ checker' = FALSE
  /\ sem' = IF sem = "gone" THEN sem ELSE Nobody
  /\ UNCHANGED <<ipc, jobs, pools, heap, edited, file, kind, requests, faults, history>>

Reboot ==
  /\ Fault("reboot")
  /\ pc' = [q \in DOMAIN pc |-> IF q = Main THEN "off" ELSE "none"]
  /\ at' = [q \in DOMAIN at |-> 0] /\ old' = {} /\ nchildren' = 0 /\ zombies' = 0 /\ checker' = FALSE
  /\ ipc' = FALSE /\ sem' = "gone"
  /\ jobs' = [j \in Jobs |-> EmptyJob] /\ pools' = EmptyList /\ edited' = FirstEdited
  /\ heap' = FirstHeap
  /\ spoiled' = Worse
  /\ UNCHANGED <<file, kind, requests, saved, owed>>

----------------------------------------------------------------------------
Loads == \E f \in Failures, k \in Jobs : (f = "no" => k = 1) /\ Load(f, k)
Requests(c) ==
  \/ HoldSemaphore(c) \/ ReserveJob(c) \/ ReceiveFails(c)
  \/ \E j \in Jobs : DeleteJob(c, j)
  \/ \E f \in Failures :
       \/ \E k \in 1 .. Cardinality(Names) : (f = "no" => k = 1) /\ (ReceiveComputer(c, f, k) \/ ReceivePools(c, f, k) \/ ReceiveJob(c, f, k))
       \/ \E j \in Jobs, x \in Names : ChangeHosts(c, j, x, f)
CleansOut(p) == OpenFile(p) \/ WriteJob(p) \/ KillGroup(p) \/ WaitAll(p) \/ FreeAll(p)

Next ==
  \/ \E force \in BOOLEAN : Start(force)
  \/ Loads \/ ForkChild \/ WaitChild
  \/ \E c \in Children : SetHandlers(c) \/ ClientServed(c) \/ HandlerReturns(c) \/ Requests(c)
  \/ ForgetComputer
  \/ \E x \in Names, f \in Failures : Edit(x, f)
  \/ Stop \/ StopGroup
  \/ \E p \in DOMAIN pc : CleansOut(p) \/ WriteFails(p) \/ WriteCrashes(p)
  \/ CheckerDies \/ MainDies \/ OperatorKills \/ Reboot

(* A handler ends because of its alarm; the rest is what a scheduler does. *)
Fairness ==
  /\ WF_vars(ForkChild) /\ WF_vars(WaitChild)
  /\ \A c \in Children : WF_vars(SetHandlers(c)) /\ WF_vars(HandlerReturns(c))
  /\ \A p \in Children \cup {Main} : WF_vars(CleansOut(p))
Spec == Init /\ [][Next]_vars /\ Fairness

----------------------------------------------------------------------------
(* Every variable has its type; n_children is never over MASTERNCHILDREN.  *)
TypeOK ==
  /\ pc \in [Children \cup {Main} -> {"off", "load", "serve", "none", "fresh", "accepts",
                                     "receives", "holds"} \cup Cleaning]
  /\ at \in [Children \cup {Main} -> 0 .. NJobs]
  /\ old \subseteq Children
  /\ nchildren \in 0 .. MaxChildren
  /\ zombies \in 0 .. MaxChildren + 1 /\ checker \in BOOLEAN
  /\ ipc \in BOOLEAN /\ sem \in Children \cup {Main, Nobody, "gone"}
  /\ \A j \in Jobs : jobs[j].used \in BOOLEAN /\ jobs[j].sub \in 0 .. OldJob
  /\ file.head \in BOOLEAN /\ DOMAIN file.jobs = Jobs
  /\ owed \subseteq 1 .. OldJob /\ spoiled \in {"no", "fault", "mixed"}

(* A list of n entries has a segment of its own that exists and has n      *)
(* entries, whatever calls failed while it was changed.                    *)
Lists == [j \in Jobs |-> jobs[j].list] \o <<pools, edited>>
ListIsValid ==
  \A o \in DOMAIN Lists :
    LET l == Lists[o]
    IN  /\ (l.n = 0) = (l.shm = None)
        /\ l.n > 0 => heap[l.shm] # Gone /\ Len(heap[l.shm]) = l.n
        /\ l.n > 0 => \A q \in DOMAIN Lists \ {o} : Lists[q].shm # l.shm

(* A change of a list, or a failed change, costs it no entry but the one   *)
(* it is about: always so for blocked hosts, for variables and pools when  *)
(* no call failed.                                                         *)
ByOne(a, b) == Cardinality(((a \ b) \cup (b \ a)) \cap Names) <= 1
OneEntryChanges ==
  [][/\ \A j \in Jobs :
          kind = "hosts" /\ jobs[j].used /\ jobs'[j].used /\ jobs[j].sub = jobs'[j].sub /\ pc[Main] # "load"
            => ByOne(Listed(heap, jobs[j].list), Listed(heap', jobs'[j].list))
     /\ faults' = faults /\ ~NoneLeft(heap) => ByOne(Listed(heap, edited), Listed(heap', edited'))]_vars

(* A start loads the queue as it was when the last save had the semaphore, *)
(* or nothing: never a part of it, or a queue of two times.  Processes     *)
(* that clean out at once do mix: one frees the jobs the other writes.     *)
Bare(q) == [j \in Jobs |-> <<q[j].used, q[j].sub, IF kind = "hosts" THEN q[j].list ELSE <<>>>>]
RestartIsSnapshot ==
  [][pc[Main] = "load" /\ pc'[Main] = "serve" /\ spoiled # "mixed" =>
       Bare(Content(heap', jobs')) \in {Bare(saved), Bare(EmptyQueue)}]_vars

(* A job acknowledged before the master was told to stop is in the queue   *)
(* of the next master, unless it was deleted, its slot was filled again by *)
(* a registration that had reserved it before, or a fault came between.    *)
QueueKept == pc[Main] = "serve" => owed \subseteq Owed

(* Beside a master no child of an earlier one takes clients.               *)
NewMasterAnswers ==
  pc[Main] # "off" => \A c \in old : pc[c] \notin {"fresh", "accepts"} \cup Cleaning

(* The master always gets a child that accepts, however clients behave.    *)
ServiceContinues ==
  pc[Main] = "serve" ~> (pc[Main] # "serve" \/ \E c \in Children : pc[c] = "accepts")

(* A stop ends, but when the save failed with the semaphore taken and a    *)
(* child just forked waits for it in its own clean_out.                    *)
Stuck == spoiled # "no" /\ pc[Main] = "wait" /\ Holding(Main) /\ \E c \in Children : pc[c] = "save"
StopEnds == pc[Main] \in Cleaning ~> (pc[Main] = "off" \/ Stuck)
=============================================================================
