------------------------------- MODULE Master -------------------------------
(***************************************************************************)
(* The master's shared memory and the processes that work on it at the     *)
(* same time: one forked handler per connection, the consistency-check     *)
(* process, and, at the other end of the connections, the slaves.          *)
(*                                                                         *)
(* A critical section under wdb->semid is one step; what a process keeps   *)
(* from one section to the next (the frame a handler reserved, the copy of *)
(* the frames the consistency process took) is state of its own.  Requests *)
(* of users are one section each and are single actions.  A slave is       *)
(* reduced to its task table, the task processes it runs and the messages  *)
(* it sends; module Slave opens it up.                                     *)
(***************************************************************************)
EXTENDS Jobs

CONSTANTS
  Handlers,       \* connection handlers that can serve R_R_AVAILJOB at once
  Ops,            \* requests users may send, by name of their code
  Faults,         \* subset of {"signal", "link", "crash", "exit", "partition",
                  \*            "lost", "delay", "taskcrash"}
  MaxDisturb      \* bound: requests of users plus faults in a behaviour

VARIABLES
  job,            \* wdb->job with its frame memory
  comp,           \* wdb->computer: used and the master's copy of the tasks
  conn,           \* handlers serving R_R_AVAILJOB, with the slave's end
  chk,            \* the consistency-check process
  regs,           \* <<slot, submission>> of registrations being received
  todo,           \* submissions not sent yet
  slave,          \* slaves: up, task table, slots whose process runs
  ucs,            \* status a slave sent and its handler has not stored yet
  fin,            \* reports of finished tasks sent and not handled yet
  kills,          \* RS_R_KILLTASK sent and not handled yet
  disturb         \* what is left of MaxDisturb

vars == <<job, comp, conn, chk, regs, todo, slave, ucs, fin, kills, disturb>>

ASSUME MasterAssumption ==
  /\ IsFiniteSet(Handlers) /\ MaxDisturb \in Nat

NoConn == [pc |-> "idle", c |-> NoComp, left |-> {}, j |-> NoJob, f |-> 0,
           t |-> NoTask, up |-> FALSE]

NoStatus == [sent |-> FALSE, task |-> [t \in Tasks |-> TaskInit]]

CompInit == [used |-> FALSE, task |-> [t \in Tasks |-> TaskInit]]

SlaveDown == [up |-> FALSE, task |-> [t \in Tasks |-> TaskInit],
              run |-> [t \in Tasks |-> FALSE]]

ChkIdle == [pc |-> "idle", j |-> 0, i |-> 0,
            snap |-> [f \in Frames |-> FrameInit]]

Init ==
  /\ job = [j \in Jobs |-> JobInit]
  /\ comp = [c \in Comps |-> CompInit]
  /\ conn = [h \in Handlers |-> NoConn]
  /\ chk = ChkIdle
  /\ regs = {}
  /\ todo = Subs
  /\ slave = [c \in Comps |-> SlaveDown]
  /\ ucs = [c \in Comps |-> NoStatus]
  /\ fin = {}
  /\ kills = {}
  /\ disturb = MaxDisturb
Disturb == disturb > 0 /\ disturb' = disturb - 1

-----------------------------------------------------------------------------
(* Registration of a job: handle_r_r_regisjob reserves a slot, receives    *)
(* the job without the lock, and job_init_registered fills the slot.       *)

(* Mutant: a slot whose job is still being received is taken for free.     *)
JobIndexUnfilled(j) ==
  ~Attached(job[j]) /\ \A k \in Jobs : k < j => Attached(job[k])

(* job_index_free: the first free slot.                                    *)
JobIndexFree(j) == ~job[j].used /\ \A k \in Jobs : k < j => job[k].used

RegisterReserve(s) ==
  /\ s \in todo
  /\ \E j \in Jobs :
       /\ JobIndexFree(j)
       /\ job' = [job EXCEPT ![j].used = TRUE]
       /\ regs' = regs \cup {<<j, s>>}
  /\ todo' = todo \ {s}
  /\ UNCHANGED <<comp, conn, chk, slave, ucs, fin, kills, disturb>>

(* A slot somebody freed meanwhile is not correct any more and the job is  *)
(* dropped.                                                                *)
RegisterDone(j, s) ==
  /\ <<j, s>> \in regs
  /\ regs' = regs \ {<<j, s>>}
  /\ job' = IF job[j].used THEN [job EXCEPT ![j] = JobRegistered(s)] ELSE job
  /\ UNCHANGED <<comp, conn, chk, todo, slave, ucs, fin, kills, disturb>>

(* The job could not be received: the slot is given back.                  *)
RegisterFails(j, s) ==
  /\ "link" \in Faults /\ Disturb
  /\ <<j, s>> \in regs
  /\ regs' = regs \ {<<j, s>>}
  /\ job' = [job EXCEPT ![j] = JobInit]
  /\ UNCHANGED <<comp, conn, chk, todo, slave, ucs, fin, kills>>

-----------------------------------------------------------------------------
(* The slave asks for a frame (request_job_available) and its handler      *)
(* (handle_r_r_availjob) looks for one, job by job: LoadBalance has the    *)
(* order, here any order.                                                  *)

Serving(c) == {h \in Handlers : conn[h].c = c /\ conn[h].up}

FreeSlot(c, t) == ~slave[c].task[t].used /\ ~slave[c].run[t]

(* A status still on its way when the slave goes on to its next request is *)
(* the fault "delay".  A slot whose record reads unused while its process  *)
(* runs is not reused (a bound: module Slave reuses it).                   *)
Ask(c, h) ==
  /\ slave[c].up /\ comp[c].used /\ Serving(c) = {}
  /\ "delay" \in Faults \/ ~ucs[c].sent
  /\ \E t \in Tasks : FreeSlot(c, t)
  /\ conn[h].pc = "idle"
  /\ conn' = [conn EXCEPT ![h] = [NoConn EXCEPT !.pc = "scan", !.c = c,
                                                !.left = Jobs, !.up = TRUE]]
  /\ UNCHANGED <<job, comp, chk, regs, todo, slave, ucs, fin, kills, disturb>>

JobAvailable(j, c) ==
  /\ job[j].used
  /\ job[j].status \in {"WAITING", "ACTIVE"}
  /\ LimitsPassed(j, job[j], c, comp[c].task)
  /\ DependOf[job[j].sub] # NoJob =>
       job[DependOf[job[j].sub]].status = "FINISHED"

Reserve(h, j) ==
  /\ conn[h].pc = "scan" /\ j \in conn[h].left
  /\ JobAvailable(j, conn[h].c)
  /\ \E f \in Frames :
       /\ FirstWaiting(job[j], f)
       /\ job' = [job EXCEPT ![j] = JobReserve(@, f, conn[h].c)]
       /\ conn' = [conn EXCEPT ![h].pc = "offered", ![h].j = j, ![h].f = f,
                               ![h].left = {}]
  /\ UNCHANGED <<comp, chk, regs, todo, slave, ucs, fin, kills, disturb>>

SkipJob(h, j) ==
  /\ conn[h].pc = "scan" /\ j \in conn[h].left
  /\ ~JobAvailable(j, conn[h].c) \/ WithStatus(job[j], "WAITING") = {}
  /\ conn' = [conn EXCEPT ![h].left = @ \ {j}]
  /\ UNCHANGED <<job, comp, chk, regs, todo, slave, ucs, fin, kills, disturb>>

NoAvailableJob(h) ==
  /\ conn[h].pc = "scan" /\ conn[h].left = {}
  /\ conn' = [conn EXCEPT ![h] = NoConn]
  /\ UNCHANGED <<job, comp, chk, regs, todo, slave, ucs, fin, kills, disturb>>

(* The slave reserves a task slot (task_available) and sends its index.    *)
Confirm(h, t) ==
  /\ conn[h].pc = "offered" /\ conn[h].up
  /\ FreeSlot(conn[h].c, t)
  /\ slave' = [slave EXCEPT ![conn[h].c].task[t] =
                              [@ EXCEPT !.used = TRUE, !.busy = TRUE]]
  /\ conn' = [conn EXCEPT ![h].pc = "confirmed", ![h].t = t]
  /\ UNCHANGED <<job, comp, chk, regs, todo, ucs, fin, kills, disturb>>

BackForgotten(j, f) == job      \* mutant: the error path does nothing

(* job_frame_waiting: nothing when the slot is free or its frames cannot   *)
(* be attached.                                                            *)
BackToWaiting(j, f) ==
  IF Attached(job[j]) THEN [job EXCEPT ![j] = JobFrameWaiting(@, f)] ELSE job

(* The handler does not get the slave's answer.                            *)
GiveUp(h) ==
  /\ conn[h].pc = "offered" /\ ~conn[h].up
  /\ job' = BackToWaiting(conn[h].j, conn[h].f)
  /\ conn' = [conn EXCEPT ![h] = NoConn]
  /\ UNCHANGED <<comp, chk, regs, todo, slave, ucs, fin, kills, disturb>>

(* job_update_assigned and computer_update_assigned, in one section; each  *)
(* has its own checks.                                                     *)
Assign(h) ==
  LET c == conn[h].c  j == conn[h].j  f == conn[h].f  t == conn[h].t IN
  /\ conn[h].pc = "confirmed"
  /\ job' = IF Attached(job[j])
              THEN [job EXCEPT ![j] = JobUpdateAssigned(@, f, c, t)] ELSE job
  /\ comp' = IF job[j].used /\ comp[c].used
               THEN [comp EXCEPT ![c].task[t] = TaskAssigned(j, job[j], f)]
               ELSE comp
  /\ conn' = [conn EXCEPT ![h].pc = "send"]
  /\ UNCHANGED <<chk, regs, todo, slave, ucs, fin, kills, disturb>>

(* send_task reads the master's record again, without the lock; the slave  *)
(* copies what it gets into the slot it reserved and starts the process.   *)
SendTask(h) ==
  LET c == conn[h].c  t == conn[h].t IN
  /\ conn[h].pc = "send" /\ conn[h].up
  /\ slave' = [slave EXCEPT
                 ![c].task[t] = [comp[c].task[t] EXCEPT !.busy = TRUE],
                 ![c].run[t] = TRUE]
  /\ conn' = [conn EXCEPT ![h] = NoConn]
  /\ UNCHANGED <<job, comp, chk, regs, todo, ucs, fin, kills, disturb>>

(* The slave is gone: send_task fails and the frame is set back, or the    *)
(* bytes leave without an error, or SIGPIPE ends the handler.              *)
SendTaskFails(h) ==
  /\ conn[h].pc = "send" /\ ~conn[h].up
  /\ job' \in {job, BackToWaiting(conn[h].j, conn[h].f)}
  /\ conn' = [conn EXCEPT ![h] = NoConn]
  /\ UNCHANGED <<comp, chk, regs, todo, slave, ucs, fin, kills, disturb>>
-----------------------------------------------------------------------------
(* What goes wrong around a request for a frame.                           *)

SlotLeft(h) == slave            \* mutant: the slave keeps its reservation

(* SIGALRM after MAXTIMECONNECTION, or SIGPIPE: the handler exits wherever *)
(* it is.  The slave reads an end of file and clears the slot it reserved. *)
SlotCleared(h) ==
  IF conn[h].up /\ conn[h].pc \in {"confirmed", "send"}
    THEN [slave EXCEPT ![conn[h].c].task[conn[h].t] = TaskInit] ELSE slave

HandlerDies(h) ==
  /\ "signal" \in Faults /\ Disturb
  /\ conn[h].pc # "idle"
  /\ slave' = SlotCleared(h)
  /\ conn' = [conn EXCEPT ![h] = NoConn]
  /\ UNCHANGED <<job, comp, chk, regs, todo, ucs, fin, kills>>

(* The connection breaks; the slave's end notices first.                   *)
LinkBreaks(h) ==
  /\ "link" \in Faults /\ Disturb
  /\ conn[h].up
  /\ slave' = SlotCleared(h)
  /\ conn' = [conn EXCEPT ![h].up = FALSE]
  /\ UNCHANGED <<job, comp, chk, regs, todo, ucs, fin, kills>>

Unserved(c) ==
  [h \in Handlers |-> IF conn[h].c = c THEN [conn[h] EXCEPT !.up = FALSE]
                      ELSE conn[h]]

(* The machine goes down and takes its tasks with it.                      *)
SlaveCrashes(c) ==
  /\ "crash" \in Faults /\ Disturb
  /\ slave[c].up
  /\ slave' = [slave EXCEPT ![c] = SlaveDown]
  /\ conn' = Unserved(c)
  /\ UNCHANGED <<job, comp, chk, regs, todo, ucs, fin, kills>>

(* clean_out of the slave: it kills its tasks, whose waiters report them,  *)
(* and tells the master (R_R_SLAVEXIT), which frees its record.            *)
Report(c, t, exit) ==
  [job |-> slave[c].task[t].job, name |-> slave[c].task[t].name,
   frame |-> slave[c].task[t].frame, exit |-> exit]

CleanOut(c) ==
  /\ fin' = fin \cup {Report(c, t, "killed") : t \in {u \in Tasks : slave[c].run[u]}}
  /\ slave' = [slave EXCEPT ![c] = SlaveDown]
  /\ conn' = Unserved(c)
  /\ comp' = [comp EXCEPT ![c] = CompInit]
  /\ UNCHANGED <<job, chk, regs, todo, ucs, kills>>

SlaveExits(c) ==
  /\ "exit" \in Faults /\ Disturb
  /\ slave[c].up
  /\ CleanOut(c)

(* The master answers NOREGIS to a status of a slave it does not know.     *)
SlaveRejected(c) ==
  /\ slave[c].up /\ ~comp[c].used /\ Serving(c) = {}
  /\ CleanOut(c)
  /\ UNCHANGED disturb

(* A slave starts and registers (handle_r_r_register), which resets the    *)
(* record it may still have.                                               *)
SlaveStarts(c) ==
  /\ ~slave[c].up /\ Serving(c) = {}
  /\ slave' = [slave EXCEPT ![c].up = TRUE]
  /\ comp' = [comp EXCEPT ![c] = [CompInit EXCEPT !.used = TRUE]]
  /\ UNCHANGED <<job, conn, chk, regs, todo, ucs, fin, kills, disturb>>

-----------------------------------------------------------------------------
(* Status of a slave, sent by its main process between two requests for    *)
(* frames and stored by a handler that found the computer's index when the *)
(* connection was accepted.                                                *)

SendStatus(c) ==
  /\ slave[c].up /\ comp[c].used /\ Serving(c) = {} /\ ~ucs[c].sent
  /\ ucs' = [ucs EXCEPT ![c] = [sent |-> TRUE, task |-> slave[c].task]]
  /\ UNCHANGED <<job, comp, conn, chk, regs, todo, slave, fin, kills, disturb>>

StoreStatus(c) ==
  /\ ucs[c].sent
  /\ comp' = [comp EXCEPT ![c].task = ucs[c].task]
  /\ ucs' = [ucs EXCEPT ![c] = NoStatus]
  /\ UNCHANGED <<job, conn, chk, regs, todo, slave, fin, kills, disturb>>

StatusLost(c) ==
  /\ "lost" \in Faults /\ Disturb
  /\ ucs[c].sent
  /\ ucs' = [ucs EXCEPT ![c] = NoStatus]
  /\ UNCHANGED <<job, comp, conn, chk, regs, todo, slave, fin, kills>>

-----------------------------------------------------------------------------
(* Tasks end, their waiters report them, the master handles the report.    *)
(* An unused slot keeps what it contained.                                 *)

TaskEnds(c, t, exit) ==
  /\ slave[c].run[t]
  /\ fin' = fin \cup {Report(c, t, exit)}
  /\ slave' = [slave EXCEPT ![c].run[t] = FALSE,
                            ![c].task[t] = [@ EXCEPT !.used = FALSE, !.busy = FALSE]]
  /\ UNCHANGED <<job, comp, conn, chk, regs, todo, ucs>>

TaskExits(c, t) ==
  /\ TaskEnds(c, t, "exited")
  /\ UNCHANGED <<kills, disturb>>

TaskCrashes(c, t) ==
  /\ "taskcrash" \in Faults /\ Disturb
  /\ TaskEnds(c, t, "crashed")
  /\ UNCHANGED kills

(* handle_rs_r_killtask signals whatever process the slot has by now.      *)
KillArrives(c, t) ==
  /\ <<c, t>> \in kills
  /\ kills' = kills \ {<<c, t>>}
  /\ \/ TaskEnds(c, t, "killed")
     \/ /\ ~slave[c].run[t]
        /\ UNCHANGED <<job, comp, conn, chk, regs, todo, slave, ucs, fin>>
  /\ UNCHANGED disturb

(* handle_r_r_taskfini.  The report is dropped unless its slot holds a job *)
(* of the same name.  A slot being registered has an empty name, as a task *)
(* assigned from such a slot has, and then the slot is freed.              *)
JobReported(jb, r) ==
  IF Attached(jb)
    THEN [jb EXCEPT !.nprocs = OneLess(@),
                    !.fi[r.frame] = FinishedFrame(@, r.exit, jb.sub \in AutoRequeue)]
    ELSE JobInit

TaskFinished(r) ==
  /\ r \in fin
  /\ fin' = fin \ {r}
  /\ job' = IF /\ r.job \in Jobs /\ job[r.job].used
               /\ r.name = JobName(job[r.job])
              THEN [job EXCEPT ![r.job] = JobReported(@, r)] ELSE job
  /\ UNCHANGED <<comp, conn, chk, regs, todo, slave, ucs, kills, disturb>>

ReportLost(r) ==
  /\ "lost" \in Faults /\ Disturb
  /\ r \in fin
  /\ fin' = fin \ {r}
  /\ UNCHANGED <<job, comp, conn, chk, regs, todo, slave, ucs, kills>>
-----------------------------------------------------------------------------
(* Requests of users (drqman, the python tools): one critical section each *)
(* on a job that is in use.  A kill is sent from inside the section to the *)
(* computer and task slot the frame names; a frame whose task is not known *)
(* yet names no slot, and the request reaches nothing.                     *)

Killed(jb, fs) ==
  {<<jb.fi[f].icomp, jb.fi[f].itask>> :
     f \in {g \in fs : jb.fi[g].status = "ASSIGNED" /\ jb.fi[g].itask # NoTask}}

Request(op, j, new, killed) ==
  /\ op \in Ops /\ Disturb
  /\ job[j].used
  /\ job' = [job EXCEPT ![j] = new]
  /\ kills' = kills \cup killed
  /\ UNCHANGED <<comp, conn, chk, regs, todo, slave, ucs, fin>>

(* Requests that need the frames delete a job whose frames they cannot     *)
(* attach, which is what a slot being registered looks like.               *)
JobRequest(op, j, new, killed) ==
  IF Attached(job[j]) THEN Request(op, j, new, killed)
                      ELSE Request(op, j, JobInit, {})

(* job_frame_number_correct: a slot being registered reads as one frame.   *)
HasFrame(j, f) == Attached(job[j]) \/ f = 0

(* ... and those on one frame when the job has it.                         *)
FrameRequest(op, j, f, fr, killed) ==
  /\ HasFrame(j, f)
  /\ JobRequest(op, j, [job[j] EXCEPT !.fi[f] = fr], killed)

StopJob(j) == Request("STOPJOB", j, JobStop(job[j]), {})

ContinueJob(j) == Request("CONTJOB", j, JobContinue(job[j]), {})

HardStopJob(j) ==
  JobRequest("HSTOPJOB", j, JobStop(job[j]), Killed(job[j], Frames))

RerunJob(j) ==
  JobRequest("RERUNJOB", j,
    [job[j] EXCEPT !.fi = [f \in Frames |->
        IF @[f].status = "ASSIGNED" THEN @[f] ELSE Requeue(@[f])]],
    Killed(job[j], Frames))

DeleteJob(j) == JobRequest("DELETJOB", j, JobInit, Killed(job[j], Frames))

FrameWaiting(j, f) ==
  LET fr == job[j].fi[f] IN
  FrameRequest("JOBFWAIT", j, f,
    CASE fr.status = "WAITING"  -> fr
      [] fr.status = "ASSIGNED" -> [fr EXCEPT !.requeue = TRUE]
      [] OTHER -> Requeue(fr), {})

FrameKill(j, f) ==
  FrameRequest("JOBFKILL", j, f, job[j].fi[f], Killed(job[j], {f}))

FrameFinish(j, f) ==
  LET fr == job[j].fi[f] IN
  FrameRequest("JOBFFINI", j, f,
    IF fr.status \in {"WAITING", "ASSIGNED"} THEN Settle(fr, "FINISHED")
    ELSE fr, {})

FrameKillFinish(j, f) ==
  LET fr == job[j].fi[f] IN
  FrameRequest("JOBFKFIN", j, f,
    IF fr.status = "ASSIGNED" THEN Settle(fr, "FINISHED") ELSE fr,
    Killed(job[j], {f}))

FrameResetRequeued(j, f) ==
  FrameRequest("JOBFRSTRQD", j, f, [job[j].fi[f] EXCEPT !.requeued = 0], {})

-----------------------------------------------------------------------------
(* The consistency-check process (master_consistency_checks): computers    *)
(* silent for MAXTIMENOCONN are freed, then each job is copied, the frames *)
(* are checked one by one against the tasks of the computers, and the      *)
(* counts of the copy are written back.  Each of these is a section.       *)

NextCheck == [ChkIdle EXCEPT !.j = (chk.j + 1) % NJobs]

(* MAXTIMENOCONN is longer than MAXTIMECONNECTION: nothing the computer    *)
(* sent is still being handled.                                            *)
ExpireComputer(c) ==
  /\ chk.pc = "idle" /\ chk.j = 0
  /\ comp[c].used /\ ~ucs[c].sent
  /\ \A h \in Handlers : conn[h].c # c
  /\ \/ ~slave[c].up /\ UNCHANGED disturb
     \/ "partition" \in Faults /\ Disturb
  /\ comp' = [comp EXCEPT ![c] = CompInit]
  /\ UNCHANGED <<job, conn, chk, regs, todo, slave, ucs, fin, kills>>

CheckJob ==
  LET jb == job[chk.j] IN
  /\ chk.pc = "idle"
  /\ chk' = IF Attached(jb)
              THEN [chk EXCEPT !.pc = "frames", !.i = 0, !.snap = jb.fi]
              ELSE NextCheck
  /\ UNCHANGED <<job, comp, conn, regs, todo, slave, ucs, fin, kills, disturb>>

(* job_check_frame_status: the copy decides, the frame itself is requeued, *)
(* the copy keeps its status.                                              *)
CheckFrame ==
  LET j == chk.j  i == chk.i
      lost == NotRunning(chk.snap[i], j, job[j], comp) IN
  /\ chk.pc = "frames" /\ i < NFrames
  /\ IF job[j].used /\ HasFrame(j, i) /\ (lost => Attached(job[j]))
       THEN /\ chk' = [chk EXCEPT !.i = i + 1]
            /\ job' = IF lost THEN [job EXCEPT ![j].fi[i] = Requeue(@)] ELSE job
       ELSE /\ chk' = NextCheck
            /\ UNCHANGED job
  /\ UNCHANGED <<comp, conn, regs, todo, slave, ucs, fin, kills, disturb>>

Count(snap, st) == Cardinality({f \in Frames : snap[f].status = st})

CheckDone ==
  LET j == chk.j IN
  /\ chk.pc = "frames" /\ chk.i = NFrames
  /\ job' = IF job[j].used
              THEN [job EXCEPT ![j] = JobSettled(@, Count(chk.snap, "ASSIGNED"),
                                                 Count(chk.snap, "WAITING"))]
              ELSE job
  /\ chk' = NextCheck
  /\ UNCHANGED <<comp, conn, regs, todo, slave, ucs, fin, kills, disturb>>

-----------------------------------------------------------------------------
Registration ==
  \E s \in Subs : \/ RegisterReserve(s)
                  \/ \E j \in Jobs : RegisterDone(j, s) \/ RegisterFails(j, s)

HandlerStep(h) ==
  \/ \E j \in Jobs : Reserve(h, j) \/ SkipJob(h, j)
  \/ NoAvailableJob(h)
  \/ \E t \in Tasks : Confirm(h, t)
  \/ GiveUp(h) \/ Assign(h) \/ SendTask(h) \/ SendTaskFails(h)

HandlerFault(h) == HandlerDies(h) \/ LinkBreaks(h)

SlaveFault(c) == SlaveCrashes(c) \/ SlaveExits(c) \/ StatusLost(c)

SlaveStep(c) ==
  \/ \E h \in Handlers : Ask(c, h)
  \/ SlaveRejected(c) \/ SlaveStarts(c) \/ SendStatus(c) \/ StoreStatus(c)

TaskStep(c, t) == TaskExits(c, t) \/ TaskCrashes(c, t) \/ KillArrives(c, t)

ReportStep == \E r \in fin : TaskFinished(r) \/ ReportLost(r)

UserRequest(j) ==
  \/ StopJob(j) \/ ContinueJob(j) \/ HardStopJob(j) \/ RerunJob(j) \/ DeleteJob(j)
  \/ \E f \in Frames :
       \/ FrameWaiting(j, f) \/ FrameKill(j, f) \/ FrameFinish(j, f)
       \/ FrameKillFinish(j, f) \/ FrameResetRequeued(j, f)

Check == CheckJob \/ CheckFrame \/ CheckDone

Next ==
  \/ Registration
  \/ \E h \in Handlers : HandlerStep(h) \/ HandlerFault(h)
  \/ \E c \in Comps : SlaveStep(c) \/ SlaveFault(c) \/ ExpireComputer(c)
  \/ \E c \in Comps, t \in Tasks : TaskStep(c, t)
  \/ ReportStep
  \/ \E j \in Jobs : UserRequest(j)
  \/ Check

Spec == Init /\ [][Next]_vars
(* Fairness: the kernel runs every process; a slave that is down is started *)
(* again; the slave's loop alternates statuses and requests, and the check  *)
(* looks at the computers in every round, so that these recur although      *)
(* their guards come and go.  Nothing is assumed of faults and of users,    *)
(* except that clients send their jobs.                                     *)
Fairness ==
  /\ \A s \in Subs : /\ WF_vars(RegisterReserve(s))
                     /\ \A j \in Jobs : WF_vars(RegisterDone(j, s))
  /\ \A h \in Handlers : WF_vars(HandlerStep(h))
  /\ \A c \in Comps :
       /\ SF_vars(\E h \in Handlers : Ask(c, h))
       /\ SF_vars(SendStatus(c))
       /\ WF_vars(StoreStatus(c))
       /\ WF_vars(SlaveStarts(c) \/ SlaveRejected(c))
       /\ SF_vars(ExpireComputer(c))
       /\ \A t \in Tasks : WF_vars(TaskExits(c, t)) /\ WF_vars(KillArrives(c, t))
  /\ WF_vars(\E r \in fin : TaskFinished(r))
  /\ WF_vars(Check)

FairSpec == Spec /\ Fairness

-----------------------------------------------------------------------------
(* Properties.                                                             *)

Conn == [pc : {"idle", "scan", "offered", "confirmed", "send"},
         c : Comps \cup {NoComp}, left : SUBSET Jobs, j : Jobs \cup {NoJob},
         f : Frames, t : Tasks \cup {NoTask}, up : BOOLEAN]

(* What a handler knows at each point of handle_r_r_availjob.              *)
ConnKnows(cn) ==
  /\ cn.pc # "idle" => cn.c \in Comps
  /\ cn.pc \in {"offered", "confirmed", "send"} => cn.j \in Jobs
  /\ cn.pc \in {"confirmed", "send"} => cn.t \in Tasks

TaskReport == [job : Jobs \cup {NoJob}, name : Names \cup {NoName},
               frame : Frames, exit : Exits]

CompRecord == [used : BOOLEAN, task : [Tasks -> Task]]

SlaveRecord == [up : BOOLEAN, task : [Tasks -> Task], run : [Tasks -> BOOLEAN]]

Status == [sent : BOOLEAN, task : [Tasks -> Task]]

ChkRecord == [pc : {"idle", "frames"}, j : Jobs, i : 0 .. NFrames,
              snap : [Frames -> FrameInfo]]

(* Types of the shared memory, of what the processes keep and of messages. *)
TypeOK ==
  /\ job \in [Jobs -> JobRecord]
  /\ comp \in [Comps -> CompRecord]
  /\ conn \in [Handlers -> Conn]
  /\ \A h \in Handlers : ConnKnows(conn[h])
  /\ chk \in ChkRecord
  /\ regs \subseteq Jobs \X Subs
  /\ todo \subseteq Subs
  /\ slave \in [Comps -> SlaveRecord]
  /\ ucs \in [Comps -> Status]
  /\ fin \subseteq TaskReport
  /\ kills \subseteq (Comps \cup {NoComp}) \X Tasks
  /\ disturb \in 0 .. MaxDisturb

Reserved(fr) == fr.status = "ASSIGNED" /\ fr.itask = NoTask

Holds(h, j, f) ==
  conn[h].pc \in {"offered", "confirmed"} /\ conn[h].j = j /\ conn[h].f = f

(* A frame reserved by job_first_frame_available, whose task slot is not   *)
(* known, is held by a handler that will assign it or put it back.  The    *)
(* consistency check never requeues such a frame, so one that nobody holds *)
(* is never rendered.                                                      *)
ReservedFrameHasHandler ==
  \A j \in Jobs, f \in Frames :
    Reserved(job[j].fi[f]) => \E h \in Handlers : Holds(h, j, f)

(* The slave's mirror of it: a task slot reserved by task_available and    *)
(* still without a process belongs to a request that is under way, so that *)
(* no way for the request to end leaks one of the MAXTASKS slots.          *)
ReservedSlotHasConnection ==
  \A c \in Comps, t \in Tasks :
    slave[c].task[t].used /\ ~slave[c].run[t] =>
      \E h \in Handlers : /\ conn[h].pc \in {"confirmed", "send"} /\ conn[h].up
                          /\ conn[h].c = c /\ conn[h].t = t

(* Two registrations never receive into the same slot, the lock being free *)
(* between handle_r_r_regisjob and job_init_registered, and no registered  *)
(* job is replaced without having been deleted first.                      *)
SlotsKept ==
  [][\A j \in Jobs : Attached(job[j]) /\ job'[j].sub # job[j].sub
                     => job'[j] = JobInit]_vars

(* Every frame of a job is eventually finished or in error at least once,  *)
(* or its job is gone, whatever handlers, links and slaves do meanwhile.   *)
FrameSettles ==
  \A j \in Jobs, f \in Frames :
    Attached(job[j]) ~> \/ ~Attached(job[j])
                        \/ job[j].fi[f].status \in {"FINISHED", "ERROR"}

(* A job whose frames are all finished or in error reads FINISHED or is    *)
(* deleted in the end, unless a frame goes back to the queue: the counts   *)
(* of the checks, stale as they are, catch up.                             *)
AllSettled(jb) == \A f \in Frames : jb.fi[f].status \in {"FINISHED", "ERROR"}

JobSettles ==
  \A j \in Jobs :
    Attached(job[j]) /\ AllSettled(job[j])
      ~> ~Attached(job[j]) \/ ~AllSettled(job[j]) \/ job[j].status = "FINISHED"
=============================================================================
