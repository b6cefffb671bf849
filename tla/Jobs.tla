-------------------------------- MODULE Jobs --------------------------------
(***************************************************************************)
(* Job and frame records of the master's shared memory, and the functions  *)
(* of libdrqueue/job.c, computer.c and request.c that read or rewrite one  *)
(* of them inside one critical section.  Nothing here is concurrent: the   *)
(* processes that apply these operators are in Master.                     *)
(*                                                                         *)
(* Abstractions of the data.  Frames are frame indices (FrameNumbers has   *)
(* the numbers).  A submission stands for everything a client sends with   *)
(* a job: its name, its flags and its limits.  icomp and itask of a frame  *)
(* are only read while the frame is ASSIGNED, so the model forgets them in *)
(* the other statuses.  requeued is only compared with MAX_REQUEUES, so it *)
(* saturates there.  fleft, fdone, ffailed and the times are only shown to *)
(* users and are left out.                                                 *)
(***************************************************************************)
EXTENDS Naturals, FiniteSets

CONSTANTS
  NJobs,            \* MAXJOBS: number of job slots
  NFrames,          \* number of frames of every job
  Comps,            \* computers, each with its record in the master
  Tasks,            \* task slots of a computer (MAXTASKS)
  Subs,             \* submissions clients may send
  Names,            \* job names
  NameOf,           \* [Subs -> Names]
  DependOf,         \* [Subs -> slot of the job it depends on, or NoJob]
  AutoDelete,       \* submissions with JF_JOBDELETE
  AutoRequeue,      \* submissions with job.autoRequeue
  MaxCpus,          \* [Subs -> Nat]: limits.nmaxcpus
  MaxCpusComp,      \* [Subs -> Nat]: limits.nmaxcpuscomputer
  Allowed,          \* [Subs -> SUBSET Comps]: OS, memory, pool, blocked hosts
  MaxRequeues,      \* MAX_REQUEUES
  NoJob, NoComp, NoTask, NoSub, NoName

Jobs   == 0 .. NJobs - 1
Frames == 0 .. NFrames - 1

ASSUME SizesAssumption ==
  /\ NJobs \in Nat \ {0} /\ NFrames \in Nat \ {0} /\ MaxRequeues \in Nat
  /\ IsFiniteSet(Comps) /\ IsFiniteSet(Tasks) /\ IsFiniteSet(Subs)

ASSUME SubsAssumption ==
  /\ NameOf \in [Subs -> Names]
  /\ DependOf \in [Subs -> Jobs \cup {NoJob}]
  /\ AutoDelete \subseteq Subs /\ AutoRequeue \subseteq Subs
  /\ MaxCpus \in [Subs -> Nat] /\ MaxCpusComp \in [Subs -> Nat]
  /\ Allowed \in [Subs -> SUBSET Comps]

ASSUME NullsAssumption ==
  /\ NoJob \notin Jobs /\ NoComp \notin Comps /\ NoTask \notin Tasks
  /\ NoSub \notin Subs /\ NoName \notin Names

-----------------------------------------------------------------------------
(* Frames.                                                                 *)

FrameStatus == {"WAITING", "ASSIGNED", "ERROR", "FINISHED"}

FrameInfo == [status : FrameStatus, icomp : Comps \cup {NoComp},
              itask : Tasks \cup {NoTask}, requeued : 0 .. MaxRequeues,
              requeue : BOOLEAN]      \* the FF_REQUEUE flag

FrameInit == [status |-> "WAITING", icomp |-> NoComp, itask |-> NoTask,
              requeued |-> 0, requeue |-> FALSE]

Bump(n) == IF n < MaxRequeues THEN n + 1 ELSE n

(* Leave a frame in a status other than ASSIGNED.                          *)
Settle(fr, st) ==
  [fr EXCEPT !.status = st, !.icomp = NoComp, !.itask = NoTask]

(* Back to the queue: status, start_time and requeued++.                   *)
Requeue(fr) ==
  [Settle(fr, "WAITING") EXCEPT !.requeued = Bump(fr.requeued)]

(* Set in job_first_frame_available (task not known yet) and again in      *)
(* job_update_assigned, whatever the status was.                           *)
AssignTo(fr, c, t) ==
  [fr EXCEPT !.status = "ASSIGNED", !.icomp = c, !.itask = t]

(* What handle_r_r_taskfini does to the frame of the finished task.  Tasks *)
(* end "exited", "killed" (SIGINT, SIGTERM, SIGKILL) or "crashed" (another *)
(* signal).                                                                *)
Exits == {"exited", "killed", "crashed"}

FinishedFrame(fr, exit, auto) ==
  CASE exit = "exited"  -> IF fr.requeue /\ fr.requeued < MaxRequeues
                             THEN Requeue(fr) ELSE Settle(fr, "FINISHED")
    [] exit = "crashed" -> Settle(fr, "ERROR")
    [] exit = "killed"  -> IF fr.status # "ASSIGNED" THEN fr
                           ELSE IF auto /\ fr.requeued < MaxRequeues
                             THEN Requeue(fr) ELSE Settle(fr, "ERROR")

-----------------------------------------------------------------------------
(* Jobs.  sub = NoSub is a record as job_init leaves it, whose fishmid is  *)
(* -1: no frame memory can be attached.                                    *)

JobStatus == {"WAITING", "ACTIVE", "STOPPED", "FINISHED"}

JobRecord == [used : BOOLEAN, sub : Subs \cup {NoSub}, status : JobStatus,
              nprocs : Nat, fi : [Frames -> FrameInfo]]

JobInit == [used |-> FALSE, sub |-> NoSub, status |-> "WAITING",
            nprocs |-> 0, fi |-> [f \in Frames |-> FrameInit]]

JobRegistered(s) == [JobInit EXCEPT !.used = TRUE, !.sub = s]

Attached(jb) == jb.used /\ jb.sub # NoSub

JobName(jb) == IF jb.sub = NoSub THEN NoName ELSE NameOf[jb.sub]

WithStatus(jb, st) == {f \in Frames : jb.fi[f].status = st}

(* First frame available, in frame order.                                  *)
FirstWaiting(jb, f) ==
  /\ jb.fi[f].status = "WAITING"
  /\ \A g \in Frames : g < f => jb.fi[g].status # "WAITING"

JobStop(jb) ==
  IF jb.status \in {"WAITING", "ACTIVE"}
    THEN [jb EXCEPT !.status = "STOPPED"] ELSE jb

JobContinue(jb) ==
  IF jb.status \in {"STOPPED", "FINISHED"}
    THEN [jb EXCEPT !.status = "WAITING"] ELSE jb

OneLessUnchecked(n) == n - 1    \* mutant: the zero test dropped

OneLess(n) == IF n > 0 THEN n - 1 ELSE n

(* job_frame_waiting past its checks.                                      *)
JobFrameWaiting(jb, f) ==
  [jb EXCEPT !.fi[f] = Requeue(@), !.nprocs = OneLess(@)]

(* job_update_assigned past its checks.                                    *)
JobUpdateAssigned(jb, f, c, t) ==
  [jb EXCEPT !.fi[f] = AssignTo(@, c, t),
             !.status = IF jb.nprocs > 0 THEN "ACTIVE" ELSE @]

JobReserveLate(jb, f, c) == [jb EXCEPT !.nprocs = @ + 1]  \* mutant: status not set

(* The reservation at the end of job_first_frame_available.                *)
JobReserve(jb, f, c) ==
  [jb EXCEPT !.fi[f] = AssignTo(@, c, NoTask), !.nprocs = @ + 1]

(* Mutants of JobSettled: the frames that still run are not looked at; the *)
(* frames left are compared with the wrong operator.                       *)
JobSettledHasty(jb, running, left) ==
  [jb EXCEPT !.nprocs = running,
             !.status = IF @ = "STOPPED" THEN @
                        ELSE IF left > 0 THEN "WAITING" ELSE "FINISHED"]

JobSettledNever(jb, running, left) ==
  [jb EXCEPT !.nprocs = running,
             !.status = IF @ = "STOPPED" THEN @
                        ELSE IF running > 0 THEN "ACTIVE" ELSE "WAITING"]

(* The end of job_update_info: running and left are what the pass counted. *)
JobSettled(jb, running, left) ==
  LET counted == [jb EXCEPT !.nprocs = running]
  IN  CASE jb.status \in {"WAITING", "ACTIVE"} ->
             IF running > 0 THEN [counted EXCEPT !.status = "ACTIVE"]
             ELSE IF left > 0 THEN [counted EXCEPT !.status = "WAITING"]
             ELSE IF jb.sub \in AutoDelete THEN JobInit
             ELSE [counted EXCEPT !.status = "FINISHED"]
        [] jb.status = "STOPPED"  -> counted
        [] jb.status = "FINISHED" ->
             IF left > 0 THEN [counted EXCEPT !.status = "WAITING"]
             ELSE counted

-----------------------------------------------------------------------------
(* Task records, in the slave's own memory and in the master's copy of it. *)
(* busy is LOADING or RUNNING, which nothing here tells apart.             *)

Task == [used : BOOLEAN, busy : BOOLEAN, job : Jobs \cup {NoJob},
         name : Names \cup {NoName}, frame : Frames]

TaskInit == [used |-> FALSE, busy |-> FALSE, job |-> NoJob,
             name |-> NoName, frame |-> 0]

(* computer_update_assigned.                                               *)
TaskAssigned(j, jb, f) ==
  [used |-> TRUE, busy |-> TRUE, job |-> j, name |-> JobName(jb), frame |-> f]

(* computer_nrunning_job over a task table.                                *)
NRunningJob(tasks, j) ==
  Cardinality({t \in Tasks : tasks[t].used /\ tasks[t].busy
                             /\ tasks[t].job = j})

(* job_limits_passed: the limits of job jb in slot j on computer c.        *)
LimitsPassed(j, jb, c, tasks) ==
  /\ jb.sub # NoSub
  /\ jb.nprocs < MaxCpus[jb.sub]
  /\ NRunningJob(tasks, j) < MaxCpusComp[jb.sub]
  /\ c \in Allowed[jb.sub]

(* Mutant of NotRunning: whether the task slot is in use is not looked at. *)
NotRunningUnused(fr, j, jb, comps) ==
  /\ fr.status = "ASSIGNED" /\ fr.itask # NoTask
  /\ LET tk == comps[fr.icomp].task[fr.itask]
     IN  tk.job # j \/ tk.name # JobName(jb)

(* The decision of job_check_frame_status: the task that frame snapshot fr *)
(* of job slot j names does not look like a task running for that job.     *)
NotRunning(fr, j, jb, comps) ==
  /\ fr.status = "ASSIGNED"
  /\ \/ ~comps[fr.icomp].used
     \/ /\ fr.itask # NoTask
        /\ LET tk == comps[fr.icomp].task[fr.itask]
           IN  \/ ~tk.used
               \/ ~tk.busy
               \/ tk.job # j
               \/ tk.name # JobName(jb)
=============================================================================
