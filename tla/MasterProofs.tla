---------------------------- MODULE MasterProofs ----------------------------
(***************************************************************************)
(* Theorems about Master, for every number of jobs, frames, computers,     *)
(* tasks and handlers and every set of requests and faults.                *)
(***************************************************************************)
EXTENDS Master, FiniteSetTheorems, TLAPS

-----------------------------------------------------------------------------
(* Types of what the operators of Jobs build.                              *)

LEMMA FrameTypes ==
  ASSUME NEW fr \in FrameInfo, NEW st \in FrameStatus, NEW exit \in Exits,
         NEW auto
  PROVE  /\ FrameInit \in FrameInfo
         /\ Settle(fr, st) \in FrameInfo
         /\ Requeue(fr) \in FrameInfo
         /\ FinishedFrame(fr, exit, auto) \in FrameInfo
         /\ [fr EXCEPT !.requeue = TRUE] \in FrameInfo
         /\ [fr EXCEPT !.requeued = 0] \in FrameInfo
<1>1. MaxRequeues \in Nat
  BY SizesAssumption
<1>2. FrameInit \in FrameInfo
  BY <1>1 DEF FrameInit, FrameInfo, FrameStatus
<1>3. \A s \in FrameStatus : Settle(fr, s) \in FrameInfo
  BY DEF Settle, FrameInfo
<1>4. Bump(fr.requeued) \in 0 .. MaxRequeues
  BY <1>1 DEF Bump, FrameInfo
<1>5. Requeue(fr) \in FrameInfo
  <2>1. Settle(fr, "WAITING") \in FrameInfo
    BY <1>3 DEF FrameStatus
  <2> QED
    BY <2>1, <1>4 DEF Requeue, FrameInfo
<1>6. FinishedFrame(fr, exit, auto) \in FrameInfo
  BY <1>3, <1>5 DEF FinishedFrame, Exits, FrameStatus
<1>7. [fr EXCEPT !.requeue = TRUE] \in FrameInfo
  BY DEF FrameInfo
<1>8. [fr EXCEPT !.requeued = 0] \in FrameInfo
  BY <1>1 DEF FrameInfo
<1> QED
  BY <1>2, <1>3, <1>5, <1>6, <1>7, <1>8
LEMMA AssignToType ==
  ASSUME NEW fr \in FrameInfo, NEW c \in Comps, NEW t \in Tasks \cup {NoTask}
  PROVE  AssignTo(fr, c, t) \in FrameInfo
BY DEF AssignTo, FrameInfo, FrameStatus

LEMMA JobInitType ==
  JobInit \in JobRecord /\ \A s \in Subs : JobRegistered(s) \in JobRecord
<1>1. FrameInit \in FrameInfo
  BY SizesAssumption DEF FrameInit, FrameInfo, FrameStatus
<1>2. JobInit \in JobRecord
  BY <1>1 DEF JobInit, JobRecord, JobStatus
<1>3. \A s \in Subs : JobRegistered(s) \in JobRecord
  BY <1>2 DEF JobRegistered, JobRecord
<1> QED
  BY <1>2, <1>3

LEMMA JobAssignTypes ==
  ASSUME NEW jb \in JobRecord, NEW f \in Frames, NEW c \in Comps,
         NEW t \in Tasks \cup {NoTask}
  PROVE  /\ JobUpdateAssigned(jb, f, c, t) \in JobRecord
         /\ JobReserve(jb, f, c) \in JobRecord
<1> USE DEF JobRecord
<1>1. jb.fi[f] \in FrameInfo
  OBVIOUS
<1>2. JobUpdateAssigned(jb, f, c, t) \in JobRecord
  BY <1>1, AssignToType DEF JobUpdateAssigned, JobStatus
<1>3. JobReserve(jb, f, c) \in JobRecord
  <2> DEFINE fr == AssignTo(jb.fi[f], c, NoTask)
  <2>1. fr \in FrameInfo
    BY <1>1, AssignToType
  <2>2. jb.nprocs + 1 \in Nat
    OBVIOUS
  <2> HIDE DEF fr
  <2>3. [jb EXCEPT !.fi[f] = fr, !.nprocs = jb.nprocs + 1] \in JobRecord
    BY <2>1, <2>2
  <2> QED
    BY <2>3 DEF JobReserve, fr
<1> QED
  BY <1>2, <1>3

LEMMA JobTypes ==
  ASSUME NEW jb \in JobRecord, NEW f \in Frames, NEW fr \in FrameInfo,
         NEW n \in Nat, NEW m \in Nat
  PROVE  /\ [jb EXCEPT !.used = TRUE] \in JobRecord
         /\ [jb EXCEPT !.fi[f] = fr] \in JobRecord
         /\ JobStop(jb) \in JobRecord
         /\ JobContinue(jb) \in JobRecord
         /\ JobFrameWaiting(jb, f) \in JobRecord
         /\ JobSettled(jb, n, m) \in JobRecord
<1> USE DEF JobRecord
<1>1. [jb EXCEPT !.used = TRUE] \in JobRecord
  OBVIOUS
<1>2. [jb EXCEPT !.fi[f] = fr] \in JobRecord
  OBVIOUS
<1>3. JobStop(jb) \in JobRecord /\ JobContinue(jb) \in JobRecord
  BY DEF JobStop, JobContinue, JobStatus
<1>4. JobFrameWaiting(jb, f) \in JobRecord
  <2>1. jb.fi[f] \in FrameInfo /\ OneLess(jb.nprocs) \in Nat
    BY DEF OneLess
  <2>2. Requeue(jb.fi[f]) \in FrameInfo
    BY <2>1, FrameTypes DEF FrameStatus, Exits
  <2> QED
    BY <2>1, <2>2 DEF JobFrameWaiting
<1>5. JobSettled(jb, n, m) \in JobRecord
  <2> DEFINE counted == [jb EXCEPT !.nprocs = n]
  <2>1. counted \in JobRecord
    OBVIOUS
  <2>2. \A st \in JobStatus : [counted EXCEPT !.status = st] \in JobRecord
    BY <2>1
  <2> HIDE DEF counted
  <2>3. jb.status \in JobStatus
    OBVIOUS
  <2>4. JobSettled(jb, n, m) =
          CASE jb.status \in {"WAITING", "ACTIVE"} ->
                 IF n > 0 THEN [counted EXCEPT !.status = "ACTIVE"]
                 ELSE IF m > 0 THEN [counted EXCEPT !.status = "WAITING"]
                 ELSE IF jb.sub \in AutoDelete THEN JobInit
                 ELSE [counted EXCEPT !.status = "FINISHED"]
            [] jb.status = "STOPPED"  -> counted
            [] jb.status = "FINISHED" ->
                 IF m > 0 THEN [counted EXCEPT !.status = "WAITING"]
                 ELSE counted
    BY DEF JobSettled, counted
  <2>5. CASE jb.status \in {"WAITING", "ACTIVE"}
    <3>1. JobSettled(jb, n, m) =
            IF n > 0 THEN [counted EXCEPT !.status = "ACTIVE"]
            ELSE IF m > 0 THEN [counted EXCEPT !.status = "WAITING"]
            ELSE IF jb.sub \in AutoDelete THEN JobInit
            ELSE [counted EXCEPT !.status = "FINISHED"]
      BY <2>4, <2>5
    <3> HIDE DEF JobRecord
    <3> QED
      BY JobInitType, <2>2, <3>1 DEF JobStatus
  <2>6. CASE jb.status = "STOPPED"
    BY <2>1, <2>4, <2>6
  <2>7. CASE jb.status = "FINISHED"
    BY <2>1, <2>2, <2>4, <2>7 DEF JobStatus
  <2> QED
    BY <2>3, <2>5, <2>6, <2>7 DEF JobStatus
<1> QED
  BY <1>1, <1>2, <1>3, <1>4, <1>5

LEMMA TaskTypes ==
  ASSUME NEW j \in Jobs, NEW jb \in JobRecord, NEW f \in Frames
  PROVE  TaskInit \in Task /\ TaskAssigned(j, jb, f) \in Task
<1>1. 0 \in Frames
  BY SizesAssumption DEF Frames
<1>2. JobName(jb) \in Names \cup {NoName}
  BY SubsAssumption DEF JobName, JobRecord
<1> QED
  BY <1>1, <1>2 DEF TaskInit, TaskAssigned, Task

(* What the variables are reset to.                                        *)
LEMMA ResetTypes ==
  /\ NoConn \in Conn /\ ConnKnows(NoConn)
  /\ NoStatus \in Status
  /\ CompInit \in CompRecord
  /\ SlaveDown \in SlaveRecord
  /\ ChkIdle \in ChkRecord
<1>1. 0 \in Frames /\ 0 \in Jobs /\ 0 \in 0 .. NFrames
  BY SizesAssumption DEF Frames, Jobs
<1>2. FrameInit \in FrameInfo
  BY SizesAssumption DEF FrameInit, FrameInfo, FrameStatus
<1>3. TaskInit \in Task
  BY <1>1 DEF TaskInit, Task
<1>4. NoConn \in Conn /\ ConnKnows(NoConn)
  BY <1>1 DEF NoConn, Conn, ConnKnows
<1>5. ChkIdle \in ChkRecord
  BY <1>1, <1>2 DEF ChkIdle, ChkRecord
<1> QED
  BY <1>3, <1>4, <1>5 DEF NoStatus, Status, CompInit, CompRecord, SlaveDown,
     SlaveRecord

LEMMA TypeInit == Init => TypeOK
<1>1. MaxDisturb \in 0 .. MaxDisturb
  BY MasterAssumption
<1> QED
  BY <1>1, JobInitType, ResetTypes DEF Init, TypeOK
(* Changes to one record of a table.                                       *)
LEMMA OneJob ==
  ASSUME TypeOK, NEW j \in Jobs, NEW jb \in JobRecord,
         job' = [job EXCEPT ![j] = jb]
  PROVE  job' \in [Jobs -> JobRecord]
BY DEF TypeOK

LEMMA OneConn ==
  ASSUME TypeOK, NEW h \in Handlers, NEW cn \in Conn, ConnKnows(cn),
         conn' = [conn EXCEPT ![h] = cn]
  PROVE  /\ conn' \in [Handlers -> Conn]
         /\ \A g \in Handlers : ConnKnows(conn'[g])
BY DEF TypeOK

LEMMA LessDisturb ==
  ASSUME TypeOK, Disturb
  PROVE  disturb' \in 0 .. MaxDisturb
BY MasterAssumption DEF TypeOK, Disturb

-----------------------------------------------------------------------------
(* Each group of actions preserves the types.                              *)

LEMMA RegistrationTypes == TypeOK /\ Registration => TypeOK'
<1> SUFFICES ASSUME TypeOK, Registration PROVE TypeOK'
  OBVIOUS
<1>1. ASSUME NEW s \in Subs, RegisterReserve(s) PROVE TypeOK'
  <2>1. PICK j \in Jobs : /\ job' = [job EXCEPT ![j].used = TRUE]
                          /\ regs' = regs \cup {<<j, s>>}
    BY <1>1 DEF RegisterReserve
  <2>2. [job[j] EXCEPT !.used = TRUE] \in JobRecord
    BY DEF TypeOK, JobRecord
  <2>3. job' \in [Jobs -> JobRecord]
    BY <2>1, <2>2, OneJob
  <2> QED
    BY <1>1, <2>1, <2>3 DEF RegisterReserve, TypeOK
<1>2. ASSUME NEW s \in Subs, NEW j \in Jobs, RegisterDone(j, s) PROVE TypeOK'
  <2>1. job' \in [Jobs -> JobRecord]
    BY <1>2, JobInitType, OneJob DEF RegisterDone, TypeOK
  <2> QED
    BY <1>2, <2>1 DEF RegisterDone, TypeOK
<1>3. ASSUME NEW s \in Subs, NEW j \in Jobs, RegisterFails(j, s) PROVE TypeOK'
  <2>1. job' \in [Jobs -> JobRecord]
    BY <1>3, JobInitType, OneJob DEF RegisterFails
  <2> QED
    BY <1>3, <2>1, LessDisturb DEF RegisterFails, TypeOK
<1> QED
  BY <1>1, <1>2, <1>3 DEF Registration

LEMMA HandlerTypes ==
  ASSUME TypeOK, NEW h \in Handlers, HandlerStep(h) \/ HandlerFault(h)
  PROVE  TypeOK'
<1> DEFINE cn == conn[h]
<1>0. cn \in Conn /\ ConnKnows(cn)
  BY DEF TypeOK
<1>1. ASSUME NEW j \in Jobs, Reserve(h, j) PROVE TypeOK'
  <2>1. PICK f \in Frames :
          /\ job' = [job EXCEPT ![j] = JobReserve(job[j], f, cn.c)]
          /\ conn' = [conn EXCEPT ![h].pc = "offered", ![h].j = j, ![h].f = f,
                                  ![h].left = {}]
    BY <1>1 DEF Reserve
  <2>2. cn.c \in Comps
    BY <1>0, <1>1 DEF Reserve, ConnKnows
  <2>3. job[j] \in JobRecord
    BY DEF TypeOK
  <2>4. JobReserve(job[j], f, cn.c) \in JobRecord
    BY <2>2, <2>3, JobAssignTypes
  <2>5. job' \in [Jobs -> JobRecord]
    BY <2>1, <2>4, OneJob
  <2> DEFINE new == [cn EXCEPT !.pc = "offered", !.j = j, !.f = f, !.left = {}]
  <2>6. new \in Conn /\ ConnKnows(new)
    BY <1>0, <2>2 DEF Conn, ConnKnows
  <2>7. conn' = [conn EXCEPT ![h] = new]
    BY <2>1
  <2> HIDE DEF new
  <2>8. conn' \in [Handlers -> Conn] /\ \A g \in Handlers : ConnKnows(conn'[g])
    BY <2>6, <2>7, OneConn
  <2> QED
    BY <1>1, <2>5, <2>8 DEF Reserve, TypeOK, ConnKnows
<1>2. ASSUME NEW j \in Jobs, SkipJob(h, j) PROVE TypeOK'
  <2> DEFINE new == [cn EXCEPT !.left = cn.left \ {j}]
  <2>1. new \in Conn /\ ConnKnows(new)
    BY <1>0 DEF Conn, ConnKnows
  <2>2. conn' = [conn EXCEPT ![h] = new]
    BY <1>2 DEF SkipJob
  <2> HIDE DEF new
  <2>3. conn' \in [Handlers -> Conn] /\ \A g \in Handlers : ConnKnows(conn'[g])
    BY <2>1, <2>2, OneConn
  <2> QED
    BY <1>2, <2>3 DEF SkipJob, TypeOK
<1>3. conn' = [conn EXCEPT ![h] = NoConn]
      => conn' \in [Handlers -> Conn] /\ \A g \in Handlers : ConnKnows(conn'[g])
  BY ResetTypes, OneConn
<1>4. CASE NoAvailableJob(h)
  BY <1>3, <1>4 DEF NoAvailableJob, TypeOK
<1>5. ASSUME NEW t \in Tasks, Confirm(h, t) PROVE TypeOK'
  <2> DEFINE new == [cn EXCEPT !.pc = "confirmed", !.t = t]
  <2>1. new \in Conn /\ ConnKnows(new)
    BY <1>0, <1>5 DEF Conn, ConnKnows, Confirm
  <2>2. conn' = [conn EXCEPT ![h] = new]
    BY <1>5 DEF Confirm
  <2> HIDE DEF new
  <2>3. conn' \in [Handlers -> Conn] /\ \A g \in Handlers : ConnKnows(conn'[g])
    BY <2>1, <2>2, OneConn
  <2>4. slave' \in [Comps -> SlaveRecord]
    <3>1. cn.c \in Comps
      BY <1>0, <1>5 DEF Confirm, ConnKnows
    <3>2. slave[cn.c].task[t] \in Task
      BY <3>1 DEF TypeOK, SlaveRecord
    <3>3. [slave[cn.c].task[t] EXCEPT !.used = TRUE, !.busy = TRUE] \in Task
      BY <3>2 DEF Task
    <3> QED
      BY <1>5, <3>1, <3>3 DEF Confirm, TypeOK, SlaveRecord
  <2> QED
    BY <1>5, <2>3, <2>4 DEF Confirm, TypeOK
(* job_frame_waiting, wherever it is called from.                          *)
<1>6. cn.pc \in {"offered", "confirmed", "send"}
      => BackToWaiting(cn.j, cn.f) \in [Jobs -> JobRecord]
  <2> SUFFICES ASSUME cn.pc \in {"offered", "confirmed", "send"}
               PROVE  BackToWaiting(cn.j, cn.f) \in [Jobs -> JobRecord]
    OBVIOUS
  <2>1. cn.j \in Jobs /\ cn.f \in Frames
    BY <1>0 DEF ConnKnows, Conn
  <2>2. job[cn.j] \in JobRecord /\ 0 \in Nat
    BY <2>1 DEF TypeOK
  <2>3. job[cn.j].fi[cn.f] \in FrameInfo
    BY <2>1, <2>2 DEF JobRecord
  <2>4. JobFrameWaiting(job[cn.j], cn.f) \in JobRecord
    BY <2>1, <2>2, <2>3, JobTypes
  <2> QED
    BY <2>1, <2>4 DEF BackToWaiting, TypeOK
<1>7. CASE GiveUp(h)
  BY <1>3, <1>6, <1>7 DEF GiveUp, TypeOK
<1>8. CASE Assign(h)
  <2>1. cn.c \in Comps /\ cn.j \in Jobs /\ cn.f \in Frames /\ cn.t \in Tasks
    BY <1>0, <1>8 DEF Assign, ConnKnows, Conn
  <2>2. job[cn.j] \in JobRecord
    BY <2>1 DEF TypeOK
  <2>3. JobUpdateAssigned(job[cn.j], cn.f, cn.c, cn.t) \in JobRecord
    BY <2>1, <2>2, JobAssignTypes
  <2>4. job' \in [Jobs -> JobRecord]
    BY <1>8, <2>1, <2>3 DEF Assign, TypeOK
  <2>5. TaskAssigned(cn.j, job[cn.j], cn.f) \in Task
    BY <2>1, <2>2, TaskTypes
  <2>6. comp' \in [Comps -> CompRecord]
    BY <1>8, <2>1, <2>5 DEF Assign, TypeOK, CompRecord
  <2> DEFINE new == [cn EXCEPT !.pc = "send"]
  <2>7. new \in Conn /\ ConnKnows(new)
    BY <1>0, <2>1 DEF Conn, ConnKnows
  <2>8. conn' = [conn EXCEPT ![h] = new]
    BY <1>8 DEF Assign
  <2> HIDE DEF new
  <2>9. conn' \in [Handlers -> Conn] /\ \A g \in Handlers : ConnKnows(conn'[g])
    BY <2>7, <2>8, OneConn
  <2> QED
    BY <1>8, <2>4, <2>6, <2>9 DEF Assign, TypeOK
<1>9. CASE SendTask(h)
  <2>1. cn.c \in Comps /\ cn.t \in Tasks
    BY <1>0, <1>9 DEF SendTask, ConnKnows
  <2>2. comp[cn.c].task[cn.t] \in Task
    BY <2>1 DEF TypeOK, CompRecord
  <2>3. [comp[cn.c].task[cn.t] EXCEPT !.busy = TRUE] \in Task
    BY <2>2 DEF Task
  <2>4. slave' \in [Comps -> SlaveRecord]
    BY <1>9, <2>1, <2>3 DEF SendTask, TypeOK, SlaveRecord
  <2> QED
    BY <1>3, <1>9, <2>4 DEF SendTask, TypeOK
<1>10. CASE SendTaskFails(h)
  BY <1>3, <1>6, <1>10 DEF SendTaskFails, TypeOK
<1>11. SlotCleared(h) \in [Comps -> SlaveRecord]
  <2>1. TaskInit \in Task
    BY SizesAssumption DEF TaskInit, Task, Frames
  <2>2. CASE cn.up /\ cn.pc \in {"confirmed", "send"}
    <3>1. cn.c \in Comps /\ cn.t \in Tasks
      BY <1>0, <2>2 DEF ConnKnows
    <3> QED
      BY <2>1, <2>2, <3>1 DEF SlotCleared, TypeOK, SlaveRecord
  <2>3. CASE ~(cn.up /\ cn.pc \in {"confirmed", "send"})
    BY <2>3 DEF SlotCleared, TypeOK
  <2> QED
    BY <2>2, <2>3
<1>12. CASE HandlerDies(h)
  BY <1>3, <1>11, <1>12, LessDisturb DEF HandlerDies, TypeOK
<1>13. CASE LinkBreaks(h)
  <2> DEFINE new == [cn EXCEPT !.up = FALSE]
  <2>1. new \in Conn /\ ConnKnows(new)
    BY <1>0 DEF Conn, ConnKnows
  <2>2. conn' = [conn EXCEPT ![h] = new]
    BY <1>13 DEF LinkBreaks
  <2> HIDE DEF new
  <2>3. conn' \in [Handlers -> Conn] /\ \A g \in Handlers : ConnKnows(conn'[g])
    BY <2>1, <2>2, OneConn
  <2> QED
    BY <1>11, <1>13, <2>3, LessDisturb DEF LinkBreaks, TypeOK
<1> QED
  BY <1>1, <1>2, <1>4, <1>5, <1>7, <1>8, <1>9, <1>10, <1>12, <1>13
     DEF HandlerStep, HandlerFault
LEMMA SlaveTypes ==
  ASSUME TypeOK, NEW c \in Comps,
         SlaveStep(c) \/ SlaveFault(c) \/ ExpireComputer(c)
  PROVE  TypeOK'
<1>1. ASSUME NEW h \in Handlers, Ask(c, h) PROVE TypeOK'
  <2> DEFINE new == [NoConn EXCEPT !.pc = "scan", !.c = c, !.left = Jobs,
                                   !.up = TRUE]
  <2>1. new \in Conn /\ ConnKnows(new)
    BY ResetTypes DEF Conn, ConnKnows, NoConn
  <2>2. conn' = [conn EXCEPT ![h] = new]
    BY <1>1 DEF Ask
  <2> HIDE DEF new
  <2>3. conn' \in [Handlers -> Conn] /\ \A g \in Handlers : ConnKnows(conn'[g])
    BY <2>1, <2>2, OneConn
  <2> QED
    BY <1>1, <2>3 DEF Ask, TypeOK
<1>2. conn' = Unserved(c)
      => conn' \in [Handlers -> Conn] /\ \A g \in Handlers : ConnKnows(conn'[g])
  <2> SUFFICES ASSUME conn' = Unserved(c), NEW g \in Handlers
               PROVE  conn'[g] \in Conn /\ ConnKnows(conn'[g])
    BY DEF Unserved
  <2>1. conn[g] \in Conn /\ ConnKnows(conn[g])
    BY DEF TypeOK
  <2>2. [conn[g] EXCEPT !.up = FALSE] \in Conn
        /\ ConnKnows([conn[g] EXCEPT !.up = FALSE])
    BY <2>1 DEF Conn, ConnKnows
  <2>3. conn'[g] \in {conn[g], [conn[g] EXCEPT !.up = FALSE]}
    BY DEF Unserved
  <2> QED
    BY <2>1, <2>2, <2>3
<1>3. CASE SlaveCrashes(c)
  <2>1. slave' \in [Comps -> SlaveRecord]
    BY <1>3, ResetTypes DEF SlaveCrashes, TypeOK
  <2> QED
    BY <1>2, <1>3, <2>1, LessDisturb DEF SlaveCrashes, TypeOK
<1>4. ASSUME CleanOut(c), disturb' \in 0 .. MaxDisturb PROVE TypeOK'
  <2>1. slave' \in [Comps -> SlaveRecord] /\ comp' \in [Comps -> CompRecord]
    BY <1>4, ResetTypes DEF CleanOut, TypeOK
  <2>2. fin' \subseteq TaskReport
    <3>1. \A t \in Tasks : Report(c, t, "killed") \in TaskReport
      BY DEF Report, TaskReport, TypeOK, SlaveRecord, Task, Exits
    <3> QED
      BY <1>4, <3>1 DEF CleanOut, TypeOK
  <2> QED
    BY <1>2, <1>4, <2>1, <2>2 DEF CleanOut, TypeOK
<1>5. CASE SlaveExits(c)
  BY <1>4, <1>5, LessDisturb DEF SlaveExits
<1>6. CASE SlaveRejected(c)
  BY <1>4, <1>6 DEF SlaveRejected, TypeOK
<1>7. CASE SlaveStarts(c)
  <2>1. slave' \in [Comps -> SlaveRecord]
    BY <1>7 DEF SlaveStarts, TypeOK, SlaveRecord
  <2>2. [CompInit EXCEPT !.used = TRUE] \in CompRecord
    BY ResetTypes DEF CompRecord
  <2>3. comp' \in [Comps -> CompRecord]
    BY <1>7, <2>2 DEF SlaveStarts, TypeOK
  <2> QED
    BY <1>7, <2>1, <2>3 DEF SlaveStarts, TypeOK
<1>8. CASE SendStatus(c)
  <2>1. ucs' \in [Comps -> Status]
    BY <1>8 DEF SendStatus, TypeOK, Status, SlaveRecord
  <2> QED
    BY <1>8, <2>1 DEF SendStatus, TypeOK
<1>9. CASE StoreStatus(c)
  <2>1. comp' \in [Comps -> CompRecord]
    BY <1>9 DEF StoreStatus, TypeOK, Status, CompRecord
  <2> QED
    BY <1>9, <2>1, ResetTypes DEF StoreStatus, TypeOK
<1>10. CASE StatusLost(c)
  BY <1>10, ResetTypes, LessDisturb DEF StatusLost, TypeOK
<1>11. CASE ExpireComputer(c)
  <2>1. disturb' \in 0 .. MaxDisturb
    BY <1>11, LessDisturb DEF ExpireComputer, TypeOK
  <2>2. comp' \in [Comps -> CompRecord]
    BY <1>11, ResetTypes DEF ExpireComputer, TypeOK
  <2> QED
    BY <1>11, <2>1, <2>2 DEF ExpireComputer, TypeOK
<1> QED
  BY <1>1, <1>3, <1>5, <1>6, <1>7, <1>8, <1>9, <1>10, <1>11
     DEF SlaveStep, SlaveFault

LEMMA TaskStepTypes ==
  ASSUME TypeOK, NEW c \in Comps, NEW t \in Tasks, TaskStep(c, t)
  PROVE  TypeOK'
<1>1. ASSUME NEW exit \in Exits, TaskEnds(c, t, exit),
             kills' \subseteq kills, disturb' \in 0 .. MaxDisturb
      PROVE  TypeOK'
  <2>1. slave[c].task[t] \in Task
    BY DEF TypeOK, SlaveRecord
  <2>2. [slave[c].task[t] EXCEPT !.used = FALSE, !.busy = FALSE] \in Task
    BY <2>1 DEF Task
  <2>3. slave' \in [Comps -> SlaveRecord]
    BY <1>1, <2>2 DEF TaskEnds, TypeOK, SlaveRecord
  <2>4. Report(c, t, exit) \in TaskReport
    BY <2>1 DEF Report, TaskReport, Task
  <2> QED
    BY <1>1, <2>3, <2>4 DEF TaskEnds, TypeOK
<1>2. CASE TaskExits(c, t)
  BY <1>1, <1>2 DEF TaskExits, TypeOK, Exits
<1>3. CASE TaskCrashes(c, t)
  BY <1>1, <1>3, LessDisturb DEF TaskCrashes, Exits
<1>4. CASE KillArrives(c, t)
  <2>1. kills' \subseteq kills /\ disturb' \in 0 .. MaxDisturb
    BY <1>4 DEF KillArrives, TypeOK
  <2>2. CASE TaskEnds(c, t, "killed")
    BY <1>1, <2>1, <2>2 DEF Exits
  <2>3. CASE ~TaskEnds(c, t, "killed")
    BY <1>4, <2>1, <2>3 DEF KillArrives, TypeOK
  <2> QED
    BY <2>2, <2>3
<1> QED
  BY <1>2, <1>3, <1>4 DEF TaskStep

LEMMA ReportTypes == TypeOK /\ ReportStep => TypeOK'
<1> SUFFICES ASSUME TypeOK, NEW r \in fin, TaskFinished(r) \/ ReportLost(r)
             PROVE  TypeOK'
  BY DEF ReportStep
<1>1. CASE TaskFinished(r)
  <2> DEFINE j == r.job  f == r.frame  jb == job[j]
             fr == FinishedFrame(jb.fi[f], r.exit, jb.sub \in AutoRequeue)
             new == [jb EXCEPT !.nprocs = OneLess(jb.nprocs), !.fi[f] = fr]
  <2>1. r \in TaskReport
    BY DEF TypeOK
  <2>2. ASSUME j \in Jobs PROVE new \in JobRecord
    <3>1. jb \in JobRecord
      BY <2>2 DEF TypeOK
    <3>2. jb.fi[f] \in FrameInfo /\ OneLess(jb.nprocs) \in Nat
      BY <2>1, <3>1 DEF JobRecord, TaskReport, OneLess
    <3>3. fr \in FrameInfo
      <4>1. r.exit \in Exits /\ "WAITING" \in FrameStatus
        BY <2>1 DEF TaskReport, FrameStatus
      <4> QED
        BY <3>2, <4>1, FrameTypes
    <3> HIDE DEF fr
    <3> QED
      BY <2>1, <3>1, <3>2, <3>3 DEF JobRecord, TaskReport
  <2>3. job' = IF j \in Jobs /\ jb.used /\ r.name = JobName(jb)
                 THEN [job EXCEPT ![j] = IF Attached(jb) THEN new ELSE JobInit]
                 ELSE job
    BY <1>1 DEF TaskFinished, JobReported, TypeOK
  <2> HIDE DEF new
  <2>4. job' \in [Jobs -> JobRecord]
    BY <2>2, <2>3, JobInitType, OneJob DEF TypeOK
  <2> QED
    BY <1>1, <2>4 DEF TaskFinished, TypeOK
<1>2. CASE ReportLost(r)
  BY <1>2, LessDisturb DEF ReportLost, TypeOK
<1> QED
  BY <1>1, <1>2
LEMMA KilledType ==
  ASSUME NEW jb \in JobRecord, NEW fs \in SUBSET Frames
  PROVE  Killed(jb, fs) \subseteq (Comps \cup {NoComp}) \X Tasks
BY DEF Killed, JobRecord, FrameInfo

LEMMA RequestTypes ==
  ASSUME TypeOK, NEW op, NEW j \in Jobs, NEW new \in JobRecord,
         NEW killed \in SUBSET ((Comps \cup {NoComp}) \X Tasks)
  PROVE  /\ Request(op, j, new, killed) => TypeOK'
         /\ JobRequest(op, j, new, killed) => TypeOK'
<1>1. ASSUME NEW nw \in JobRecord,
             NEW kl \in SUBSET ((Comps \cup {NoComp}) \X Tasks),
             Request(op, j, nw, kl)
      PROVE  TypeOK'
  <2>1. job' \in [Jobs -> JobRecord]
    BY <1>1, OneJob DEF Request
  <2> QED
    BY <1>1, <2>1, LessDisturb DEF Request, TypeOK
<1> QED
  BY <1>1, JobInitType DEF JobRequest

LEMMA UserTypes == ASSUME TypeOK, NEW j \in Jobs, UserRequest(j) PROVE TypeOK'
<1> DEFINE jb == job[j]
<1>1. jb \in JobRecord
  BY DEF TypeOK
<1>2. Killed(jb, Frames) \in SUBSET ((Comps \cup {NoComp}) \X Tasks)
  BY <1>1, KilledType
<1>3. 0 \in Nat /\ 0 \in Frames
  BY SizesAssumption DEF Frames
<1>4. JobStop(jb) \in JobRecord /\ JobContinue(jb) \in JobRecord
  <2>1. jb.fi[0] \in FrameInfo
    BY <1>1, <1>3 DEF JobRecord
  <2> QED
    BY <1>1, <1>3, <2>1, JobTypes
<1>5. CASE StopJob(j) \/ ContinueJob(j)
  BY <1>4, <1>5, RequestTypes DEF StopJob, ContinueJob
<1>6. CASE HardStopJob(j)
  BY <1>2, <1>4, <1>6, RequestTypes DEF HardStopJob
<1>7. CASE RerunJob(j)
  <2> DEFINE nfi == [f \in Frames |-> IF jb.fi[f].status = "ASSIGNED"
                                        THEN jb.fi[f] ELSE Requeue(jb.fi[f])]
  <2>1. nfi \in [Frames -> FrameInfo]
    <3> SUFFICES ASSUME NEW f \in Frames
                 PROVE  jb.fi[f] \in FrameInfo /\ Requeue(jb.fi[f]) \in FrameInfo
      OBVIOUS
    <3>1. jb.fi[f] \in FrameInfo
      BY <1>1 DEF JobRecord
    <3> QED
      BY <3>1, FrameTypes DEF FrameStatus, Exits
  <2>2. RerunJob(j) = JobRequest("RERUNJOB", j, [jb EXCEPT !.fi = nfi],
                                 Killed(jb, Frames))
    BY <1>1 DEF RerunJob, JobRecord
  <2> HIDE DEF nfi
  <2>3. [jb EXCEPT !.fi = nfi] \in JobRecord
    BY <1>1, <2>1 DEF JobRecord
  <2> QED
    BY <1>2, <1>7, <2>2, <2>3, RequestTypes
<1>8. CASE DeleteJob(j)
  BY <1>2, <1>8, JobInitType, RequestTypes DEF DeleteJob
(* A request on one frame replaces its record.                             *)
<1>9. ASSUME NEW op, NEW f \in Frames, NEW fr \in FrameInfo,
             NEW killed \in {{}, Killed(jb, {f})},
             FrameRequest(op, j, f, fr, killed)
      PROVE  TypeOK'
  <2>1. [jb EXCEPT !.fi[f] = fr] \in JobRecord
    BY <1>1, <1>3, JobTypes
  <2>2. killed \in SUBSET ((Comps \cup {NoComp}) \X Tasks)
    BY <1>1, KilledType
  <2> QED
    BY <1>9, <2>1, <2>2, RequestTypes DEF FrameRequest
<1>10. ASSUME NEW f \in Frames,
              \/ FrameWaiting(j, f) \/ FrameKill(j, f) \/ FrameFinish(j, f)
              \/ FrameKillFinish(j, f) \/ FrameResetRequeued(j, f)
       PROVE  TypeOK'
  <2> DEFINE fr == jb.fi[f]
  <2>1. fr \in FrameInfo
    BY <1>1 DEF JobRecord
  <2>2. /\ Requeue(fr) \in FrameInfo
        /\ Settle(fr, "FINISHED") \in FrameInfo
        /\ [fr EXCEPT !.requeue = TRUE] \in FrameInfo
        /\ [fr EXCEPT !.requeued = 0] \in FrameInfo
    BY <2>1, FrameTypes DEF FrameStatus, Exits
  <2>3. CASE FrameWaiting(j, f)
    BY <1>9, <2>1, <2>2, <2>3 DEF FrameWaiting
  <2>4. CASE FrameKill(j, f)
    BY <1>9, <2>1, <2>4 DEF FrameKill
  <2>5. CASE FrameFinish(j, f)
    BY <1>9, <2>1, <2>2, <2>5 DEF FrameFinish
  <2>6. CASE FrameKillFinish(j, f)
    BY <1>9, <2>1, <2>2, <2>6 DEF FrameKillFinish
  <2>7. CASE FrameResetRequeued(j, f)
    BY <1>9, <2>2, <2>7 DEF FrameResetRequeued
  <2> QED
    BY <1>10, <2>3, <2>4, <2>5, <2>6, <2>7
<1> QED
  BY <1>5, <1>6, <1>7, <1>8, <1>10 DEF UserRequest

LEMMA CheckTypes == ASSUME TypeOK, Check PROVE TypeOK'
<1>1. /\ chk \in ChkRecord /\ chk.j \in Jobs /\ chk.i \in 0 .. NFrames
      /\ chk.snap \in [Frames -> FrameInfo]
  BY DEF TypeOK, ChkRecord
<1>2. NJobs \in Nat \ {0} /\ NFrames \in Nat \ {0}
  BY SizesAssumption
<1>3. NextCheck \in ChkRecord
  <2>1. (chk.j + 1) % NJobs \in 0 .. NJobs - 1
    BY <1>1, <1>2 DEF Jobs
  <2> QED
    BY <2>1, ResetTypes DEF NextCheck, ChkRecord, Jobs
<1>4. job[chk.j] \in JobRecord
  BY <1>1 DEF TypeOK
<1>5. CASE CheckJob
  <2>1. job[chk.j].fi \in [Frames -> FrameInfo] /\ 0 \in 0 .. NFrames
    BY <1>2, <1>4 DEF JobRecord
  <2>2. chk' \in ChkRecord
    BY <1>1, <1>3, <1>5, <2>1 DEF CheckJob, ChkRecord
  <2> QED
    BY <1>5, <2>2 DEF CheckJob, TypeOK
<1>6. CASE CheckFrame
  <2>1. chk.i \in Frames /\ chk.i + 1 \in 0 .. NFrames
    BY <1>1, <1>2, <1>6 DEF CheckFrame, Frames
  <2>2. chk' \in ChkRecord
    BY <1>1, <1>3, <1>6, <2>1 DEF CheckFrame, ChkRecord
  <2> DEFINE fr == Requeue(job[chk.j].fi[chk.i])
             new == [job[chk.j] EXCEPT !.fi[chk.i] = fr]
  <2>3. job[chk.j].fi[chk.i] \in FrameInfo
    BY <1>4, <2>1 DEF JobRecord
  <2>4. fr \in FrameInfo
    BY <2>3, FrameTypes DEF FrameStatus, Exits
  <2>5. new \in JobRecord
    BY <1>4, <2>1, <2>4 DEF JobRecord
  <2>6. job' \in {job, [job EXCEPT ![chk.j] = new]}
    BY <1>6 DEF CheckFrame
  <2> HIDE DEF new
  <2>7. job' \in [Jobs -> JobRecord]
    BY <1>1, <2>5, <2>6, OneJob DEF TypeOK
  <2> QED
    BY <1>6, <2>2, <2>7 DEF CheckFrame, TypeOK
<1>7. CASE CheckDone
  <2>1. \A st : Count(chk.snap, st) \in Nat
    <3> SUFFICES ASSUME NEW st
                 PROVE  Cardinality({f \in Frames : chk.snap[f].status = st}) \in Nat
      BY DEF Count
    <3>1. IsFiniteSet(Frames)
      BY <1>2, FS_Interval DEF Frames
    <3> QED
      BY <3>1, FS_Subset, FS_CardinalityType
  <2> DEFINE n == Count(chk.snap, "ASSIGNED")  m == Count(chk.snap, "WAITING")
  <2>2. JobSettled(job[chk.j], n, m) \in JobRecord
    <3>1. 0 \in Frames /\ job[chk.j].fi[0] \in FrameInfo
      BY <1>2, <1>4 DEF Frames, JobRecord
    <3>2. n \in Nat /\ m \in Nat
      BY <2>1
    <3> HIDE DEF n, m
    <3> QED
      BY <1>4, <3>1, <3>2, JobTypes
  <2>3. job' \in [Jobs -> JobRecord]
    BY <1>1, <1>7, <2>2, OneJob DEF CheckDone, TypeOK
  <2> QED
    BY <1>3, <1>7, <2>3 DEF CheckDone, TypeOK
<1> QED
  BY <1>5, <1>6, <1>7 DEF Check

(* The shared memory, the processes and the messages keep their types.     *)
THEOREM TypeCorrect == Spec => []TypeOK
<1>1. TypeOK /\ [Next]_vars => TypeOK'
  <2> SUFFICES ASSUME TypeOK, [Next]_vars PROVE TypeOK'
    OBVIOUS
  <2>1. CASE UNCHANGED vars
    BY <2>1 DEF vars, TypeOK
  <2>2. CASE Next
    BY <2>2, RegistrationTypes, HandlerTypes, SlaveTypes, TaskStepTypes,
       ReportTypes, UserTypes, CheckTypes DEF Next
  <2> QED
    BY <2>1, <2>2
<1> QED
  BY TypeInit, <1>1, PTL DEF Spec
-----------------------------------------------------------------------------
(* Task slots reserved in the slaves.                                      *)

SlotHeld(h, c, t) ==
  conn[h].pc \in {"confirmed", "send"} /\ conn[h].up /\ conn[h].c = c /\ conn[h].t = t

Unstarted(c, t) == slave[c].task[t].used /\ ~slave[c].run[t]

LEMMA SlotInit == Init => ReservedSlotHasConnection
BY DEF Init, ReservedSlotHasConnection, SlaveDown, TaskInit

(* Steps that leave the slaves and the connections alone.                  *)
LEMMA SlotQuiet ==
  ASSUME ReservedSlotHasConnection, UNCHANGED <<slave, conn>>
  PROVE  ReservedSlotHasConnection'
BY DEF ReservedSlotHasConnection

(* A handler whose slot is not reserved any more, or whose connection goes *)
(* on holding it, takes nothing from the other slots.                      *)
LEMMA SlotHandler ==
  ASSUME TypeOK, ReservedSlotHasConnection, NEW h \in Handlers,
         \A g \in Handlers \ {h} : conn'[g] = conn[g],
         \A c \in Comps, t \in Tasks :
            Unstarted(c, t)' => SlotHeld(h, c, t)'
                               \/ (Unstarted(c, t) /\ ~SlotHeld(h, c, t))
  PROVE  ReservedSlotHasConnection'
<1> SUFFICES ASSUME NEW c \in Comps, NEW t \in Tasks, Unstarted(c, t)'
             PROVE  \E g \in Handlers : SlotHeld(g, c, t)'
  BY DEF ReservedSlotHasConnection, SlotHeld, Unstarted
<1>1. CASE SlotHeld(h, c, t)'
  BY <1>1
<1>2. CASE Unstarted(c, t) /\ ~SlotHeld(h, c, t)
  <2>1. PICK g \in Handlers : SlotHeld(g, c, t)
    BY <1>2 DEF ReservedSlotHasConnection, SlotHeld, Unstarted
  <2> QED
    BY <1>2, <2>1 DEF SlotHeld
<1> QED
  BY <1>1, <1>2

LEMMA SlotHandlerStep ==
  ASSUME TypeOK, ReservedSlotHasConnection, NEW h \in Handlers,
         HandlerStep(h) \/ HandlerFault(h)
  PROVE  ReservedSlotHasConnection'
<1> DEFINE cn == conn[h]
<1>0. cn \in Conn /\ ConnKnows(cn) /\ conn \in [Handlers -> Conn]
  BY DEF TypeOK
<1>1. ASSUME UNCHANGED slave, cn.pc \notin {"confirmed", "send"} \/ ~cn.up,
             \A g \in Handlers \ {h} : conn'[g] = conn[g]
      PROVE  ReservedSlotHasConnection'
  BY <1>1, SlotHandler DEF SlotHeld, Unstarted
<1>2. ASSUME NEW j \in Jobs, Reserve(h, j) \/ SkipJob(h, j)
      PROVE  ReservedSlotHasConnection'
  BY <1>0, <1>1, <1>2 DEF Reserve, SkipJob
<1>3. CASE NoAvailableJob(h)
  BY <1>0, <1>1, <1>3 DEF NoAvailableJob
<1>4. ASSUME NEW t \in Tasks, Confirm(h, t)
      PROVE  ReservedSlotHasConnection'
  <2>1. cn.c \in Comps /\ cn.up /\ cn.pc = "offered"
    BY <1>0, <1>4 DEF Confirm, ConnKnows
  <2>2. \A g \in Handlers \ {h} : conn'[g] = conn[g]
    BY <1>0, <1>4 DEF Confirm
  <2>3. \A d \in Comps : d = cn.c => SlotHeld(h, d, t)'
    BY <1>0, <1>4, <2>1 DEF Confirm, SlotHeld, Conn
  <2>4. ASSUME NEW d \in Comps, NEW u \in Tasks, <<d, u>> # <<cn.c, t>>
        PROVE  slave'[d].task[u] = slave[d].task[u] /\ slave'[d].run[u] = slave[d].run[u]
    BY <1>4, <2>1, <2>4 DEF Confirm, TypeOK, SlaveRecord
  <2>5. ~\E d \in Comps, u \in Tasks : SlotHeld(h, d, u)
    BY <2>1 DEF SlotHeld
  <2>6. ASSUME NEW d \in Comps, NEW u \in Tasks, Unstarted(d, u)'
        PROVE  SlotHeld(h, d, u)' \/ (Unstarted(d, u) /\ ~SlotHeld(h, d, u))
    <3>1. CASE d = cn.c /\ u = t
      BY <2>3, <3>1
    <3>2. CASE <<d, u>> # <<cn.c, t>>
      BY <2>4, <2>5, <2>6, <3>2 DEF Unstarted
    <3> QED
      BY <3>1, <3>2
  <2> QED
    BY <2>2, <2>6, SlotHandler
<1>5. CASE GiveUp(h)
  BY <1>0, <1>1, <1>5 DEF GiveUp
<1>6. CASE Assign(h)
  <2>1. \A g \in Handlers \ {h} : conn'[g] = conn[g]
    BY <1>0, <1>6 DEF Assign
  <2>2. \A d \in Comps, u \in Tasks : SlotHeld(h, d, u) => SlotHeld(h, d, u)'
    BY <1>0, <1>6 DEF Assign, SlotHeld, Conn
  <2>3. ASSUME NEW d \in Comps, NEW u \in Tasks, Unstarted(d, u)'
        PROVE  SlotHeld(h, d, u)' \/ (Unstarted(d, u) /\ ~SlotHeld(h, d, u))
    <3>1. Unstarted(d, u)
      BY <1>6, <2>3 DEF Assign, Unstarted
    <3> QED
      BY <2>2, <3>1
  <2> QED
    BY <2>1, <2>3, SlotHandler
<1>7. CASE SendTask(h)
  <2>1. cn.c \in Comps /\ cn.t \in Tasks
    BY <1>0, <1>7 DEF SendTask, ConnKnows
  <2>2. \A g \in Handlers \ {h} : conn'[g] = conn[g]
    BY <1>0, <1>7 DEF SendTask
  <2>3. slave'[cn.c].run[cn.t]
    BY <1>7, <2>1 DEF SendTask, TypeOK, SlaveRecord
  <2>4. ASSUME NEW d \in Comps, NEW u \in Tasks, <<d, u>> # <<cn.c, cn.t>>
        PROVE  slave'[d].task[u] = slave[d].task[u] /\ slave'[d].run[u] = slave[d].run[u]
    BY <1>7, <2>1, <2>4 DEF SendTask, TypeOK, SlaveRecord
  <2>5. \A d \in Comps, u \in Tasks : Unstarted(d, u)' => Unstarted(d, u) /\ ~SlotHeld(h, d, u)
    BY <2>3, <2>4 DEF Unstarted, SlotHeld
  <2> QED
    BY <2>2, <2>5, SlotHandler
<1>8. CASE SendTaskFails(h)
  BY <1>0, <1>1, <1>8 DEF SendTaskFails
(* The slave clears the slot when the connection is lost.                  *)
<1>9. ASSUME slave' = SlotCleared(h), \A g \in Handlers \ {h} : conn'[g] = conn[g]
      PROVE  ReservedSlotHasConnection'
  <2>1. CASE cn.up /\ cn.pc \in {"confirmed", "send"}
    <3>1. cn.c \in Comps /\ cn.t \in Tasks
      BY <1>0, <2>1 DEF ConnKnows
    <3>2. ~slave'[cn.c].task[cn.t].used
      BY <1>9, <2>1, <3>1 DEF SlotCleared, TypeOK, SlaveRecord, TaskInit
    <3>3. ASSUME NEW d \in Comps, NEW u \in Tasks, <<d, u>> # <<cn.c, cn.t>>
          PROVE  slave'[d].task[u] = slave[d].task[u] /\ slave'[d].run[u] = slave[d].run[u]
      BY <1>9, <2>1, <3>1, <3>3 DEF SlotCleared, TypeOK, SlaveRecord
    <3>4. \A d \in Comps, u \in Tasks :
            Unstarted(d, u)' => Unstarted(d, u) /\ ~SlotHeld(h, d, u)
      BY <3>2, <3>3 DEF Unstarted, SlotHeld
    <3> QED
      BY <1>9, <3>4, SlotHandler
  <2>2. CASE ~(cn.up /\ cn.pc \in {"confirmed", "send"})
    BY <1>1, <1>9, <2>2 DEF SlotCleared
  <2> QED
    BY <2>1, <2>2
<1>10. CASE HandlerFault(h)
  BY <1>0, <1>9, <1>10 DEF HandlerFault, HandlerDies, LinkBreaks
<1> QED
  BY <1>2, <1>3, <1>4, <1>5, <1>6, <1>7, <1>8, <1>10 DEF HandlerStep

(* A slave that goes down takes its reserved slots with it.                *)
LEMMA SlotDown ==
  ASSUME TypeOK, ReservedSlotHasConnection, NEW c \in Comps,
         slave' = [slave EXCEPT ![c] = SlaveDown], conn' = Unserved(c)
  PROVE  ReservedSlotHasConnection'
<1> SUFFICES ASSUME NEW d \in Comps, NEW t \in Tasks, Unstarted(d, t)'
             PROVE  \E g \in Handlers : SlotHeld(g, d, t)'
  BY DEF ReservedSlotHasConnection, SlotHeld, Unstarted
<1>1. d # c
  BY DEF TypeOK, Unstarted, SlaveDown, TaskInit
<1>2. Unstarted(d, t)
  BY <1>1 DEF TypeOK, Unstarted
<1>3. PICK g \in Handlers : SlotHeld(g, d, t)
  BY <1>2 DEF ReservedSlotHasConnection, SlotHeld, Unstarted
<1>4. conn'[g] = conn[g]
  BY <1>1, <1>3 DEF Unserved, SlotHeld
<1> QED
  BY <1>3, <1>4 DEF SlotHeld

LEMMA SlotSlave ==
  ASSUME TypeOK, ReservedSlotHasConnection, NEW c \in Comps,
         SlaveStep(c) \/ SlaveFault(c)
  PROVE  ReservedSlotHasConnection'
<1>1. ASSUME NEW h \in Handlers, Ask(c, h)
      PROVE  ReservedSlotHasConnection'
  <2>1. \A g \in Handlers \ {h} : conn'[g] = conn[g]
    BY <1>1 DEF Ask, TypeOK
  <2>2. \A d \in Comps, u \in Tasks :
          Unstarted(d, u)' => Unstarted(d, u) /\ ~SlotHeld(h, d, u)
    BY <1>1 DEF Ask, Unstarted, SlotHeld
  <2> QED
    BY <2>1, <2>2, SlotHandler
<1>2. CASE CleanOut(c)
  BY <1>2, SlotDown DEF CleanOut
<1>3. CASE SlaveCrashes(c)
  BY <1>3, SlotDown DEF SlaveCrashes
(* A starting slave keeps the empty table it was left with.                *)
<1>4. CASE SlaveStarts(c)
  <2>1. \A d \in Comps : /\ slave'[d].task = slave[d].task
                         /\ slave'[d].run = slave[d].run
    BY <1>4 DEF SlaveStarts, TypeOK, SlaveRecord
  <2> QED
    BY <1>4, <2>1 DEF SlaveStarts, ReservedSlotHasConnection
<1>5. CASE SendStatus(c) \/ StoreStatus(c) \/ StatusLost(c)
  BY <1>5, SlotQuiet DEF SendStatus, StoreStatus, StatusLost
<1> QED
  BY <1>1, <1>2, <1>3, <1>4, <1>5
  DEF SlaveStep, SlaveFault, SlaveExits, SlaveRejected

LEMMA SlotTask ==
  ASSUME TypeOK, ReservedSlotHasConnection, NEW c \in Comps, NEW t \in Tasks,
         TaskStep(c, t)
  PROVE  ReservedSlotHasConnection'
<1>1. ASSUME NEW exit, TaskEnds(c, t, exit), UNCHANGED conn
      PROVE  ReservedSlotHasConnection'
  <2>1. \A d \in Comps, u \in Tasks : Unstarted(d, u)' => Unstarted(d, u)
    <3> SUFFICES ASSUME NEW d \in Comps, NEW u \in Tasks, Unstarted(d, u)'
                 PROVE  Unstarted(d, u)
      OBVIOUS
    <3>1. CASE d = c /\ u = t
      BY <1>1, <3>1 DEF TaskEnds, Unstarted, TypeOK, SlaveRecord, Task
    <3>2. CASE ~(d = c /\ u = t)
      BY <1>1, <3>2 DEF TaskEnds, Unstarted, TypeOK, SlaveRecord
    <3> QED
      BY <3>1, <3>2
  <2> QED
    BY <1>1, <2>1 DEF ReservedSlotHasConnection, Unstarted
<1>2. CASE TaskExits(c, t) \/ TaskCrashes(c, t)
  BY <1>1, <1>2 DEF TaskExits, TaskCrashes, TaskEnds
<1>3. CASE KillArrives(c, t)
  BY <1>1, <1>3, SlotQuiet DEF KillArrives, TaskEnds
<1> QED
  BY <1>2, <1>3 DEF TaskStep

(* Registrations, reports, users and the checks look at no slave.          *)
LEMMA SlotOthers ==
  ASSUME Registration \/ ReportStep \/ Check
         \/ (\E c \in Comps : ExpireComputer(c)) \/ (\E j \in Jobs : UserRequest(j))
  PROVE  UNCHANGED <<slave, conn>>
<1>1. CASE Registration
  BY <1>1 DEF Registration, RegisterReserve, RegisterDone, RegisterFails
<1>2. CASE ReportStep
  BY <1>2 DEF ReportStep, TaskFinished, ReportLost
<1>3. CASE Check
  BY <1>3 DEF Check, CheckJob, CheckFrame, CheckDone
<1>4. CASE \E c \in Comps : ExpireComputer(c)
  BY <1>4 DEF ExpireComputer
<1>5. ASSUME NEW op, NEW j \in Jobs, NEW new, NEW killed, Request(op, j, new, killed)
      PROVE  UNCHANGED <<slave, conn>>
  BY <1>5 DEF Request
<1>6. ASSUME NEW j \in Jobs, UserRequest(j)
      PROVE  UNCHANGED <<slave, conn>>
  BY <1>6 DEF UserRequest, StopJob, ContinueJob, HardStopJob, RerunJob,
     DeleteJob, FrameWaiting, FrameKill, FrameFinish, FrameKillFinish,
     FrameResetRequeued, FrameRequest, JobRequest, Request
<1> QED
  BY <1>1, <1>2, <1>3, <1>4, <1>6

(* A reserved task slot of a slave has its connection, whatever faults and *)
(* requests: each way a request for a frame can end clears the slot.       *)
THEOREM SlotsHeld == Spec => []ReservedSlotHasConnection
<1>1. TypeOK /\ ReservedSlotHasConnection /\ [Next]_vars => ReservedSlotHasConnection'
  <2> SUFFICES ASSUME TypeOK, ReservedSlotHasConnection, [Next]_vars
               PROVE  ReservedSlotHasConnection'
    OBVIOUS
  <2>1. CASE UNCHANGED vars
    BY <2>1, SlotQuiet DEF vars
  <2>2. CASE Registration \/ ReportStep \/ Check
             \/ (\E c \in Comps : ExpireComputer(c)) \/ (\E j \in Jobs : UserRequest(j))
    BY <2>2, SlotOthers, SlotQuiet
  <2> QED
    BY <2>1, <2>2, SlotHandlerStep, SlotSlave, SlotTask DEF Next
<1> QED
  BY TypeCorrect, SlotInit, <1>1, PTL DEF Spec
-----------------------------------------------------------------------------
(* Frames reserved in the jobs.  The invariant is inductive only with the  *)
(* fact that no frame is ASSIGNED in a slot that is free or being          *)
(* registered: job_frame_waiting and job_update_assigned do nothing there, *)
(* so a reservation left in such a slot would never be taken back.         *)

AssignedAreAttached ==
  \A j \in Jobs, f \in Frames :
    job[j].fi[f].status = "ASSIGNED" => Attached(job[j])

RInv == ReservedFrameHasHandler /\ AssignedAreAttached

(* jc has no frame ASSIGNED that jb has not with the same task, and is     *)
(* attached if it has one.                                                 *)
NoneAssigned(jb, jc) ==
  \A f \in Frames : jc.fi[f].status = "ASSIGNED" =>
    /\ jb.fi[f].status = "ASSIGNED" /\ jb.fi[f].itask = jc.fi[f].itask
    /\ Attached(jb) => Attached(jc)

LEMMA NoneAssignedInit == ASSUME NEW jb PROVE NoneAssigned(jb, JobInit)
BY DEF NoneAssigned, JobInit, FrameInit

LEMMA NoneAssignedFrames ==
  ASSUME NEW jb, NEW jc, jc.used = jb.used, jc.sub = jb.sub,
         \A f \in Frames : jc.fi[f] = jb.fi[f] \/ jc.fi[f].status # "ASSIGNED"
  PROVE  NoneAssigned(jb, jc)
BY DEF NoneAssigned, Attached

LEMMA NoneAssignedFrame ==
  ASSUME NEW jb \in JobRecord, NEW f \in Frames, NEW fr,
         fr.status = "ASSIGNED" => /\ jb.fi[f].status = "ASSIGNED"
                                   /\ jb.fi[f].itask = fr.itask
  PROVE  NoneAssigned(jb, [jb EXCEPT !.fi[f] = fr])
BY DEF NoneAssigned, JobRecord, Attached

LEMMA FrameStatuses ==
  ASSUME NEW fr \in FrameInfo
  PROVE  /\ Requeue(fr).status = "WAITING"
         /\ \A st : Settle(fr, st).status = st
         /\ \A exit \in Exits : \A auto :
              FinishedFrame(fr, exit, auto) = fr
              \/ FinishedFrame(fr, exit, auto).status # "ASSIGNED"
<1>1. \A st : Settle(fr, st).status = st
  BY DEF Settle, FrameInfo
<1>2. Requeue(fr).status = "WAITING"
  BY DEF Requeue, Settle, FrameInfo
<1> QED
  BY <1>1, <1>2 DEF FinishedFrame, Exits

(* The reserved frames of a state still have their handlers in the next,   *)
(* if nobody lets go of one that is left.                                  *)
LEMMA ReservedKept ==
  ASSUME RInv,
         \A j \in Jobs, f \in Frames : Reserved(job[j].fi[f])' =>
            \/ \E h \in Handlers : Holds(h, j, f)'
            \/ /\ Reserved(job[j].fi[f])
               /\ \A h \in Handlers : Holds(h, j, f) => Holds(h, j, f)',
         AssignedAreAttached'
  PROVE  RInv'
<1> SUFFICES ASSUME NEW j \in Jobs, NEW f \in Frames, Reserved(job[j].fi[f])'
             PROVE  \E h \in Handlers : Holds(h, j, f)'
  BY DEF RInv, ReservedFrameHasHandler
<1>1. CASE Reserved(job[j].fi[f]) /\ \A h \in Handlers : Holds(h, j, f) => Holds(h, j, f)'
  BY <1>1 DEF RInv, ReservedFrameHasHandler
<1> QED
  BY <1>1

(* One job changes and no handler lets go.                                 *)
LEMMA ReservedJob ==
  ASSUME TypeOK, RInv, NEW j \in Jobs, NEW jc,
         job' \in {job, [job EXCEPT ![j] = jc]}, NoneAssigned(job[j], jc),
         \A h \in Handlers, k \in Jobs, f \in Frames :
            Holds(h, k, f) /\ Reserved(job[k].fi[f])' => Holds(h, k, f)'
  PROVE  RInv'
<1>1. \A k \in Jobs : NoneAssigned(job[k], job'[k])
  <2> SUFFICES ASSUME NEW k \in Jobs PROVE NoneAssigned(job[k], job'[k])
    OBVIOUS
  <2>1. job'[k] = job[k] \/ (k = j /\ job'[k] = jc)
    BY DEF TypeOK
  <2> QED
    BY <2>1 DEF NoneAssigned
<1>2. AssignedAreAttached'
  BY <1>1 DEF RInv, AssignedAreAttached, NoneAssigned
<1>3. \A k \in Jobs, f \in Frames : Reserved(job[k].fi[f])' => Reserved(job[k].fi[f])
  BY <1>1 DEF Reserved, NoneAssigned
<1> QED
  BY <1>2, <1>3, ReservedKept

LEMMA ReservedQuiet ==
  ASSUME RInv, UNCHANGED job,
         \A h \in Handlers, k \in Jobs, f \in Frames : Holds(h, k, f) => Holds(h, k, f)'
  PROVE  RInv'
<1>1. AssignedAreAttached'
  BY DEF RInv, AssignedAreAttached
<1> QED
  BY <1>1, ReservedKept DEF Reserved

LEMMA ReservedInit == Init => RInv
BY DEF Init, RInv, ReservedFrameHasHandler, AssignedAreAttached, Reserved,
   JobInit, FrameInit

LEMMA ReservedRegistration ==
  ASSUME TypeOK, RInv, Registration
  PROVE  RInv'
<1>1. ASSUME NEW s \in Subs, RegisterReserve(s)
      PROVE  RInv'
  <2>1. PICK j \in Jobs : /\ ~job[j].used
                          /\ job' = [job EXCEPT ![j].used = TRUE]
    BY <1>1 DEF RegisterReserve, JobIndexFree
  <2>2. \A f \in Frames : job[j].fi[f].status # "ASSIGNED"
    BY <2>1 DEF RInv, AssignedAreAttached, Attached
  <2> DEFINE jc == [job[j] EXCEPT !.used = TRUE]
  <2>3. NoneAssigned(job[j], jc)
    BY <2>2 DEF NoneAssigned, TypeOK, JobRecord
  <2>4. job' \in {job, [job EXCEPT ![j] = jc]}
    BY <2>1
  <2>5. \A h \in Handlers : \A k, f : Holds(h, k, f) => Holds(h, k, f)'
    BY <1>1 DEF RegisterReserve, Holds
  <2> HIDE DEF jc
  <2> QED
    BY <2>3, <2>4, <2>5, ReservedJob
<1>2. ASSUME NEW s \in Subs, NEW j \in Jobs, RegisterDone(j, s) \/ RegisterFails(j, s)
      PROVE  RInv'
  <2>1. NoneAssigned(job[j], JobRegistered(s)) /\ NoneAssigned(job[j], JobInit)
    BY NoneAssignedInit DEF NoneAssigned, JobRegistered, JobInit, FrameInit
  <2>2. \/ job' \in {job, [job EXCEPT ![j] = JobRegistered(s)]}
        \/ job' = [job EXCEPT ![j] = JobInit]
    BY <1>2 DEF RegisterDone, RegisterFails
  <2>3. UNCHANGED conn
    BY <1>2 DEF RegisterDone, RegisterFails
  <2> QED
    BY <2>1, <2>2, <2>3, ReservedJob DEF Holds
<1> QED
  BY <1>1, <1>2 DEF Registration

(* The steps of a handler, and its connection breaking: it holds the frame *)
(* from the section that reserves it to the one that assigns it or puts it *)
(* back.                                                                   *)
LEMMA ReservedHandler ==
  ASSUME TypeOK, RInv, NEW h \in Handlers, HandlerStep(h) \/ LinkBreaks(h)
  PROVE  RInv'
<1> DEFINE cn == conn[h]
<1>0. cn \in Conn /\ ConnKnows(cn) /\ conn \in [Handlers -> Conn]
  BY DEF TypeOK
<1>1. ASSUME UNCHANGED job, \A g \in Handlers \ {h} : conn'[g] = conn[g],
             \A k, f : Holds(h, k, f) => Holds(h, k, f)'
      PROVE  RInv'
  BY <1>1, ReservedQuiet DEF Holds
<1>2. ASSUME NEW j \in Jobs, Reserve(h, j)
      PROVE  RInv'
  <2>1. PICK f \in Frames :
          /\ FirstWaiting(job[j], f)
          /\ job' = [job EXCEPT ![j] = JobReserve(@, f, cn.c)]
          /\ conn' = [conn EXCEPT ![h].pc = "offered", ![h].j = j, ![h].f = f,
                                  ![h].left = {}]
    BY <1>2 DEF Reserve
  <2>2. job[j] \in JobRecord /\ job[j].sub # NoSub /\ job[j].used
    BY <1>2 DEF TypeOK, Reserve, JobAvailable, LimitsPassed
  <2>3. Holds(h, j, f)'
    BY <1>0, <2>1 DEF Holds, Conn
  <2>4. /\ \A g \in Frames : g # f => job'[j].fi[g] = job[j].fi[g]
        /\ job'[j].used /\ job'[j].sub # NoSub
        /\ \A k \in Jobs : k # j => job'[k] = job[k]
    BY <2>1, <2>2 DEF JobReserve, JobRecord, TypeOK
  <2>5. AssignedAreAttached'
    BY <2>4 DEF RInv, AssignedAreAttached, Attached
  <2>6. \A g \in Handlers \ {h} : conn'[g] = conn[g]
    BY <1>0, <2>1 DEF TypeOK
  <2>7. \A k, g : ~Holds(h, k, g)
    BY <1>2 DEF Reserve, Holds
  <2>8. ASSUME NEW k \in Jobs, NEW g \in Frames, Reserved(job[k].fi[g])'
        PROVE  \/ \E i \in Handlers : Holds(i, k, g)'
               \/ /\ Reserved(job[k].fi[g])
                  /\ \A i \in Handlers : Holds(i, k, g) => Holds(i, k, g)'
    <3>1. CASE k = j /\ g = f
      BY <2>3, <3>1
    <3>2. CASE ~(k = j /\ g = f)
      BY <2>4, <2>6, <2>7, <2>8, <3>2 DEF Reserved, Holds
    <3> QED
      BY <3>1, <3>2
  <2> QED
    BY <2>5, <2>8, ReservedKept
<1>3. ASSUME NEW j \in Jobs, SkipJob(h, j)
      PROVE  RInv'
  BY <1>0, <1>1, <1>3 DEF SkipJob, Holds
<1>4. CASE NoAvailableJob(h)
  BY <1>0, <1>1, <1>4 DEF NoAvailableJob, Holds
<1>5. ASSUME NEW t \in Tasks, Confirm(h, t)
      PROVE  RInv'
  <2>1. conn'[h] = [cn EXCEPT !.pc = "confirmed", !.t = t]
    BY <1>0, <1>5 DEF Confirm
  <2>2. conn'[h].pc = "confirmed" /\ conn'[h].j = cn.j /\ conn'[h].f = cn.f
    BY <1>0, <2>1 DEF Conn
  <2> QED
    BY <1>0, <1>1, <1>5, <2>2 DEF Confirm, Holds
(* job_frame_waiting leaves the frame without a reservation.               *)
<1>6. ASSUME cn.j \in Jobs, job' = BackToWaiting(cn.j, cn.f) \/ UNCHANGED job,
             job' = BackToWaiting(cn.j, cn.f) \/ cn.pc = "send",
             conn' = [conn EXCEPT ![h] = NoConn]
      PROVE  RInv'
  <2> DEFINE j == cn.j  f == cn.f  jc == JobFrameWaiting(job[j], f)
  <2>1. f \in Frames /\ job[j] \in JobRecord /\ job[j].fi[f] \in FrameInfo
    BY <1>0, <1>6 DEF TypeOK, Conn, JobRecord
  <2>2. jc.fi[f].status = "WAITING"
    BY <2>1, FrameStatuses DEF JobFrameWaiting, JobRecord
  <2>3. jc.used = job[j].used /\ jc.sub = job[j].sub
        /\ \A g \in Frames : g # f => jc.fi[g] = job[j].fi[g]
    BY <2>1 DEF JobFrameWaiting, JobRecord
  <2>4. NoneAssigned(job[j], jc)
    BY <2>2, <2>3, NoneAssignedFrames
  <2>5. job' \in {job, [job EXCEPT ![j] = jc]}
    BY <1>6 DEF BackToWaiting
  <2>6. \A g \in Handlers \ {h} : conn'[g] = conn[g]
    BY <1>0, <1>6 DEF TypeOK
  <2>7. ASSUME NEW k \in Jobs, NEW g \in Frames, Holds(h, k, g)
        PROVE  ~Reserved(job[k].fi[g])'
    <3>1. k = j /\ g = f /\ job' = BackToWaiting(j, f)
      BY <1>6, <2>7 DEF Holds
    <3>2. CASE Attached(job[j])
      <4>1. job'[j] = jc
        BY <1>6, <3>1, <3>2 DEF BackToWaiting, TypeOK
      <4> QED
        BY <2>2, <3>1, <4>1 DEF Reserved
    <3>3. CASE ~Attached(job[j])
      BY <2>1, <3>1, <3>3 DEF BackToWaiting, RInv, AssignedAreAttached, Reserved
    <3> QED
      BY <3>2, <3>3
  <2> HIDE DEF jc
  <2>8. \A g \in Handlers, k \in Jobs, i \in Frames :
          Holds(g, k, i) /\ Reserved(job[k].fi[i])' => Holds(g, k, i)'
    BY <2>6, <2>7 DEF Holds
  <2> QED
    BY <1>6, <2>4, <2>5, <2>8, ReservedJob
<1>7. CASE GiveUp(h)
  BY <1>0, <1>6, <1>7 DEF GiveUp, ConnKnows
<1>8. CASE Assign(h)
  <2> DEFINE j == cn.j  f == cn.f  jc == JobUpdateAssigned(job[j], f, cn.c, cn.t)
  <2>1. /\ j \in Jobs /\ f \in Frames /\ cn.t \in Tasks /\ cn.t # NoTask
        /\ job[j] \in JobRecord /\ job[j].fi[f] \in FrameInfo
    BY <1>0, <1>8, NullsAssumption DEF Assign, ConnKnows, TypeOK, Conn, JobRecord
  <2>2. job' = IF Attached(job[j]) THEN [job EXCEPT ![j] = jc] ELSE job
    BY <1>8 DEF Assign
  <2>3. jc.fi[f].itask # NoTask
    BY <2>1 DEF JobUpdateAssigned, AssignTo, JobRecord, FrameInfo
  <2>4. jc.used = job[j].used /\ jc.sub = job[j].sub
        /\ \A g \in Frames : g # f => jc.fi[g] = job[j].fi[g]
    BY <2>1 DEF JobUpdateAssigned, JobRecord
  <2> HIDE DEF jc
  <2>5. AssignedAreAttached'
    BY <2>1, <2>2, <2>4 DEF RInv, AssignedAreAttached, Attached, TypeOK
  <2>6. \A k \in Jobs, g \in Frames : Reserved(job[k].fi[g])' =>
           Reserved(job[k].fi[g]) /\ ~(k = j /\ g = f)
    <3>1. CASE Attached(job[j])
      BY <2>1, <2>2, <2>3, <2>4, <3>1 DEF Reserved, TypeOK
    <3>2. CASE ~Attached(job[j])
      BY <2>1, <2>2, <3>2 DEF Reserved, RInv, AssignedAreAttached
    <3> QED
      BY <3>1, <3>2
  <2>7. \A g \in Handlers : \A k, i : g # h \/ ~(k = j /\ i = f) =>
           (Holds(g, k, i) => Holds(g, k, i)')
    BY <1>0, <1>8 DEF Assign, Holds
  <2> QED
    BY <2>5, <2>6, <2>7, ReservedKept
<1>9. CASE SendTask(h)
  BY <1>0, <1>1, <1>9 DEF SendTask, Holds
<1>10. CASE SendTaskFails(h)
  BY <1>0, <1>6, <1>10 DEF SendTaskFails, ConnKnows
<1>11. CASE LinkBreaks(h)
  <2>1. conn'[h] = [cn EXCEPT !.up = FALSE]
    BY <1>0, <1>11 DEF LinkBreaks
  <2>2. conn'[h].pc = cn.pc /\ conn'[h].j = cn.j /\ conn'[h].f = cn.f
    BY <1>0, <2>1 DEF Conn
  <2> QED
    BY <1>0, <1>1, <1>11, <2>2 DEF LinkBreaks, Holds
<1> QED
  BY <1>2, <1>3, <1>4, <1>5, <1>7, <1>8, <1>9, <1>10, <1>11 DEF HandlerStep

(* What a slave does ends no request the master has under way: a handler   *)
(* learns of it from its connection.                                       *)
LEMMA ReservedSlave ==
  ASSUME TypeOK, RInv, NEW c \in Comps,
         SlaveStep(c) \/ SlaveFault(c) \/ ExpireComputer(c)
         \/ \E t \in Tasks : TaskStep(c, t)
  PROVE  RInv'
<1>1. ASSUME UNCHANGED <<job, conn>> PROVE RInv'
  BY <1>1, ReservedQuiet DEF Holds
<1>2. ASSUME NEW h \in Handlers, Ask(c, h)
      PROVE  RInv'
  BY <1>2, ReservedQuiet DEF Ask, Holds, TypeOK
<1>3. ASSUME UNCHANGED job, conn' = Unserved(c)
      PROVE  RInv'
  <2>1. ASSUME NEW h \in Handlers
        PROVE  conn'[h].pc = conn[h].pc /\ conn'[h].j = conn[h].j /\ conn'[h].f = conn[h].f
    BY <1>3 DEF Unserved, TypeOK, Conn
  <2> QED
    BY <1>3, <2>1, ReservedQuiet DEF Holds
<1>4. CASE SlaveFault(c)
  BY <1>1, <1>3, <1>4 DEF SlaveFault, SlaveCrashes, SlaveExits, CleanOut, StatusLost
<1>5. CASE SlaveStep(c)
  BY <1>1, <1>2, <1>3, <1>5
  DEF SlaveStep, SlaveRejected, CleanOut, SlaveStarts, SendStatus, StoreStatus
<1>6. CASE ExpireComputer(c)
  BY <1>1, <1>6 DEF ExpireComputer
<1>7. ASSUME NEW t \in Tasks, TaskStep(c, t)
      PROVE  RInv'
  BY <1>1, <1>7 DEF TaskStep, TaskExits, TaskCrashes, KillArrives, TaskEnds
<1> QED
  BY <1>4, <1>5, <1>6, <1>7

(* Steps that change one job and no handler.                               *)
LEMMA ReservedOne ==
  ASSUME TypeOK, RInv, NEW j \in Jobs, NEW jc, UNCHANGED conn,
         job' \in {job, [job EXCEPT ![j] = jc]}, NoneAssigned(job[j], jc)
  PROVE  RInv'
<1>1. \A h \in Handlers : \A k, f : Holds(h, k, f) => Holds(h, k, f)'
  BY DEF Holds
<1> QED
  BY <1>1, ReservedJob

LEMMA ReservedReport == ASSUME TypeOK, RInv, ReportStep PROVE RInv'
<1>1. ASSUME NEW r \in fin, TaskFinished(r), job' # job
      PROVE  RInv'
  <2> DEFINE jb == job[r.job]
             fr == FinishedFrame(jb.fi[r.frame], r.exit, jb.sub \in AutoRequeue)
             jc == [jb EXCEPT !.nprocs = OneLess(@), !.fi[r.frame] = fr]
  <2>1. r.job \in Jobs /\ r.frame \in Frames /\ r.exit \in Exits
    BY <1>1 DEF TaskFinished, TypeOK, TaskReport
  <2>2. jb \in JobRecord /\ jb.fi[r.frame] \in FrameInfo
    BY <2>1 DEF TypeOK, JobRecord
  <2>3. fr = jb.fi[r.frame] \/ fr.status # "ASSIGNED"
    BY <2>1, <2>2, FrameStatuses
  <2> HIDE DEF fr
  <2>4. /\ jc.used = jb.used /\ jc.sub = jb.sub
        /\ \A f \in Frames : jc.fi[f] = jb.fi[f] \/ jc.fi[f].status # "ASSIGNED"
    BY <2>2, <2>3 DEF JobRecord
  <2>5. NoneAssigned(jb, jc)
    BY <2>4, NoneAssignedFrames
  <2>6. \/ job' \in {job, [job EXCEPT ![r.job] = jc]}
        \/ job' \in {job, [job EXCEPT ![r.job] = JobInit]}
    BY <1>1 DEF TaskFinished, JobReported, fr
  <2>7. UNCHANGED conn
    BY <1>1 DEF TaskFinished
  <2> HIDE DEF jc
  <2> QED
    BY <2>1, <2>5, <2>6, <2>7, NoneAssignedInit, ReservedOne
<1>2. ASSUME UNCHANGED <<job, conn>> PROVE RInv'
  BY <1>2, ReservedQuiet DEF Holds
<1> QED
  BY <1>1, <1>2 DEF ReportStep, TaskFinished, ReportLost

LEMMA ReservedUser ==
  ASSUME TypeOK, RInv, NEW j \in Jobs, UserRequest(j)
  PROVE  RInv'
<1> DEFINE jb == job[j]
<1>1. jb \in JobRecord
  BY DEF TypeOK
<1>2. ASSUME NEW op, NEW jc, NEW killed, NoneAssigned(jb, jc),
             Request(op, j, jc, killed) \/ JobRequest(op, j, jc, killed)
      PROVE  RInv'
  <2>1. UNCHANGED conn
    BY <1>2 DEF JobRequest, Request
  <2>2. job' \in {job, [job EXCEPT ![j] = jc]} \/ job' \in {job, [job EXCEPT ![j] = JobInit]}
    BY <1>2 DEF JobRequest, Request
  <2> QED
    BY <1>2, <2>1, <2>2, NoneAssignedInit, ReservedOne
<1>3. /\ NoneAssigned(jb, JobStop(jb)) /\ NoneAssigned(jb, JobContinue(jb))
      /\ NoneAssigned(jb, JobInit)
  BY <1>1, NoneAssignedInit, NoneAssignedFrames DEF JobStop, JobContinue, JobRecord
<1>4. CASE StopJob(j) \/ ContinueJob(j) \/ HardStopJob(j) \/ DeleteJob(j)
  BY <1>2, <1>3, <1>4 DEF StopJob, ContinueJob, HardStopJob, DeleteJob
<1>5. CASE RerunJob(j)
  <2> DEFINE nfi == [f \in Frames |-> IF jb.fi[f].status = "ASSIGNED"
                                        THEN jb.fi[f] ELSE Requeue(jb.fi[f])]
             jc == [jb EXCEPT !.fi = nfi]
  <2>1. \A f \in Frames : jc.fi[f] = jb.fi[f] \/ jc.fi[f].status # "ASSIGNED"
    BY <1>1, FrameStatuses DEF JobRecord
  <2>2. jc.used = jb.used /\ jc.sub = jb.sub
    BY <1>1 DEF JobRecord
  <2>3. NoneAssigned(jb, jc)
    BY <2>1, <2>2, NoneAssignedFrames
  <2>4. JobRequest("RERUNJOB", j, jc, Killed(jb, Frames))
    BY <1>1, <1>5 DEF RerunJob, JobRecord
  <2> HIDE DEF jc
  <2> QED
    BY <1>2, <2>3, <2>4
<1>6. ASSUME NEW op, NEW f \in Frames, NEW fr, NEW killed,
             fr.status = "ASSIGNED" => /\ jb.fi[f].status = "ASSIGNED"
                                       /\ jb.fi[f].itask = fr.itask,
             FrameRequest(op, j, f, fr, killed)
      PROVE  RInv'
  BY <1>1, <1>2, <1>6, NoneAssignedFrame DEF FrameRequest
<1>7. ASSUME NEW f \in Frames,
             \/ FrameWaiting(j, f) \/ FrameKill(j, f) \/ FrameFinish(j, f)
             \/ FrameKillFinish(j, f) \/ FrameResetRequeued(j, f)
      PROVE  RInv'
  <2> DEFINE fr == jb.fi[f]
  <2>1. fr \in FrameInfo
    BY <1>1 DEF JobRecord
  <2>2. /\ Requeue(fr).status = "WAITING"
        /\ Settle(fr, "FINISHED").status = "FINISHED"
        /\ [fr EXCEPT !.requeue = TRUE].status = fr.status
        /\ [fr EXCEPT !.requeue = TRUE].itask = fr.itask
        /\ [fr EXCEPT !.requeued = 0].status = fr.status
        /\ [fr EXCEPT !.requeued = 0].itask = fr.itask
    BY <2>1, FrameStatuses DEF FrameInfo
  <2>3. CASE FrameWaiting(j, f)
    BY <1>6, <2>2, <2>3 DEF FrameWaiting
  <2>4. CASE FrameKill(j, f)
    BY <1>6, <2>4 DEF FrameKill
  <2>5. CASE FrameFinish(j, f)
    BY <1>6, <2>2, <2>5 DEF FrameFinish
  <2>6. CASE FrameKillFinish(j, f)
    BY <1>6, <2>2, <2>6 DEF FrameKillFinish
  <2>7. CASE FrameResetRequeued(j, f)
    BY <1>6, <2>2, <2>7 DEF FrameResetRequeued
  <2> QED
    BY <1>7, <2>3, <2>4, <2>5, <2>6, <2>7
<1> QED
  BY <1>4, <1>5, <1>7 DEF UserRequest

LEMMA ReservedCheck == ASSUME TypeOK, RInv, Check PROVE RInv'
<1> DEFINE j == chk.j  jb == job[j]
<1>1. j \in Jobs /\ jb \in JobRecord
  BY DEF TypeOK, ChkRecord
<1>2. CASE CheckJob
  BY <1>2, ReservedQuiet DEF CheckJob, Holds
<1>3. CASE CheckFrame
  <2> DEFINE jc == [jb EXCEPT !.fi[chk.i] = Requeue(@)]
  <2>1. chk.i \in Frames
    BY <1>3, SizesAssumption DEF CheckFrame, TypeOK, ChkRecord, Frames
  <2>2. Requeue(jb.fi[chk.i]).status = "WAITING"
    BY <1>1, <2>1, FrameStatuses DEF JobRecord
  <2>3. NoneAssigned(jb, jc)
    BY <1>1, <2>1, <2>2, NoneAssignedFrame
  <2>4. job' \in {job, [job EXCEPT ![j] = jc]} /\ UNCHANGED conn
    BY <1>3 DEF CheckFrame
  <2> HIDE DEF jc
  <2> QED
    BY <1>1, <2>3, <2>4, ReservedOne
<1>4. CASE CheckDone
  <2> DEFINE n == Count(chk.snap, "ASSIGNED")  m == Count(chk.snap, "WAITING")
             jc == JobSettled(jb, n, m)
  <2>1. jc = JobInit \/ (jc.used = jb.used /\ jc.sub = jb.sub /\ jc.fi = jb.fi)
    <3> HIDE DEF n, m
    <3> QED
      BY <1>1 DEF JobSettled, JobRecord, JobStatus
  <2>2. NoneAssigned(jb, jc)
    BY <2>1, NoneAssignedInit, NoneAssignedFrames
  <2>3. job' \in {job, [job EXCEPT ![j] = jc]} /\ UNCHANGED conn
    BY <1>4 DEF CheckDone
  <2> HIDE DEF jc
  <2> QED
    BY <1>1, <2>2, <2>3, ReservedOne
<1> QED
  BY <1>2, <1>3, <1>4 DEF Check

(* A frame reserved for a slave is held by a handler that will assign it   *)
(* or put it back, if no signal ends a handler between the two sections:   *)
(* operators, failing links, slaves and checks that interleave cannot      *)
(* leave it reserved for nobody.                                           *)
THEOREM FramesHeld ==
  ASSUME "signal" \notin Faults
  PROVE  Spec => []ReservedFrameHasHandler
<1>1. TypeOK /\ RInv /\ [Next]_vars => RInv'
  <2> SUFFICES ASSUME TypeOK, RInv, [Next]_vars PROVE RInv'
    OBVIOUS
  <2>1. CASE UNCHANGED vars
    BY <2>1, ReservedQuiet DEF vars, Holds
  <2>2. ASSUME NEW h \in Handlers, HandlerStep(h) \/ HandlerFault(h)
        PROVE  RInv'
    BY <2>2, ReservedHandler DEF HandlerFault, HandlerDies
  <2> QED
    BY <2>1, <2>2, ReservedRegistration, ReservedSlave, ReservedReport,
       ReservedUser, ReservedCheck DEF Next
<1>2. RInv => ReservedFrameHasHandler
  BY DEF RInv
<1> QED
  BY TypeCorrect, ReservedInit, <1>1, <1>2, PTL DEF Spec
=============================================================================
